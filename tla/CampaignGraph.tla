---------------------------- MODULE CampaignGraph ----------------------------
(***************************************************************************)
(* The campaign graph a durable run walks: the pure helpers nextAfter and  *)
(* resolveReplyBranch of packages/workflows/src/shared.ts over a graph     *)
(* that validateGraph (packages/core/src/graph/validate.ts) accepted.      *)
(***************************************************************************)
EXTENDS Naturals, FiniteSets

CONSTANTS
    Nodes, NoNode,  \* NoNode: nextAfter found no edge
    Entry,
    Kind,           \* [Nodes -> NodeKinds]
    Edges,          \* pairs <<from, to>>
    Cases,          \* [Nodes -> sets of cases]
    Intents,
    Default,        \* the "when" of a default case
    NoIntent        \* what a branch resolves on when no reply was taken

\* "send": an email or sms step; "split": a branch on anything but a reply;
\* "action": also the steps of a deferred channel.
NodeKinds == {"send", "delay", "branch", "split", "action", "subcampaign", "end"}

Branching == {n \in Nodes : Kind[n] \in {"branch", "split"}}
EdgesFrom(n) == {e \in Edges : e[1] = n}

\* What validateGraph guarantees of every graph that reaches the engine:
\* known nodes only, one way on from a sequential node, none from an end node,
\* and the cases of a branch keyed by intent.
ValidGraph ==
    /\ Entry \in Nodes
    /\ Edges \subseteq Nodes \X Nodes
    /\ \A n \in Nodes \ Branching :
         CASE Kind[n] = "end" -> EdgesFrom(n) = {}
           [] Kind[n] = "subcampaign" -> Cardinality(EdgesFrom(n)) <= 1
           [] OTHER -> Cardinality(EdgesFrom(n)) = 1
    /\ \A n \in Branching : \A c, d \in Cases[n] : c.when = d.when => c = d

ASSUME KindAssumption == Kind \in [Nodes -> NodeKinds] /\ NoNode \notin Nodes
ASSUME CasesAssumption ==
    Cases \in [Nodes -> SUBSET [when: Intents \union {Default}, goto: Nodes, stage: BOOLEAN]]
ASSUME IntentsAssumption == Default \notin Intents /\ NoIntent \notin Intents \union {Default}
ASSUME GraphAssumption == ValidGraph

\* The node the first edge out of n leads to, if there is one.
NextAfter(n) ==
    IF EdgesFrom(n) = {} THEN NoNode ELSE (CHOOSE e \in EdgesFrom(n) : TRUE)[2]

CasesFor(n, when) == {c \in Cases[n] : c.when = when}

HasDefault(n) == CasesFor(n, Default) # {}

\* A matching intent case first, else the default case: at most one case, none
\* when neither is there.
ResolveReplyBranch(n, intent) ==
    IF CasesFor(n, intent) # {} THEN CasesFor(n, intent) ELSE CasesFor(n, Default)
=============================================================================
