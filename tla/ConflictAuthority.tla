-------------------------- MODULE ConflictAuthority --------------------------
(***************************************************************************)
(* graph.mutation.MutationMixin as the authority on what the graph holds   *)
(* to be true: how a new node is merged into a duplicate or set against an *)
(* opposite, how edges are written, how a conflict is resolved and how     *)
(* nodes are merged by hand.  Every operation is one transaction under the *)
(* write lock, so what matters is the order of legal calls.                *)
(***************************************************************************)
EXTENDS Naturals, FiniteSets, Sequences, SequencesExt, Functions

CONSTANTS
    MaxNodes, MaxEdges,   \* bounds on the nodes and the edges ever made
    Phrases,    \* the contents a node may have
    Near,       \* pairs of phrases find_duplicate takes for the same thing
    Opposed,    \* pairs of decisions detect_conflict_reason sets apart
    Relations,  \* the relationships in use; "contradicts" is one of them
    Given,      \* the ends of validity that callers of add_node and update_node give
    MaxTold,    \* bound on the updates of nodes and on the ends given to new statements
    MaxEdited   \* bound on the edges update_edge rewrites

\* A valid_to is absent, has passed, or lies ahead.
Ends == {"none", "past", "later"}

AuthorityAssumption ==
    MaxNodes \in Nat /\ MaxEdges \in Nat /\ MaxTold \in Nat /\ "contradicts" \in Relations /\ Given \subseteq Ends

VARIABLES nodes, edges, renewed, edited, made

authorityVars == <<nodes, edges, renewed, edited, made>>

\* Ids are fresh uuids: the next number here.
NodeIds == 1..MaxNodes
EdgeIds == 1..MaxEdges
NoNode == 0

Conflicting == {"contradicts", "updates"}

Row == [content : Phrases, aliases : SUBSET Phrases,
        superseded : BOOLEAN, until : Ends]
Edge == [src : NodeIds, dst : NodeIds, rel : Relations,
         winner : NodeIds \union {NoNode}]

\* nodes and edges are the rows of the two tables; renewed and edited are history: the
\* nodes that were out and are, or took the place of, what a caller declared valid
\* again or merged by hand, and the edges update_edge rewrote.
AuthorityInit ==
    /\ nodes = <<>>
    /\ edges = <<>>
    /\ renewed = {}
    /\ edited = {}
    /\ made = [nodes |-> 0, edges |-> 0, told |-> 0]

Here == DOMAIN nodes
Ties == {<<edges[e].src, edges[e].dst, edges[e].rel>> : e \in DOMAIN edges}
With(f, x, v) == [y \in DOMAIN f \union {x} |-> IF y = x THEN v ELSE f[y]]
NewEdge(s, t, r) ==
    [src |-> s, dst |-> t, rel |-> r, winner |-> NoNode]

Alike(p, q) == p = q \/ <<p, q>> \in Near \/ <<q, p>> \in Near
AtOdds(p, q) == <<p, q>> \in Opposed \/ <<q, p>> \in Opposed

(***************************************************************************)
(* add_node.  _find_duplicate_node and _register_conflicts read rows       *)
(* without the aliases column, so the existing node they hand over has     *)
(* none, and _merge_duplicate_node writes the list it builds from them.    *)
(***************************************************************************)
LatestEnd(u, v) ==
    IF "later" \in {u, v} THEN "later" ELSE IF "past" \in {u, v} THEN "past" ELSE "none"

\* The node comes back if it was out and is given a later end.
Renewed(n, until) ==
    renewed \union (IF nodes[n].until = "past" /\ until = "later" THEN {n} ELSE {})

\* Calls that name an end are counted, as updates are.
Told(u) == IF u = "none" THEN 0 ELSE 1

Duplicates(p) == {m \in Here : Alike(nodes[m].content, p)}
ReadForDuplicate(m) == [nodes[m] EXCEPT !.aliases = {}]

\* A mutant that takes the restatement's end when it has one.
MergeDuplicate_TakesEnd(m, p, u) ==
    LET existing == ReadForDuplicate(m) IN
    /\ nodes' = [nodes EXCEPT ![m] =
                  [existing EXCEPT !.aliases = existing.aliases \union ({p} \ {existing.content}),
                                   !.until = u]]
    /\ renewed' = Renewed(m, u)
    /\ made' = [made EXCEPT !.told = @ + Told(u)]
    /\ UNCHANGED <<edges, edited>>

\* The merged row is valid to the later of the two ends.
MergeDuplicate(m, p, u) ==
    LET existing == ReadForDuplicate(m) IN
    /\ nodes' = [nodes EXCEPT ![m] =
                  [existing EXCEPT !.aliases = existing.aliases \union ({p} \ {existing.content}),
                                   !.until = LatestEnd(existing.until, u)]]
    /\ renewed' = Renewed(m, u)
    /\ made' = [made EXCEPT !.told = @ + Told(u)]
    /\ UNCHANGED <<edges, edited>>

Superseded(rows, old) == [rows EXCEPT ![old].superseded = TRUE]

\* Every opponent is marked and gets an edge of its own.
InsertNode(p, u) ==
    LET n == made.nodes + 1
        opponents == SetToSeq({m \in Here : AtOdds(nodes[m].content, p)})
        row == [content |-> p, aliases |-> {}, superseded |-> FALSE, until |-> u]
        marked == [m \in Here |-> IF m \in Range(opponents)
                                  THEN [nodes[m] EXCEPT !.superseded = TRUE] ELSE nodes[m]]
    IN
    /\ n <= MaxNodes /\ made.edges + Len(opponents) <= MaxEdges
    /\ nodes' = With(marked, n, row)
    /\ edges' = [e \in DOMAIN edges \union (made.edges + 1)..(made.edges + Len(opponents)) |->
                   IF e \in DOMAIN edges THEN edges[e]
                   ELSE NewEdge(n, opponents[e - made.edges], "contradicts")]
    /\ made' = [made EXCEPT !.nodes = n, !.edges = @ + Len(opponents), !.told = @ + Told(u)]
    /\ UNCHANGED <<renewed, edited>>

AddOrMerge(p, u, forceNew) ==
    IF ~forceNew /\ Duplicates(p) # {}
    THEN \E m \in Duplicates(p) : made.told + Told(u) <= MaxTold /\ MergeDuplicate(m, p, u)
    ELSE made.told + Told(u) <= MaxTold /\ InsertNode(p, u)

\* update_node writes the fields it is given: a content, an end (absent: as it was), and
\* metadata, over those that say who superseded the node.
EditNode(n, p, u, overwrites) ==
    /\ n \in Here /\ made.told < MaxTold
    /\ nodes' = [nodes EXCEPT ![n] =
                  [content |-> p, aliases |-> @.aliases, superseded |-> @.superseded /\ ~overwrites,
                   until |-> IF u = "none" THEN @.until ELSE u]]
    /\ renewed' = Renewed(n, u)
    /\ made' = [made EXCEPT !.told = @ + 1]
    /\ UNCHANGED <<edges, edited>>

\* The end of a node's validity passes.
Ended(n) ==
    /\ n \in Here /\ nodes[n].until = "later"
    /\ nodes' = [nodes EXCEPT ![n].until = "past"]
    /\ UNCHANGED <<edges, renewed, edited, made>>

(***************************************************************************)
(* Edges.  add_edge returns the edge there is; update_edge writes whatever *)
(* it is told, keeping the rest of the row and its metadata.               *)
(***************************************************************************)
AddEdge(s, t, r) ==
    /\ made.edges < MaxEdges /\ {s, t} \subseteq Here
    /\ <<s, t, r>> \notin Ties
    /\ edges' = With(edges, made.edges + 1, NewEdge(s, t, r))
    /\ made' = [made EXCEPT !.edges = @ + 1]
    /\ nodes' = IF r \in Conflicting THEN Superseded(nodes, t) ELSE nodes
    /\ UNCHANGED <<renewed, edited>>

UpdateEdge(e, t, r) ==
    /\ e \in DOMAIN edges /\ Cardinality(edited \union {e}) <= MaxEdited /\ t \in Here
    /\ edges' = [edges EXCEPT ![e].dst = t, ![e].rel = r]
    /\ nodes' = IF r \in Conflicting THEN Superseded(nodes, t) ELSE nodes
    /\ edited' = edited \union {e}
    /\ UNCHANGED <<renewed, made>>

RemoveEdge(e) ==
    /\ e \in DOMAIN edges
    /\ edges' = Restrict(edges, DOMAIN edges \ {e})
    /\ edited' = edited \ {e}
    /\ UNCHANGED <<nodes, renewed, made>>

\* The foreign keys delete a node's edges with it.
RemoveNode(n) ==
    LET kept == {e \in DOMAIN edges : n \notin {edges[e].src, edges[e].dst}} IN
    /\ n \in Here
    /\ nodes' = Restrict(nodes, Here \ {n})
    /\ edges' = Restrict(edges, kept)
    /\ renewed' = renewed \ {n}
    /\ edited' = edited \intersect kept
    /\ UNCHANGED made

(***************************************************************************)
(* resolve_conflict.  A verdict is written on the edge (without a winner   *)
(* only that it was given, which no later call reads); a named loser is    *)
(* closed and marked superseded, and without a winner the target is only   *)
(* marked.  Nothing an earlier verdict wrote on the winner is taken back.  *)
(***************************************************************************)
ResolveConflict(e, w) ==
    LET edge == edges[e]
        loser == IF w = edge.src THEN edge.dst ELSE edge.src
    IN
    /\ e \in DOMAIN edges /\ edge.rel \in Conflicting
    /\ w \in {edge.src, edge.dst, NoNode}
    /\ edges' = IF w = NoNode THEN edges ELSE [edges EXCEPT ![e].winner = w]
    /\ nodes' = IF w = NoNode THEN Superseded(nodes, edge.dst)
                ELSE [nodes EXCEPT ![loser].until = "past", ![loser].superseded = TRUE]
    /\ renewed' = IF w = NoNode THEN renewed ELSE renewed \ {loser}
    /\ UNCHANGED <<edited, made>>

(***************************************************************************)
(* canonicalize_node, one merged node at a time inside one transaction:    *)
(* drop the edges between the two, move the ends that do not repeat an     *)
(* edge of the canonical node, delete what is left and the node itself.    *)
(***************************************************************************)
Apart(es, n, c) == Restrict(es, {e \in DOMAIN es : {es[e].src, es[e].dst} # {n, c}})

MoveSources(es, n, c) ==
    [e \in DOMAIN es |->
        IF es[e].src = n /\ ~ \E d \in DOMAIN es :
               es[d].src = c /\ es[d].dst = es[e].dst /\ es[d].rel = es[e].rel
        THEN [es[e] EXCEPT !.src = c] ELSE es[e]]

MoveTargets(es, n, c) ==
    [e \in DOMAIN es |->
        IF es[e].dst = n /\ ~ \E d \in DOMAIN es :
               es[d].src = es[e].src /\ es[d].dst = c /\ es[d].rel = es[e].rel
        THEN [es[e] EXCEPT !.dst = c] ELSE es[e]]

\* A mutant that moves every end.
Repointed_Blindly(es, n, c) ==
    LET To(x) == IF x = n THEN c ELSE x
        apart == Apart(es, n, c)
    IN [e \in DOMAIN apart |-> [apart[e] EXCEPT !.src = To(@), !.dst = To(@)]]

Repointed(es, n, c) ==
    LET moved == MoveTargets(MoveSources(Apart(es, n, c), n, c), n, c)
    IN Restrict(moved, {e \in DOMAIN moved : n \notin {moved[e].src, moved[e].dst}})

\* Somebody's verdict or end of validity took n out, or did before it was renewed.
Out(n) == nodes[n].until = "past" \/ n \in renewed

Absorb(n, c) ==
    LET phrases == {nodes[n].content} \union nodes[n].aliases IN
    /\ n # c /\ {n, c} \subseteq Here
    /\ nodes' = [m \in Here \ {n} |->
                   IF m = c THEN [nodes[c] EXCEPT !.aliases = @ \union (phrases \ {nodes[c].content})]
                   ELSE nodes[m]]
    /\ edges' = Repointed(edges, n, c)
    /\ renewed' = (renewed \ {n}) \union (IF Out(n) THEN {c} ELSE {})
    /\ edited' = edited \intersect DOMAIN Repointed(edges, n, c)
    /\ UNCHANGED made

AuthorityNext ==
    \/ \E p \in Phrases, u \in Given, f \in BOOLEAN : AddOrMerge(p, u, f)
    \/ \E n \in NodeIds, p \in Phrases, u \in Given, f \in BOOLEAN : EditNode(n, p, u, f)
    \/ \E n \in NodeIds : Ended(n)
    \/ \E s, t \in NodeIds, r \in Relations : s # t /\ AddEdge(s, t, r)
    \/ \E e \in EdgeIds, t \in NodeIds, r \in Relations : UpdateEdge(e, t, r)
    \/ \E e \in EdgeIds : RemoveEdge(e)
    \/ \E n \in NodeIds : RemoveNode(n)
    \/ \E e \in EdgeIds, w \in NodeIds \union {NoNode} : ResolveConflict(e, w)
    \/ \E n, c \in NodeIds : Absorb(n, c)

AuthoritySpec == AuthorityInit /\ [][AuthorityNext]_authorityVars

-----------------------------------------------------------------------------
AuthorityTypeOK ==
    /\ Here \subseteq NodeIds /\ \A n \in Here : nodes[n] \in Row
    /\ DOMAIN edges \subseteq EdgeIds /\ \A e \in DOMAIN edges : edges[e] \in Edge
    /\ edited \subseteq DOMAIN edges /\ renewed \subseteq Here

\* No edge loses an endpoint, whatever is merged or deleted.
EdgesClosed == \A e \in DOMAIN edges : {edges[e].src, edges[e].dst} \subseteq Here

\* add_edge promises one edge per source, target and relationship; merging
\* nodes by hand keeps it for every edge update_edge has not rewritten.
OneEdgePerKey ==
    \A d, e \in DOMAIN edges \ edited :
        (d # e) => \/ edges[d].src # edges[e].src
                   \/ edges[d].dst # edges[e].dst
                   \/ edges[d].rel # edges[e].rel

\* The endpoint a verdict was spoken against stays out of default answers, in whatever
\* order verdicts are given and nodes restated, edited and merged, unless a caller
\* declared it valid beyond the verdict or merged it by hand into a node that is in.
LosersStayOut ==
    \A e \in DOMAIN edges \ edited :
        LET edge == edges[e] IN
        edge.winner \in {edge.src, edge.dst} =>
            \E loser \in {edge.src, edge.dst} \ {edge.winner} :
                Out(loser)

\* Merging leaves no edge from a node to itself behind.
NoSelfLoop == \A e \in DOMAIN edges \ edited : edges[e].src # edges[e].dst

\* What a sequence of adds, verdicts, merges and deletes keeps of the graph.
ConflictsSound == AuthorityTypeOK /\ EdgesClosed /\ OneEdgePerKey /\ LosersStayOut /\ NoSelfLoop

\* "Track all phrasings that have been merged into this canonical node": none that is
\* tracked is forgotten.
AllPhrasingsTracked ==
    [][\A n \in Here \intersect Here' : nodes[n].aliases \subseteq nodes'[n].aliases]_authorityVars

\* The node that lost a verdict is superseded: restating it does not bring it back.
RestatedLosersStayOut ==
    \A e \in DOMAIN edges \ edited :
        LET edge == edges[e] IN
        edge.winner \in {edge.src, edge.dst} =>
            \E loser \in {edge.src, edge.dst} \ {edge.winner} : nodes[loser].until = "past"

\* The node a resolution names as its winner is not left out by it or by the
\* conflict it settles.
WinnerStands ==
    \A e \in DOMAIN edges \ edited :
        LET w == edges[e].winner IN
        w \in {edges[e].src, edges[e].dst} => nodes[w].until # "past"
=============================================================================
