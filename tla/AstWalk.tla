------------------------------- MODULE AstWalk -------------------------------
(***************************************************************************)
(* A syntax tree and the walks over it.  AstWrapper::Parse chooses the     *)
(* contracts, functions and nodes four injectors look at and the texts of  *)
(* declarations; Reentrancy looks for its functions and assignments in the *)
(* whole tree; GetDefinitionMap maps the names a tree defines to what they *)
(* are; ExpandFuncNode puts before a function's code the declarations it   *)
(* refers to.  All are breadth first with a queue; for the last two one    *)
(* action is one round of the loop.                                        *)
(*                                                                         *)
(* Data.  The nodes are 1..n, 1 being the root, numbered level by level:   *)
(* father is nondecreasing.  A node is its kind, its attribute "name" and  *)
(* the declaration it refers to; its id, its source range and the text in  *)
(* that range are its number.  A contract's kind is told by its name.      *)
(***************************************************************************)
EXTENDS Integers, Sequences, SequencesExt, FiniteSets

CONSTANTS
    NodeKinds,      \* the pairs <<name, attributes.name>> of nodes, "" for none
    Libraries,      \* names of contracts whose contractKind is not "contract"
    MaxNodes        \* bound: nodes of a tree

Definitions == {"ContractDefinition", "FunctionDefinition", "StructDefinition", "VariableDeclaration"}
NoRef == 0
Names == {x[2] : x \in NodeKinds} \ {""}

ASSUME NamesAssumption == Libraries \subseteq Names
ASSUME MaxNodesAssumption == MaxNodes \in Nat \ {0}

VARIABLES
    stage,               \* "solc", "compiled", "parsed", "walk"
    father, kind, ref,   \* the tree
    contract_nodes,      \* the contracts kept, in the order found
    children,            \* GetChildren of every node
    id_src_map,          \* the ids whose text is known
    walk,                \* which walk: "GetDefinitionMap" or "ExpandFuncNode"
    root, is_recursive,  \* its arguments
    q,                   \* its queue
    define_map,          \* the kind each name is mapped to
    code                 \* the declarations put before the function, in order; visit_id is their set

tree   == <<father, kind, ref>>
parsed == <<contract_nodes, children, id_src_map>>
walking == <<walk, root, is_recursive>>
vars   == <<stage, tree, parsed, walking, q, define_map, code>>

\* What solc's trees nest, the lists of parameters and statements in between left out.
Holds ==
    ({"SourceUnit"} \X {"ContractDefinition"}) \cup
    ({"ContractDefinition"} \X {"FunctionDefinition", "ModifierDefinition", "StructDefinition", "VariableDeclaration"}) \cup
    ({"FunctionDefinition"} \X {"VariableDeclaration", "VariableDeclarationStatement", "Assignment", "FunctionCall"}) \cup
    ({"ModifierDefinition"} \X {"VariableDeclaration", "Assignment", "FunctionCall"}) \cup
    ({"StructDefinition"} \X {"VariableDeclaration"}) \cup
    ({"VariableDeclarationStatement"} \X {"VariableDeclaration", "FunctionCall", "Identifier"}) \cup
    ({"Assignment", "FunctionCall"} \X {"Identifier", "FunctionCall", "Assignment"})

Nodes == DOMAIN father
OfKind(k) == {n \in Nodes : kind[n][1] = k}
Named == {n \in Nodes : kind[n][2] # ""}

\* The elements of a list that are in a set.
Keep(s, S) ==
    LET kept[k \in 0..Len(s)] ==
            IF k = 0 THEN <<>> ELSE IF s[k] \in S THEN Append(kept[k - 1], s[k]) ELSE kept[k - 1]
    IN  kept[Len(s)]

\* A node and the nodes above it.
Above(n) == LET up[m \in 0..Len(father)] == IF m = 0 THEN {} ELSE {m} \cup up[father[m]]
            IN  up[n]

ChildrenOf(n) == Keep([c \in Nodes |-> c], {c \in Nodes : father[c] = n})

Init ==
    /\ stage = "solc"
    /\ father = <<0>> /\ kind = <<<<"SourceUnit", "">>>> /\ ref = <<>>
    /\ contract_nodes = <<>> /\ children = <<>> /\ id_src_map = {}
    /\ walk = "none" /\ root = 1 /\ is_recursive = FALSE
    /\ q = <<>> /\ define_map = [n \in Names |-> "UNKNOWN"] /\ code = <<>>

\* solc builds a tree, level by level.
AddNode ==
    /\ stage = "solc" /\ Len(father) < MaxNodes
    /\ \E f \in Last(father)..Len(father), new \in NodeKinds :
        /\ f > 0 /\ <<kind[f][1], new[1]>> \in Holds
        /\ father' = Append(father, f) /\ kind' = Append(kind, new)
    /\ UNCHANGED <<stage, ref, parsed, walking, q, define_map, code>>

\* It resolves the names: a reference is to a declaration of the tree, or to none.
Resolve ==
    /\ stage = "solc"
    /\ stage' = "compiled"
    /\ \E referred \in [{n \in Nodes : kind[n][1] = "Identifier"} ->
                            {NoRef} \cup {n \in Nodes : kind[n][1] \in Definitions}] :
            ref' = [n \in Nodes |-> IF kind[n][1] = "Identifier" THEN referred[n] ELSE NoRef]
    /\ UNCHANGED <<father, kind, parsed, walking, q, define_map, code>>

-----------------------------------------------------------------------------
(* AstWrapper::Parse *)

\* The nodes of a kind below one, itself among them, in the order of the queue.
GetNodesByNameMutant(n, name) == \* a node found is not gone into
    LET queue[k \in 0..Len(father)] ==
            IF k = 0 THEN <<n>>
            ELSE LET s == queue[k - 1]
                 IN  IF k <= Len(s) /\ s[k] \notin OfKind(name) THEN s \o ChildrenOf(s[k]) ELSE s
    IN  Keep(queue[Len(father)], OfKind(name))
Queue(n) ==
    LET queue[k \in 0..Len(father)] ==
            IF k = 0 THEN <<n>>
            ELSE LET s == queue[k - 1] IN IF k <= Len(s) THEN s \o ChildrenOf(s[k]) ELSE s
    IN  queue[Len(father)]
GetNodesByName(n, name) == Keep(Queue(n), OfKind(name))

\* FunctionNode::Parse.
ParseFunction(n) ==
    Keep(GetNodesByName(n, "VariableDeclaration"), Named)
        \o GetNodesByName(n, "Assignment")
        \o GetNodesByName(n, "VariableDeclarationStatement")
        \o GetNodesByName(n, "FunctionCall")

\* ContractNode::Parse.
Members == OfKind("FunctionDefinition") \cup OfKind("VariableDeclaration") \cup OfKind("ModifierDefinition")
ParseContract(n) == Keep(ChildrenOf(n), Members \cap Named)

Contracts == {n \in OfKind("ContractDefinition") : kind[n][2] \notin Libraries}

Parse ==
    /\ stage = "compiled"
    /\ stage' = "parsed"
    /\ contract_nodes' = Keep(GetNodesByName(1, "ContractDefinition"), Contracts)
    /\ children' = [n \in Nodes |->
          IF n \in ToSet(contract_nodes') THEN ParseContract(n)
          ELSE IF n \in OfKind("FunctionDefinition") \cap Named /\ father[n] \in ToSet(contract_nodes')
            THEN ParseFunction(n)
          ELSE <<>>]
    /\ id_src_map' = Named \cap (OfKind("StructDefinition") \cup OfKind("VariableDeclaration"))
    /\ UNCHANGED <<tree, walking, q, define_map, code>>

\* The functions the other ExtractInject go through: they ask for the children's type.
Functions ==
    LET found[k \in 0..Len(contract_nodes)] ==
            IF k = 0 THEN <<>>
            ELSE found[k - 1] \o Keep(children[contract_nodes[k]], OfKind("FunctionDefinition"))
    IN  found[Len(contract_nodes)]

\* ReentrancyProcessor::Extract goes through the tree itself.
GetFunctionDefinitionNodes == GetNodesByName(1, "FunctionDefinition")
GetAssignmentNodes == GetNodesByName(1, "Assignment")

\* The first function whose source range encloses a node: the ranges of a node and of
\* what is below it nest.
NoFunction == 0
GetUpperFuncNodePtr(n) ==
    LET enclosing == Keep(GetFunctionDefinitionNodes, Above(n))
    IN  IF enclosing = <<>> THEN NoFunction ELSE Head(enclosing)

\* The functions it passes on; an assignment of a modifier is left alone.
Updating == {GetUpperFuncNodePtr(a) : a \in ToSet(GetAssignmentNodes)} \ {NoFunction}

-----------------------------------------------------------------------------
(* GetDefinitionMap and ExpandFuncNode *)

\* A walk begins: the file's map is made of the whole tree without the functions,
\* a function's map and its declarations of the function.
StartWalk(which, n, recursive) ==
    /\ stage = "parsed"
    /\ stage' = "walk"
    /\ walk' = which /\ root' = n /\ is_recursive' = recursive
    /\ q' = <<n>>
    /\ UNCHANGED <<tree, parsed, define_map, code>>

PushMutant(s, new) == new \o s \* a stack
Push(s, new) == s \o new

\* A function with a name is not gone into unless is_recursive.
Closed == IF is_recursive THEN {} ELSE OfKind("FunctionDefinition") \cap Named

VisitDefinition ==
    /\ stage = "walk" /\ walk = "GetDefinitionMap" /\ q # <<>>
    /\ LET n == Head(q)
       IN  /\ define_map' = IF n \in Named /\ kind[n][1] \in Definitions
                              THEN [define_map EXCEPT ![kind[n][2]] = kind[n][1]]
                              ELSE define_map
           /\ q' = IF n \in Closed THEN Tail(q) ELSE Push(Tail(q), ChildrenOf(n))
    /\ UNCHANGED <<stage, tree, parsed, walking, code>>

NotYetVisitedMutant(d) == d \in id_src_map \* visit_id is not kept
NotYetVisited(d) == d \in id_src_map /\ d \notin ToSet(code)

VisitReference ==
    /\ stage = "walk" /\ walk = "ExpandFuncNode" /\ q # <<>>
    /\ LET n == Head(q)
       IN  /\ code' = IF NotYetVisited(ref[n]) THEN Append(code, ref[n]) ELSE code
           /\ q' = Push(Tail(q), ChildrenOf(n))
    /\ UNCHANGED <<stage, tree, parsed, walking, define_map>>

Next ==
    \/ AddNode \/ Resolve \/ Parse
    \/ StartWalk("GetDefinitionMap", 1, FALSE)
    \/ /\ stage = "parsed"
       /\ \E f \in ToSet(Functions) \cup Updating :
              StartWalk("GetDefinitionMap", f, TRUE) \/ StartWalk("ExpandFuncNode", f, TRUE)
    \/ VisitDefinition \/ VisitReference

Spec == Init /\ [][Next]_vars

-----------------------------------------------------------------------------
(* Properties *)

Walked(which) == stage = "walk" /\ walk = which /\ q = <<>>

Below(n) == {m \in Nodes : n \in Above(m)}
Reached == {n \in Below(root) : (Above(n) \ {n}) \cap Closed = {}}
Defining(name) == {n \in Reached : kind[n][2] = name /\ kind[n][1] \in Definitions}

\* Of several definitions of a name the deepest counts, and the rightmost of those: a
\* local variable hides the contract or function it shares its name with.  The file's map
\* holds the locals of the functions without a name too: the walk goes into those although
\* "if is_recursive == false do not go into the function" (processor.h:489).
DeepestDefinition ==
    Walked("GetDefinitionMap") =>
        \A name \in Names :
            define_map[name] = IF Defining(name) = {} THEN "UNKNOWN"
                               ELSE kind[CHOOSE n \in Defining(name) : \A m \in Defining(name) : m <= n][1]

\* ExpandFuncNode writes each known declaration the function refers to once, however often
\* and at whatever depth it does, its own parameters and locals included, those of outer
\* nodes first.
FirstReference(d) == CHOOSE n \in Below(root) : ref[n] = d /\ \A m \in Below(root) : ref[m] = d => n <= m
DeclarationsOnce ==
    Walked("ExpandFuncNode") =>
        /\ ToSet(code) = {ref[n] : n \in Below(root)} \cap id_src_map
        /\ \A p, r \in 1..Len(code) : p < r => FirstReference(code[p]) < FirstReference(code[r])

\* Four injectors are handed each named function of each contract that is no library once,
\* and with it each assignment, declaring statement and call of the function once, one
\* inside another also, and no node of another function.  Reentrancy is handed each
\* assignment of the source once, those of functions without a name and of libraries
\* also, and with it the one function it stands in, if it stands in one.
Sites == {"Assignment", "VariableDeclarationStatement", "FunctionCall"}
ChildrenOnce ==
    stage = "parsed" =>
        /\ IsInjective(Functions)
        /\ ToSet(Functions) = {f \in OfKind("FunctionDefinition") \cap Named : kind[father[f]][2] \notin Libraries}
        /\ \A f \in ToSet(Functions) :
               /\ IsInjective(children[f])
               /\ {n \in ToSet(children[f]) : kind[n][1] \in Sites} = {n \in Below(f) : kind[n][1] \in Sites}
        /\ IsInjective(GetAssignmentNodes)
        /\ ToSet(GetAssignmentNodes) = OfKind("Assignment")
        /\ \A a \in ToSet(GetAssignmentNodes), f \in OfKind("FunctionDefinition") :
               GetUpperFuncNodePtr(a) = f <=> a \in Below(f)

=============================================================================
