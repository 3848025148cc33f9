-------------------------- MODULE LabelledDataset ---------------------------
(***************************************************************************)
(* What an injector promises about the dataset it builds: within a session *)
(* a token flow gets one label, under which it is published at most once,  *)
(* and what is published is never withdrawn.  A new session starts with no *)
(* memory of the labels given before.  Processor implements it.            *)
(***************************************************************************)
EXTENDS Naturals

CONSTANTS Snippets, Labels, NoLabel

VARIABLES
    session,    \* number of the session
    labelOf,    \* the label each flow got in this session
    published   \* triples <<session, label, flow>>

storeVars == <<session, labelOf, published>>

Unlabelled == [s \in Snippets |-> NoLabel]

Init == session = 1 /\ labelOf = Unlabelled /\ published = {}

Assign(s, l) ==
    /\ labelOf[s] = NoLabel
    /\ labelOf' = [labelOf EXCEPT ![s] = l]
    /\ UNCHANGED <<session, published>>

Publish(s) ==
    /\ labelOf[s] # NoLabel
    /\ <<session, labelOf[s], s>> \notin published
    /\ published' = published \cup {<<session, labelOf[s], s>>}
    /\ UNCHANGED <<session, labelOf>>

NewSession ==
    /\ session' = session + 1
    /\ labelOf' = Unlabelled
    /\ UNCHANGED published

Next ==
    \/ \E s \in Snippets : Publish(s) \/ \E l \in Labels : Assign(s, l)
    \/ NewSession

Spec == Init /\ [][Next]_storeVars

=============================================================================
