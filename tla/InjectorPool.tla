---------------------------- MODULE InjectorPool ----------------------------
(***************************************************************************)
(* What the manager and its injectors agree on: while a process is up, an  *)
(* injector that has finished stays finished, whatever the others do; a    *)
(* new process starts with fresh injectors.  Processor implements the pool *)
(* of one injector, ProcessorManager relies on the pool of all of them.    *)
(***************************************************************************)

CONSTANTS Injectors, FinishedAtStart

VARIABLES up, finished

poolVars == <<up, finished>>

Init == up \in BOOLEAN /\ finished = FinishedAtStart

Finishes(i) ==
    /\ up /\ i \notin finished
    /\ finished' = finished \cup {i}
    /\ UNCHANGED up

Down ==
    /\ up /\ up' = FALSE
    /\ UNCHANGED finished

Up ==
    /\ ~up /\ up' = TRUE
    /\ finished' = FinishedAtStart

Next == Down \/ Up \/ \E i \in Injectors : Finishes(i)

Spec == Init /\ [][Next]_poolVars

=============================================================================
