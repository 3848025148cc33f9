-------------------------- MODULE MCProcessorManager -------------------------
(* Instances of ProcessorManager for TLC.  The sources a and w share a base *)
(* name across two datasets, as do d and t.                                 *)
EXTENDS ProcessorManager, TLC

CONSTANTS a, b, d, w, t

MCSources  == {a, b, d, w, t}
MCDirOf    == a :> "5" @@ w :> "wild" @@ b :> "wild" @@ d :> "6" @@ t :> "tmp"
MCNameOf   == a :> "one" @@ w :> "one" @@ b :> "two" @@ d :> "three" @@ t :> "three"
\* b needs the old compiler, w none of those installed but 0.5; d compiles in 0.6 only.
MCCompiles == {<<a, "5">>, <<w, "5">>, <<b, "4">>, <<d, "6">>}
\* cp may fail for these, a tree already there or not.
MCCopyFails == {b, d}

=============================================================================
