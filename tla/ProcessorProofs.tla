-------------------------- MODULE ProcessorProofs ---------------------------
(***************************************************************************)
(* Proofs about Processor for every injector, quota, set of token flows    *)
(* and bound.                                                              *)
(***************************************************************************)
EXTENDS Processor, TLAPS, FiniteSetTheorems, SequenceTheorems

\* What the type invariant leaves open and its induction needs: between dumps
\* the loop variable is at the start, while a pair of files is open it is before
\* the end of the list, and every sample belongs to a contract already begun.
Shape ==
    /\ stage \in {"idle", "extracted", "injected", "standard"} => label = "secure" /\ pos = 0
    /\ stage \in {"text", "source"} => pos < Len(Current)
    /\ stage \notin {"idle", "down"} => file > 0

TypeInv == TypeOK /\ Shape

\* The sequences built by extraction and injection.
LEMMA FlowsAreSequences ==
    ASSUME NEW n \in Nat, NEW f \in [1..n -> Snippets]
    PROVE  f \in Seq(Snippets) /\ Len(f) = n
BY SMT

LEMMA InitTypeInv == Init => TypeInv
BY BoundsAssumption DEF Init, TypeInv, TypeOK, Shape, Stages, Labels, Current

LEMMA NextTypeInv == TypeInv /\ [Next]_vars => TypeInv'
<1> SUFFICES ASSUME TypeInv, [Next]_vars PROVE TypeInv'
  OBVIOUS
<1> USE BoundsAssumption DEF TypeInv, TypeOK, Shape
<1>1. CASE ExtractInject
  <2>1. PICK found \in Flows : /\ secure_info' = found /\ inject_info' = found
                               /\ gen_num' = gen_num + Len(found) /\ secure_num' = secure_num + Len(found)
    <3>1. <<>> \in [1..0 -> Snippets]
      OBVIOUS
    <3>2. 0 \in 0..MaxSites
      OBVIOUS
    <3>3. <<>> \in Flows
      BY <3>1, <3>2, Zenon DEF Flows
    <3> QED
      BY <1>1, <3>3 DEF ExtractInject
  <2>2. PICK n \in 0..MaxSites : found \in [1..n -> Snippets]
    BY DEF Flows
  <2>3. found \in Seq(Snippets) /\ Len(found) = n
    BY <2>2, FlowsAreSequences
  <2> QED
    BY <1>1, <2>1, <2>3 DEF ExtractInject, FilesOfRun, Stages, Current, Labels, dumping, disk
<1>2. CASE Inject
  <2>1. inject_info' \in Seq(Snippets) /\ Len(inject_info') = Len(inject_info)
    BY <1>2, FlowsAreSequences DEF Inject
  <2>2. secure_info' \in Seq(Snippets) /\ Len(secure_info') = Len(secure_info)
    <3>1. CASE Kind = "AccessControl"
      <4>1. secure_info' \in [1..Len(secure_info) -> Snippets]
        BY <1>2, <3>1, Zenon DEF Inject
      <4> QED
        BY <4>1, FlowsAreSequences
    <3>2. CASE Kind # "AccessControl"
      BY <1>2, <3>2 DEF Inject
    <3> QED
      BY <3>1, <3>2
  <2> QED
    BY <1>2, <2>1, <2>2 DEF Inject, Stages, Current, Labels, dumping, disk, counters
<1>3. CASE Standardise
  BY <1>3 DEF Standardise, Stages, Current, dumping, disk, counters
<1>4. CASE StartDump
  BY <1>4 DEF StartDump, Stages, Current, Labels, Lists, disk, counters, GetTimeForFileName
<1>5. CASE SkipRepeat
  BY <1>5 DEF SkipRepeat, Stages, Current, disk
<1>6. CASE OpenSample
  <2>1. NewSample \in Sample
    BY <1>6 DEF OpenSample, NewSample, Sample, Current
  <2> QED
    BY <1>6, <2>1 DEF OpenSample, Stages, Current
<1>7. CASE WriteText
  <2>1. \A x \in Sample : [x EXCEPT !.text = TRUE] \in Sample
    BY DEF Sample
  <2>2. samples' \subseteq Sample
    BY <1>7, <2>1 DEF WriteText
  <2>3. stage' \in Stages /\ clock' = clock /\ stamp' = stamp /\ k' = k /\ label' = label
    BY <1>7 DEF WriteText, Stages, dumping
  <2>4. /\ pos < Len(Current) /\ Current' = Current
        /\ pos' = pos /\ stage' = "source" /\ file > 0
    BY <1>7 DEF WriteText, Current, dumping
  <2> QED
    BY <1>7, <2>2, <2>3, <2>4, SMTT(30) DEF WriteText, counters
<1>8. CASE WriteSource
  <2>1. \A x \in Sample : [x EXCEPT !.source = TRUE] \in Sample
    BY DEF Sample
  <2>2. samples' \subseteq Sample
    BY <1>8, <2>1 DEF WriteSource
  <2>3. stage' \in Stages /\ clock' = clock /\ stamp' = stamp /\ k' = k /\ label' = label
    BY <1>8 DEF WriteSource, Stages, dumping
  <2>4. /\ pos < Len(Current) /\ Current' = Current
        /\ pos' = pos + 1 /\ stage' = "dump" /\ file > 0
    BY <1>8 DEF WriteSource, Current, dumping
  <2> QED
    BY <1>8, <2>2, <2>3, <2>4, SMTT(30) DEF WriteSource, counters
<1>9. CASE NextList
  BY <1>9 DEF NextList, Stages, Current, Labels, Lists, disk, counters
<1>10. CASE EndDump
  BY <1>10 DEF EndDump, Stages, Current, Labels, Lists, disk, counters
<1>11. CASE InjectThrows
  BY <1>11 DEF InjectThrows, Stages, Current, dumping, disk, counters
<1>12. CASE Stop
  BY <1>12 DEF Stop, Stages, Current, dumping, disk, counters
<1>13. CASE Restart
  BY <1>13 DEF Restart, Stages, Current, Labels, disk
<1>14. CASE UNCHANGED vars
  BY <1>14 DEF vars, Stages, Current, dumping, disk, counters
<1> QED
  BY <1>1, <1>2, <1>3, <1>4, <1>5, <1>6, <1>7, <1>8, <1>9, <1>10, <1>11, <1>12, <1>13, <1>14
     DEF Next, BuildDataset

\* Every variable keeps its type, whichever injector runs and however often the
\* process is stopped and started again.
THEOREM TypeCorrect == Spec => []TypeOK
<1>1. TypeInv => TypeOK
  BY DEF TypeInv
<1> QED
  BY <1>1, InitTypeInv, NextTypeInv, PTL DEF Spec

LEMMA TypeInvHolds == Spec => []TypeInv
BY InitTypeInv, NextTypeInv, PTL DEF Spec

-----------------------------------------------------------------------------
(* Conservation.  Every entry of the two lists is counted when it is       *)
(* extracted and leaves the count of those still to come when it is        *)
(* written or skipped, so the books balance inside the dump as well.       *)

InDump == stage \in {"dump", "text", "source"}

Remaining ==
    IF stage \in {"extracted", "injected", "standard"} THEN Len(secure_info) + Len(inject_info)
    ELSE IF InDump
           THEN (IF label = "secure" THEN Len(inject_info) ELSE 0) + Len(Current) - pos
                    - (IF stage = "dump" THEN 0 ELSE 1)
    ELSE 0

Extracted == gen_num + secure_num
Disposed == (vulnerable_counter - 1) + (secure_counter - 1) + repeat_snippet

Balanced == Running => Extracted = Disposed + Remaining

LEMMA RemainingType == TypeInv => Remaining \in Int
<1> SUFFICES ASSUME TypeInv PROVE Remaining \in Int
  OBVIOUS
<1>1. Len(secure_info) \in Nat /\ Len(inject_info) \in Nat /\ pos \in Nat
  BY LenProperties DEF TypeInv, TypeOK
<1> QED
  BY <1>1 DEF Remaining, Current

LEMMA NextBalanced == TypeInv /\ Balanced /\ [Next]_vars => Balanced'
<1> SUFFICES ASSUME TypeInv, Balanced, [Next]_vars PROVE Balanced'
  OBVIOUS
<1>0. /\ Len(secure_info) \in Nat /\ Len(inject_info) \in Nat /\ pos \in Nat
      /\ Len(secure_info') = Len(inject_info') /\ Len(secure_info') \in Nat
      /\ gen_num \in Nat /\ secure_num \in Nat /\ repeat_snippet \in Nat
      /\ vulnerable_counter \in Nat /\ secure_counter \in Nat
      /\ label \in Labels /\ Remaining \in Int /\ Remaining' \in Int
      /\ Extracted \in Int /\ Disposed \in Int
  <2>1. TypeInv'
    BY NextTypeInv
  <2>2. /\ Len(secure_info') \in Nat /\ Len(inject_info') \in Nat /\ pos' \in Nat
        /\ Len(secure_info') = Len(inject_info')
    BY <2>1, LenProperties DEF TypeInv, TypeOK
  <2>3. Remaining' \in Int
    BY <2>2 DEF Remaining, Current
  <2>4. Extracted \in Int /\ Disposed \in Int
    BY DEF Extracted, Disposed, TypeInv, TypeOK
  <2> QED
    BY <2>2, <2>3, <2>4, RemainingType, LenProperties DEF TypeInv, TypeOK
<1>1. CASE ExtractInject
  <2>1. PICK found : /\ secure_info' = found /\ inject_info' = found
                     /\ gen_num' = gen_num + Len(found) /\ secure_num' = secure_num + Len(found)
    BY <1>1 DEF ExtractInject
  <2>2. Remaining = 0 /\ Remaining' = Len(found) + Len(found)
    BY <1>0, <1>1, <2>1 DEF ExtractInject, Remaining, InDump
  <2>3. Len(found) \in Nat
    BY <1>0, <2>1
  <2>4. Extracted' = Extracted + (Len(found) + Len(found)) /\ Disposed' = Disposed
    BY <1>0, <1>1, <2>1, <2>3 DEF ExtractInject, Extracted, Disposed
  <2> QED
    BY <1>0, <1>1, <2>2, <2>3, <2>4 DEF ExtractInject, Balanced, Running
<1>2. CASE Inject
  <2>1. Len(secure_info') = Len(secure_info) /\ Len(inject_info') = Len(inject_info)
    BY <1>0, <1>2, FlowsAreSequences DEF Inject, TypeInv, TypeOK
  <2>2. Remaining' = Remaining
    BY <1>2, <2>1 DEF Inject, Remaining
  <2> QED
    BY <1>2, <2>2 DEF Inject, counters, Balanced, Running, Extracted, Disposed
<1>3. CASE Standardise
  <2>1. Remaining' = Remaining
    BY <1>3 DEF Standardise, Remaining
  <2> QED
    BY <1>3, <2>1 DEF Standardise, counters, Balanced, Running, Extracted, Disposed
<1>4. CASE StartDump
  <2>1. Remaining' = Remaining
    BY <1>0, <1>4 DEF StartDump, Lists, Remaining, InDump, Current
  <2> QED
    BY <1>4, <2>1 DEF StartDump, counters, Balanced, Running, Extracted, Disposed
<1>5. CASE SkipRepeat
  <2>1. Remaining' = Remaining - 1
    BY <1>0, <1>5 DEF SkipRepeat, Remaining, InDump, Current, Labels
  <2>2. Extracted' = Extracted /\ Disposed' = Disposed + 1
    BY <1>0, <1>5 DEF SkipRepeat, Extracted, Disposed
  <2> QED
    BY <1>0, <1>5, <2>1, <2>2 DEF SkipRepeat, Balanced, Running
<1>6. CASE OpenSample
  <2>1. Remaining' = Remaining - 1
    <3>1. /\ stage = "dump" /\ stage' = "text" /\ pos' = pos /\ label' = label
          /\ inject_info' = inject_info /\ Current' = Current
      BY <1>6 DEF OpenSample, Current
    <3>. QED
      BY <1>0, <3>1 DEF Remaining, InDump, Labels
  <2>2. Extracted' = Extracted /\ Disposed' = Disposed + 1
    BY <1>0, <1>6 DEF OpenSample, Extracted, Disposed
  <2> QED
    BY <1>0, <1>6, <2>1, <2>2 DEF OpenSample, Balanced, Running
<1>7. CASE WriteText
  <2>1. Remaining' = Remaining
    BY <1>7 DEF WriteText, Remaining, InDump, Current, dumping
  <2> QED
    BY <1>7, <2>1 DEF WriteText, counters, Balanced, Running, Extracted, Disposed
<1>8. CASE WriteSource
  <2>1. Remaining' = Remaining
    BY <1>0, <1>8, SMTT(30) DEF WriteSource, Remaining, InDump, Current, Labels
  <2> QED
    BY <1>8, <2>1 DEF WriteSource, counters, Balanced, Running, Extracted, Disposed
<1>9. CASE NextList
  <2>1. Remaining' = Remaining
    BY <1>0, <1>9 DEF NextList, Lists, Remaining, InDump, Current
  <2> QED
    BY <1>9, <2>1 DEF NextList, counters, Balanced, Running, Extracted, Disposed
<1>10. CASE EndDump
  <2>1. Remaining' = Remaining
    BY <1>0, <1>10 DEF EndDump, Lists, Remaining, InDump, Current
  <2> QED
    BY <1>10, <2>1 DEF EndDump, counters, Balanced, Running, Extracted, Disposed
<1>11. CASE InjectThrows \/ Stop
  BY <1>11 DEF InjectThrows, Stop, Balanced, Running
<1>12. CASE Restart
  <2>1. Remaining' = 0
    BY <1>12 DEF Restart, Remaining, InDump
  <2> QED
    BY <1>12, <2>1 DEF Restart, Balanced, Extracted, Disposed
<1>13. CASE UNCHANGED vars
  <2>1. Remaining' = Remaining
    BY <1>13 DEF vars, Remaining, InDump, Current, dumping
  <2> QED
    BY <1>13, <2>1 DEF vars, counters, Balanced, Running, Extracted, Disposed
<1> QED
  BY <1>1, <1>2, <1>3, <1>4, <1>5, <1>6, <1>7, <1>8, <1>9, <1>10, <1>11, <1>12, <1>13
     DEF Next, BuildDataset

\* Between two contracts every function extracted is a sample or a repeat.
THEOREM ConservationHolds == Spec => []Conservation
<1>1. Init => Balanced
  BY DEF Init, Balanced, Extracted, Disposed, Remaining, InDump, Running
<1>2. TypeInv /\ Balanced => Conservation
  BY DEF Balanced, Conservation, Extracted, Disposed, Remaining, InDump, Running, TypeInv, TypeOK
<1> QED
  BY <1>1, <1>2, NextBalanced, TypeInvHolds, PTL DEF Spec

-----------------------------------------------------------------------------
(* Names.  A dump reads a stamp no file carries yet and counts k up from   *)
(* zero in each list, so the pair it opens is always new.                  *)

NameInv ==
    /\ \A x \in samples : x.stamp < clock
    /\ \A x, y \in samples : Path(x) = Path(y) => x = y
    /\ InDump => stamp <= clock
    /\ InDump => \A x \in samples : x.stamp = stamp =>
           /\ label = "secure" => x.label = "secure"
           /\ x.label = label => x.k <= k

\* The two writes change the files of the open sample only, and of those only
\* whether they are written.
Written(x, y) ==
    /\ y \in Sample
    /\ y.run = x.run /\ y.label = x.label /\ y.stamp = x.stamp /\ y.k = x.k
    /\ y.snippet = x.snippet /\ y.file = x.file
    /\ ~IsOpen(x) => y = x

LEMMA WriteUpdates ==
    ASSUME TypeInv, WriteText \/ WriteSource
    PROVE  \E W \in [samples -> Sample] : /\ samples' = {W[x] : x \in samples}
                                          /\ \A x \in samples : Written(x, W[x])
<1>1. CASE WriteText
  <2> DEFINE W == [x \in samples |-> IF IsOpen(x) THEN [x EXCEPT !.text = TRUE] ELSE x]
  <2>1. \A x \in samples : Written(x, W[x])
    BY DEF TypeInv, TypeOK, Sample, Written
  <2>2. W \in [samples -> Sample]
    BY <2>1 DEF Written
  <2>3. samples' = {W[x] : x \in samples}
    BY <1>1 DEF WriteText
  <2> QED
    BY <2>1, <2>2, <2>3
<1>2. CASE WriteSource
  <2> DEFINE W == [x \in samples |-> IF IsOpen(x) THEN [x EXCEPT !.source = TRUE] ELSE x]
  <2>1. \A x \in samples : Written(x, W[x])
    BY DEF TypeInv, TypeOK, Sample, Written
  <2>2. W \in [samples -> Sample]
    BY <2>1 DEF Written
  <2>3. samples' = {W[x] : x \in samples}
    BY <1>2 DEF WriteSource
  <2> QED
    BY <2>1, <2>2, <2>3
<1> QED
  BY <1>1, <1>2

\* No file carries the name of the pair about to be opened.
LEMMA NewPath ==
    ASSUME TypeInv, NameInv, stage = "dump"
    PROVE  \A x \in samples : Path(x) # Path(NewSample)
<1>1. \A x \in samples : x.k \in Nat
  BY DEF TypeInv, TypeOK, Sample
<1>2. Path(NewSample) = <<label, stamp, k + 1>>
  BY DEF NewSample, Path
<1>3. k \in Nat
  BY DEF TypeInv, TypeOK
<1>4. ASSUME NEW x \in samples, Path(x) = Path(NewSample) PROVE FALSE
  <2>1. x.label = label /\ x.stamp = stamp /\ x.k = k + 1
    BY <1>2, <1>4 DEF Path
  <2>2. x.k <= k
    BY <2>1 DEF NameInv, InDump
  <2> QED
    BY <1>3, <2>1, <2>2
<1> QED
  BY <1>4

\* Hence opening a pair adds it and truncates nothing.
LEMMA OpenAdds ==
    ASSUME TypeInv, NameInv, OpenSample
    PROVE  samples' = samples \cup {NewSample} /\ NewSample \notin samples
<1>1. \A x \in samples : Path(x) # Path(NewSample)
  BY NewPath DEF OpenSample
<1> QED
  BY <1>1 DEF OpenSample

LEMMA NextNameInv == TypeInv /\ NameInv /\ [Next]_vars => NameInv'
<1> SUFFICES ASSUME TypeInv, NameInv, [Next]_vars PROVE NameInv'
  OBVIOUS
<1>0. /\ \A x \in samples : x.stamp \in Nat /\ x.k \in Nat /\ x.label \in Labels
      /\ clock \in Nat /\ k \in Nat /\ stamp \in Nat /\ label \in Labels
  BY DEF TypeInv, TypeOK, Sample
<1>1. CASE ExtractInject
  BY <1>1 DEF ExtractInject, NameInv, InDump, dumping, disk, Path
<1>2. CASE Inject
  BY <1>2 DEF Inject, NameInv, InDump, dumping, disk, Path
<1>3. CASE Standardise
  BY <1>3 DEF Standardise, NameInv, InDump, dumping, disk, Path
<1>4. CASE StartDump
  BY <1>0, <1>4 DEF StartDump, NameInv, InDump, disk, Path, GetTimeForFileName, Lists
<1>5. CASE SkipRepeat
  BY <1>5 DEF SkipRepeat, NameInv, InDump, disk, Path
<1>6. CASE OpenSample
  <2>1. samples' = samples \cup {NewSample}
    BY <1>6, OpenAdds
  <2>2. \A x \in samples : Path(x) # Path(NewSample)
    BY <1>6, NewPath DEF OpenSample
  <2>3. /\ NewSample.stamp = stamp /\ NewSample.label = label /\ NewSample.k = k + 1
        /\ stamp' = stamp /\ label' = label /\ k' = k + 1 /\ clock' = clock + 1
    BY <1>6 DEF OpenSample, NewSample
  <2>4. stamp <= clock
    BY <1>6 DEF OpenSample, NameInv, InDump
  <2>5. \A x \in samples' : x.stamp < clock'
    BY <1>0, <2>1, <2>3, <2>4 DEF NameInv
  <2>6. \A x, y \in samples' : Path(x) = Path(y) => x = y
    BY <2>1, <2>2 DEF NameInv
  <2>7. \A x \in samples : x.stamp = stamp =>
            /\ label = "secure" => x.label = "secure"
            /\ x.label = label => x.k <= k
    BY <1>6 DEF OpenSample, NameInv, InDump
  <2>8. \A x \in samples' : x.stamp = stamp' =>
            /\ label' = "secure" => x.label = "secure"
            /\ x.label = label' => x.k <= k'
    BY <1>0, <2>1, <2>3, <2>7
  <2> QED
    BY <1>0, <2>3, <2>4, <2>5, <2>6, <2>8 DEF NameInv
<1>7. CASE WriteText \/ WriteSource
  <2>1. PICK W \in [samples -> Sample] : /\ samples' = {W[x] : x \in samples}
                                         /\ \A x \in samples : Written(x, W[x])
    BY <1>7, WriteUpdates
  <2>2. /\ UNCHANGED <<clock, stamp, label, k>> /\ InDump /\ InDump'
    BY <1>7 DEF WriteText, WriteSource, InDump, dumping
  <2>3. \A x \in samples : Path(W[x]) = Path(x)
    BY <2>1 DEF Written, Path
  <2>4. \A x, y \in samples' : Path(x) = Path(y) => x = y
    BY <2>1, <2>3 DEF NameInv
  <2> QED
    BY <2>1, <2>2, <2>4 DEF NameInv, Written
<1>8. CASE NextList
  BY <1>0, <1>8 DEF NextList, NameInv, InDump, disk, Path, Lists, Labels
<1>9. CASE EndDump
  BY <1>9 DEF EndDump, NameInv, InDump, disk, Path
<1>10. CASE InjectThrows \/ Stop
  BY <1>10 DEF InjectThrows, Stop, NameInv, InDump, dumping, disk, Path
<1>11. CASE Restart
  BY <1>11 DEF Restart, NameInv, InDump, disk, Path
<1>12. CASE UNCHANGED vars
  BY <1>12 DEF vars, NameInv, InDump, dumping, disk, Path
<1> QED
  BY <1>1, <1>2, <1>3, <1>4, <1>5, <1>6, <1>7, <1>8, <1>9, <1>10, <1>11, <1>12 DEF Next, BuildDataset

LEMMA NameInvHolds == Spec => []NameInv
<1>1. Init => NameInv
  BY DEF Init, NameInv, InDump
<1> QED
  BY <1>1, NextNameInv, TypeInvHolds, PTL DEF Spec

-----------------------------------------------------------------------------
(* Labels.  token_flow_set is exactly the set of flows of this process's   *)
(* samples, so a flow found missing there has no sample yet.               *)

LabelInv ==
    /\ \A x \in samples : x.run <= run
    /\ token_flow_set = {x.snippet : x \in Mine}
    /\ OneLabelPerFlow

LEMMA NextLabelInv == TypeInv /\ NameInv /\ LabelInv /\ [Next]_vars => LabelInv'
<1> SUFFICES ASSUME TypeInv, NameInv, LabelInv, [Next]_vars PROVE LabelInv'
  OBVIOUS
<1>1. CASE OpenSample
  <2>1. samples' = samples \cup {NewSample}
    BY <1>1, OpenAdds
  <2>2. NewSample.run = run /\ NewSample.snippet = Current[pos + 1] /\ run' = run
    BY <1>1 DEF OpenSample, NewSample
  <2>3. Mine' = Mine \cup {NewSample}
    BY <2>1, <2>2 DEF Mine
  <2>4. token_flow_set' = token_flow_set \cup {NewSample.snippet} /\ NewSample.snippet \notin token_flow_set
    BY <1>1, <2>2 DEF OpenSample, Repeated
  <2>5. token_flow_set' = {x.snippet : x \in Mine'}
    BY <2>3, <2>4 DEF LabelInv
  <2>6. \A x \in Mine : x.snippet # NewSample.snippet
    BY <2>4 DEF LabelInv
  <2>7. OneLabelPerFlow'
    BY <2>3, <2>6 DEF LabelInv, OneLabelPerFlow
  <2>8. \A x \in samples' : x.run <= run'
    BY <2>1, <2>2 DEF LabelInv, TypeInv, TypeOK
  <2> QED
    BY <2>5, <2>7, <2>8 DEF LabelInv
<1>2. CASE WriteText \/ WriteSource
  <2>1. PICK W \in [samples -> Sample] : /\ samples' = {W[x] : x \in samples}
                                         /\ \A x \in samples : Written(x, W[x])
    BY <1>2, WriteUpdates
  <2>2. UNCHANGED <<run, token_flow_set>>
    BY <1>2 DEF WriteText, WriteSource
  <2>3. Mine' = {W[x] : x \in Mine}
    BY <2>1, <2>2 DEF Mine, Written
  <2>4. \A x \in Mine : x \in samples /\ W[x].snippet = x.snippet
    BY <2>1 DEF Mine, Written
  <2>5. token_flow_set' = {x.snippet : x \in Mine'}
    BY <2>2, <2>3, <2>4 DEF LabelInv
  <2>6. OneLabelPerFlow'
    BY <2>3, <2>4 DEF LabelInv, OneLabelPerFlow
  <2>7. \A x \in samples : x.run <= run /\ W[x].run = x.run
    BY <2>1 DEF LabelInv, Written
  <2>8. \A y \in samples' : y.run <= run'
    BY <2>1, <2>2, <2>7
  <2> QED
    BY <2>5, <2>6, <2>8 DEF LabelInv
<1>3. CASE Restart
  <2>1. Mine' = {}
    <3>1. samples' = samples /\ run' = run + 1 /\ run \in Int
      BY <1>3 DEF Restart, disk, TypeInv, TypeOK
    <3>2. \A x \in samples : x.run \in Int /\ x.run <= run
      BY DEF LabelInv, TypeInv, TypeOK, Sample
    <3> QED
      BY <3>1, <3>2 DEF Mine
  <2> QED
    BY <1>3, <2>1 DEF Restart, disk, LabelInv, OneLabelPerFlow, TypeInv, TypeOK, Sample
<1>4. CASE UNCHANGED <<samples, run, token_flow_set>>
  BY <1>4 DEF LabelInv, OneLabelPerFlow, Mine
<1>5. ExtractInject \/ Inject \/ Standardise \/ StartDump \/ SkipRepeat \/ NextList \/ EndDump
        \/ InjectThrows \/ Stop \/ UNCHANGED vars => UNCHANGED <<samples, run, token_flow_set>>
  BY DEF ExtractInject, Inject, Standardise, StartDump, SkipRepeat, NextList, EndDump, InjectThrows, Stop,
         vars, disk
<1> QED
  BY <1>1, <1>2, <1>3, <1>4, <1>5 DEF Next, BuildDataset

LEMMA InitLabelInv == Init => LabelInv
BY DEF Init, LabelInv, OneLabelPerFlow, Mine

LEMMA LabelInvHolds == Spec => []LabelInv
BY InitLabelInv, NextLabelInv, TypeInvHolds, NameInvHolds, PTL DEF Spec

\* No process writes a token flow twice, nor under both labels.
THEOREM OneLabelHolds == Spec => []OneLabelPerFlow
<1>1. LabelInv => OneLabelPerFlow
  BY DEF LabelInv
<1> QED
  BY <1>1, LabelInvHolds, PTL

-----------------------------------------------------------------------------
(* Permanence.  The open pair is the only sample of this process that is   *)
(* not whole, and the writes touch nothing else.                           *)

OpenInv ==
    /\ stage \in {"text", "source"} =>
           \E x \in Mine : IsOpen(x) /\ x.snippet = Current[pos + 1] /\ x.text = (stage = "source") /\ ~x.source
    /\ Running => \A x \in Mine : ~Whole(x) => stage \in {"text", "source"} /\ IsOpen(x)

LEMMA NextOpenInv == TypeInv /\ NameInv /\ LabelInv /\ OpenInv /\ [Next]_vars => OpenInv'
<1> SUFFICES ASSUME TypeInv, NameInv, LabelInv, OpenInv, [Next]_vars PROVE OpenInv'
  OBVIOUS
<1>1. CASE OpenSample
  <2>1. PICK new : new = NewSample
    OBVIOUS
  <2>2. samples' = samples \cup {new}
    BY <1>1, <2>1, OpenAdds
  <2>3. /\ new.run = run /\ new.snippet = Current[pos + 1]
        /\ Path(new) = <<label, stamp, k + 1>> /\ new.text = FALSE /\ new.source = FALSE
    BY <2>1 DEF NewSample, Path
  <2>4. /\ UNCHANGED <<run, label, stamp, pos, secure_info, inject_info>> /\ k' = k + 1
        /\ stage = "dump" /\ stage' = "text"
    BY <1>1 DEF OpenSample
  <2>5. Mine' = Mine \cup {new}
    BY <2>2, <2>3, <2>4 DEF Mine
  <2>6. Current' = Current
    BY <2>4 DEF Current
  <2>7. \A x \in Mine : Whole(x)
    BY <2>4 DEF OpenInv, Running
  <2>8. IsOpen(new)'
    BY <2>3, <2>4 DEF IsOpen
  <2>9. \A x \in Mine' : ~Whole(x) => x = new
    BY <2>5, <2>7
  <2> QED
    BY <2>3, <2>4, <2>5, <2>6, <2>8, <2>9 DEF OpenInv
<1>2. CASE WriteText
  <2>1. PICK x \in Mine : IsOpen(x) /\ x.snippet = Current[pos + 1] /\ ~x.text /\ ~x.source
    BY <1>2 DEF WriteText, OpenInv
  <2>2. PICK y : y = [x EXCEPT !.text = TRUE]
    OBVIOUS
  <2>3. /\ UNCHANGED <<run, dumping, secure_info, inject_info>>
        /\ stage = "text" /\ stage' = "source"
    BY <1>2 DEF WriteText
  <2>4. x \in Sample
    BY DEF Mine, TypeInv, TypeOK
  <2>5. y.run = x.run /\ Path(y) = Path(x) /\ y.snippet = x.snippet /\ y.text = TRUE /\ y.source = FALSE
    BY <2>1, <2>2, <2>4 DEF Sample, Path
  <2>6. \A z \in samples : IsOpen(z) => z = x
    BY <2>1 DEF IsOpen, NameInv, Mine
  <2>7. samples' = (samples \ {x}) \cup {y}
    BY <1>2, <2>1, <2>2, <2>6 DEF WriteText, Mine
  <2>8. y \in Mine' /\ IsOpen(y)' /\ Current' = Current
    BY <2>1, <2>3, <2>5, <2>7 DEF Mine, IsOpen, Current, dumping
  <2>9. \A z \in Mine' : ~Whole(z) => z = y
    BY <2>3, <2>6, <2>7 DEF Mine, OpenInv, Running
  <2> QED
    BY <2>1, <2>3, <2>5, <2>8, <2>9 DEF OpenInv, dumping
<1>3. CASE WriteSource
  <2>1. PICK x \in Mine : IsOpen(x) /\ x.text
    BY <1>3 DEF WriteSource, OpenInv
  <2>2. PICK y : y = [x EXCEPT !.source = TRUE]
    OBVIOUS
  <2>3. stage = "source" /\ stage' = "dump" /\ run' = run
    BY <1>3 DEF WriteSource
  <2>4. Whole(y)
    BY <2>1, <2>2 DEF Whole, Mine, TypeInv, TypeOK, Sample
  <2>5. \A z \in samples : IsOpen(z) => z = x
    BY <2>1 DEF IsOpen, NameInv, Mine
  <2>6. samples' = (samples \ {x}) \cup {y}
    BY <1>3, <2>1, <2>2, <2>5 DEF WriteSource, Mine
  <2>7. \A z \in Mine' : Whole(z)
    BY <2>3, <2>4, <2>5, <2>6 DEF Mine, OpenInv, Running
  <2> QED
    BY <2>3, <2>7 DEF OpenInv
<1>4. CASE Restart
  <2>1. Mine' = {}
    BY <1>4 DEF Restart, disk, Mine, LabelInv, TypeInv, TypeOK, Sample
  <2> QED
    BY <1>4, <2>1 DEF Restart, OpenInv
<1>5. CASE InjectThrows \/ Stop
  BY <1>5 DEF InjectThrows, Stop, OpenInv, Running
<1>6. CASE UNCHANGED vars
  BY <1>6 DEF vars, dumping, disk, OpenInv, Running, Mine, IsOpen, Current
<1>7. CASE ExtractInject \/ Inject \/ Standardise \/ StartDump \/ SkipRepeat \/ NextList \/ EndDump
  <2>1. UNCHANGED <<samples, run>> /\ stage \notin {"text", "source", "down"} /\ stage' \notin {"text", "source"}
    BY <1>7 DEF ExtractInject, Inject, Standardise, StartDump, SkipRepeat, NextList, EndDump, disk
  <2>2. \A x \in Mine' : Whole(x)
    BY <2>1 DEF Mine, OpenInv, Running
  <2> QED
    BY <2>1, <2>2 DEF OpenInv
<1> QED
  BY <1>1, <1>2, <1>3, <1>4, <1>5, <1>6, <1>7 DEF Next, BuildDataset

LEMMA OpenInvHolds == Spec => []OpenInv
<1>1. Init => OpenInv
  BY DEF Init, OpenInv, Mine
<1> QED
  BY <1>1, NextOpenInv, TypeInvHolds, NameInvHolds, LabelInvHolds, PTL DEF Spec

\* A complete sample is never changed, truncated or removed, by the process that
\* wrote it or by a later one over the same directory.
THEOREM SamplesKeptHolds == Spec => SamplesKept
<1> DEFINE Kept == \A x \in samples : Whole(x) => x \in samples'
<1>1. TypeInv /\ NameInv /\ OpenInv /\ [Next]_vars => [Kept]_vars
  <2> SUFFICES ASSUME TypeInv, NameInv, OpenInv, Next PROVE Kept
    OBVIOUS
  <2>1. CASE OpenSample
    BY <2>1, OpenAdds
  <2>2. CASE WriteText \/ WriteSource
    <3>1. PICK x \in Mine : IsOpen(x) /\ ~x.source
      BY <2>2 DEF WriteText, WriteSource, OpenInv
    <3>2. \A z \in samples : IsOpen(z) => ~Whole(z)
      BY <3>1 DEF IsOpen, NameInv, Mine, Whole
    <3> QED
      BY <2>2, <3>2 DEF WriteText, WriteSource
  <2>3. CASE UNCHANGED samples
    BY <2>3
  <2> QED
    BY <2>1, <2>2, <2>3
       DEF Next, BuildDataset, ExtractInject, Inject, Standardise, StartDump, SkipRepeat, NextList, EndDump,
           InjectThrows, Stop, Restart, disk
<1> QED
  BY <1>1, TypeInvHolds, NameInvHolds, OpenInvHolds, PTL DEF Spec, SamplesKept

-----------------------------------------------------------------------------
(* Counting the files. *)

\* A write replaces the open sample by one of the same name and process.
LEMMA WriteSwaps ==
    ASSUME TypeInv, NameInv, OpenInv, WriteText \/ WriteSource
    PROVE  \E x, y : /\ x \in Mine /\ samples' = (samples \ {x}) \cup {y} /\ y \notin samples \ {x}
                     /\ y.run = x.run /\ y.label = x.label /\ y.snippet = x.snippet
                     /\ ~Whole(x) /\ (Whole(y) <=> WriteSource)
<1>1. PICK x \in Mine : IsOpen(x) /\ x.text = (stage = "source") /\ ~x.source
  BY DEF WriteText, WriteSource, OpenInv
<1>2. PICK y : y = IF stage = "text" THEN [x EXCEPT !.text = TRUE] ELSE [x EXCEPT !.source = TRUE]
  OBVIOUS
<1>3. x \in Sample /\ x \in samples
  BY DEF Mine, TypeInv, TypeOK
<1>4. \A z \in samples : IsOpen(z) => z = x
  BY <1>1, <1>3 DEF IsOpen, NameInv
<1>5. Path(y) = Path(x) /\ y.run = x.run /\ y.label = x.label /\ y.snippet = x.snippet
  BY <1>2, <1>3 DEF Sample, Path
<1>6. samples' = (samples \ {x}) \cup {y}
  BY <1>1, <1>2, <1>3, <1>4 DEF WriteText, WriteSource
<1>7. y \notin samples \ {x}
  BY <1>1, <1>4, <1>5 DEF IsOpen
<1>8. ~Whole(x) /\ (Whole(y) <=> WriteSource)
  BY <1>1, <1>2, <1>3 DEF Whole, Sample, WriteText, WriteSource
<1> QED
  BY <1>5, <1>6, <1>7, <1>8

\* Steps that leave the samples of this process and its counters alone.
Quiet == UNCHANGED <<samples, run, vulnerable_counter, secure_counter>>

LEMMA StepsOnSamples ==
    ASSUME [Next]_vars
    PROVE  OpenSample \/ WriteText \/ WriteSource \/ Restart \/ Quiet
BY DEF Next, BuildDataset, ExtractInject, Inject, Standardise, StartDump, SkipRepeat, NextList, EndDump,
       InjectThrows, Stop, vars, counters, disk, Quiet

OfLabel(l) == {x \in Mine : x.label = l}
CounterOf(l) == IF l = "vulnerable" THEN vulnerable_counter ELSE secure_counter

CountInv == \A l \in Labels : IsFiniteSet(OfLabel(l)) /\ Cardinality(OfLabel(l)) = CounterOf(l) - 1

LEMMA NextCountInv ==
    TypeInv /\ NameInv /\ LabelInv /\ OpenInv /\ CountInv /\ [Next]_vars => CountInv'
<1> SUFFICES ASSUME TypeInv, NameInv, LabelInv, OpenInv, CountInv, [Next]_vars, NEW l \in Labels
             PROVE  (IsFiniteSet(OfLabel(l)) /\ Cardinality(OfLabel(l)) = CounterOf(l) - 1)'
  BY DEF CountInv
<1>0. IsFiniteSet(OfLabel(l)) /\ Cardinality(OfLabel(l)) = CounterOf(l) - 1 /\ CounterOf(l) \in Nat
  BY DEF CountInv, CounterOf, TypeInv, TypeOK
<1>1. CASE OpenSample
  <2>1. PICK new : new = NewSample
    OBVIOUS
  <2>2. samples' = samples \cup {new} /\ new \notin samples /\ new.run = run /\ new.label = label /\ run' = run
    BY <1>1, <2>1, OpenAdds DEF OpenSample, NewSample
  <2>3. CASE l = label
    <3>1. OfLabel(l)' = OfLabel(l) \cup {new} /\ new \notin OfLabel(l)
      BY <2>2, <2>3 DEF OfLabel, Mine
    <3>2. IsFiniteSet(OfLabel(l)') /\ Cardinality(OfLabel(l)') = Cardinality(OfLabel(l)) + 1
      BY <1>0, <3>1, FS_AddElement
    <3>3. CounterOf(l)' = CounterOf(l) + 1
      BY <1>1, <2>3 DEF CounterOf, OpenSample, Labels
    <3> QED
      BY <1>0, <3>2, <3>3
  <2>4. CASE l # label
    <3>1. OfLabel(l)' = OfLabel(l)
      BY <2>2, <2>4 DEF OfLabel, Mine
    <3>2. CounterOf(l)' = CounterOf(l)
      BY <1>1, <2>4 DEF CounterOf, OpenSample, Labels, TypeInv, TypeOK
    <3> QED
      BY <1>0, <3>1, <3>2
  <2> QED
    BY <2>3, <2>4
<1>2. CASE WriteText \/ WriteSource
  <2>1. PICK x, y : /\ x \in Mine /\ samples' = (samples \ {x}) \cup {y} /\ y \notin samples \ {x}
                    /\ y.run = x.run /\ y.label = x.label
    BY <1>2, WriteSwaps
  <2>2. run' = run /\ CounterOf(l)' = CounterOf(l)
    BY <1>2 DEF WriteText, WriteSource, CounterOf, counters
  <2>3. CASE x.label = l
    <3> DEFINE rest == OfLabel(l) \ {x}
    <3>1. OfLabel(l)' = rest \cup {y} /\ x \in OfLabel(l) /\ y \notin rest
      BY <2>1, <2>2, <2>3 DEF OfLabel, Mine
    <3>2. IsFiniteSet(rest) /\ Cardinality(rest) = Cardinality(OfLabel(l)) - 1
      BY <1>0, <3>1, FS_RemoveElement
    <3> HIDE DEF rest
    <3>3. IsFiniteSet(OfLabel(l)') /\ Cardinality(OfLabel(l)') = Cardinality(rest) + 1
      BY <3>1, <3>2, FS_AddElement
    <3> QED
      BY <1>0, <2>2, <3>2, <3>3
  <2>4. CASE x.label # l
    <3>1. OfLabel(l)' = OfLabel(l)
      BY <2>1, <2>2, <2>4 DEF OfLabel, Mine
    <3> QED
      BY <1>0, <2>2, <3>1
  <2> QED
    BY <2>3, <2>4
<1>3. CASE Restart
  <2>1. OfLabel(l)' = {}
    BY <1>3 DEF Restart, disk, OfLabel, Mine, LabelInv, TypeInv, TypeOK, Sample
  <2>2. CounterOf(l)' = 1
    BY <1>3 DEF Restart, CounterOf
  <2> QED
    BY <2>1, <2>2, FS_EmptySet
<1>4. CASE Quiet
  BY <1>0, <1>4 DEF Quiet, OfLabel, Mine, CounterOf
<1> QED
  BY <1>1, <1>2, <1>3, <1>4, StepsOnSamples

\* The counters that drive Finish are one more than the files of this process.
THEOREM CountersMatchDiskHolds == Spec => []CountersMatchDisk
<1>1. Init => CountInv
  <2> SUFFICES ASSUME Init PROVE CountInv
    OBVIOUS
  <2>1. \A l \in Labels : OfLabel(l) = {} /\ CounterOf(l) = 1
    BY DEF Init, OfLabel, Mine, CounterOf
  <2> QED
    BY <2>1, FS_EmptySet DEF CountInv
<1>2. CountInv => CountersMatchDisk
  BY DEF CountInv, CountersMatchDisk, OfLabel, CounterOf, Labels
<1> QED
  BY <1>1, <1>2, NextCountInv, TypeInvHolds, NameInvHolds, LabelInvHolds, OpenInvHolds, PTL DEF Spec

Torn == {x \in samples : ~Whole(x)}
OpenNow == IF stage \in {"text", "source", "down"} THEN 1 ELSE 0
TornInv == IsFiniteSet(Torn) /\ Cardinality(Torn) <= (run - 1) + OpenNow

LEMMA NextTornInv == TypeInv /\ NameInv /\ OpenInv /\ TornInv /\ [Next]_vars => TornInv'
<1> SUFFICES ASSUME TypeInv, NameInv, OpenInv, TornInv, [Next]_vars PROVE TornInv'
  OBVIOUS
<1>0. IsFiniteSet(Torn) /\ Cardinality(Torn) \in Nat /\ Cardinality(Torn) <= (run - 1) + OpenNow /\ run \in Nat
  BY FS_CardinalityType DEF TornInv, TypeInv, TypeOK
<1>1. CASE OpenSample
  <2>1. Torn' = Torn \cup {NewSample}
    BY <1>1, OpenAdds DEF Torn, Whole, NewSample
  <2>2. IsFiniteSet(Torn') /\ Cardinality(Torn') <= Cardinality(Torn) + 1 /\ Cardinality(Torn') \in Nat
    BY <1>0, <2>1, FS_AddElement, FS_CardinalityType
  <2>3. run' = run /\ OpenNow = 0 /\ OpenNow' = 1
    BY <1>1 DEF OpenSample, OpenNow
  <2> QED
    BY <1>0, <2>2, <2>3 DEF TornInv
<1>2. CASE WriteText \/ WriteSource
  <2>1. PICK x, y : /\ x \in Mine /\ samples' = (samples \ {x}) \cup {y} /\ y \notin samples \ {x}
                    /\ ~Whole(x) /\ (Whole(y) <=> WriteSource)
    BY <1>2, WriteSwaps
  <2>2. x \in Torn /\ Torn' = (Torn \ {x}) \cup (IF WriteSource THEN {} ELSE {y})
    BY <2>1 DEF Torn, Mine
  <2>3. IsFiniteSet(Torn \ {x}) /\ Cardinality(Torn \ {x}) = Cardinality(Torn) - 1
    BY <1>0, <2>2, FS_RemoveElement
  <2>4. CASE WriteSource
    <3>1. Torn' = Torn \ {x} /\ run' = run /\ OpenNow = 1 /\ OpenNow' = 0
      BY <2>2, <2>4 DEF WriteSource, OpenNow
    <3> QED
      BY <1>0, <2>3, <3>1 DEF TornInv
  <2>5. CASE ~WriteSource
    <3> DEFINE rest == Torn \ {x}
    <3>1. Torn' = rest \cup {y} /\ y \notin rest /\ run' = run /\ OpenNow = 1 /\ OpenNow' = 1
      BY <1>2, <2>1, <2>2, <2>5 DEF WriteText, OpenNow, Torn
    <3>2. IsFiniteSet(rest) /\ Cardinality(rest) = Cardinality(Torn) - 1
      BY <2>3
    <3> HIDE DEF rest
    <3>3. IsFiniteSet(Torn') /\ Cardinality(Torn') = Cardinality(rest) + 1
      BY <3>1, <3>2, FS_AddElement
    <3> QED
      BY <1>0, <3>1, <3>2, <3>3 DEF TornInv
  <2> QED
    BY <2>4, <2>5
<1>3. CASE Restart
  <2>1. Torn' = Torn /\ run' = run + 1 /\ OpenNow = 1 /\ OpenNow' = 0
    BY <1>3 DEF Restart, disk, Torn, OpenNow
  <2> QED
    BY <1>0, <2>1 DEF TornInv
<1>4. CASE ~OpenSample /\ ~WriteText /\ ~WriteSource /\ ~Restart
  <2>1. Quiet
    BY <1>4, StepsOnSamples
  <2>2. OpenNow \in {0, 1} /\ OpenNow' \in {0, 1} /\ (OpenNow = 1 => OpenNow' = 1)
    BY <1>4 DEF OpenNow, Next, BuildDataset, ExtractInject, Inject, Standardise, StartDump, SkipRepeat, NextList,
                EndDump, InjectThrows, Stop, vars
  <2> QED
    BY <1>0, <2>1, <2>2 DEF TornInv, Torn, Quiet
<1> QED
  BY <1>1, <1>2, <1>3, <1>4

\* At most one half-written sample per process that stopped, and the open one.
THEOREM TornBoundHolds == Spec => []TornBound
<1>1. Init => TornInv
  <2> SUFFICES ASSUME Init PROVE TornInv
    OBVIOUS
  <2>1. Torn = {} /\ run = 1 /\ OpenNow = 0
    BY DEF Init, Torn, OpenNow
  <2> QED
    BY <2>1, FS_EmptySet DEF TornInv
<1>2. TornInv => TornBound
  BY DEF TornInv, TornBound, Torn, OpenNow
<1> QED
  BY <1>1, <1>2, NextTornInv, TypeInvHolds, NameInvHolds, OpenInvHolds, PTL DEF Spec

-----------------------------------------------------------------------------
(* Quotas.  For the two injectors that look at the vulnerable quota alone, *)
(* a list is extracted only below it, and only that list is still to come. *)

VulnerableOnly == Kind \in {"UncheckedCall", "Reentrancy"}
SecureFirst == InDump /\ label = "secure"
ToCome ==
    IF stage \in {"extracted", "injected", "standard"} \/ SecureFirst THEN Len(inject_info)
    ELSE IF InDump THEN Len(inject_info) - pos - (IF stage = "dump" THEN 0 ELSE 1)
    ELSE 0

QuotaInv ==
    VulnerableOnly =>
        /\ vulnerable_counter + ToCome < MaxNum + MaxSites \/ (vulnerable_counter = 1 /\ ToCome = 0)
        /\ vulnerable_counter >= MaxNum
             /\ (stage \in {"extracted", "injected", "standard"} \/ SecureFirst) => Len(secure_info) = 0

LEMMA NextQuotaInv == TypeInv /\ QuotaInv /\ [Next]_vars => QuotaInv'
<1> SUFFICES ASSUME TypeInv, QuotaInv, [Next]_vars, VulnerableOnly PROVE QuotaInv'
  BY DEF QuotaInv, VulnerableOnly
<1>0. /\ Len(secure_info) \in Nat /\ Len(inject_info) \in Nat /\ pos \in Nat /\ pos <= Len(Current)
      /\ Len(secure_info') = Len(inject_info') /\ Len(secure_info') \in Nat /\ Len(inject_info') <= MaxSites
      /\ Len(inject_info) = Len(secure_info)
      /\ vulnerable_counter \in Nat \ {0} /\ secure_counter \in Nat /\ label \in Labels
      /\ MaxNum \in Nat /\ MaxSites \in Nat
      /\ stage \in {"text", "source"} => pos < Len(Current)
  <2>1. TypeInv'
    BY NextTypeInv
  <2> QED
    BY <2>1, BoundsAssumption, LenProperties DEF TypeInv, TypeOK, Shape
<1>1. CASE ExtractInject
  <2>1. /\ ToCome = 0 /\ ToCome' = Len(inject_info') /\ vulnerable_counter' = vulnerable_counter
        /\ stage' = "extracted"
    BY <1>1 DEF ExtractInject, ToCome, InDump, SecureFirst
  <2>2. CASE vulnerable_counter >= MaxNum
    <3>1. QuotaReached
      BY <2>2 DEF QuotaReached, VulnerableOnly
    <3>2. secure_info' = <<>> /\ inject_info' = <<>>
      BY <1>1, <3>1 DEF ExtractInject
    <3> QED
      BY <1>0, <2>1, <3>2 DEF QuotaInv
  <2>3. CASE vulnerable_counter < MaxNum
    <3>1. ~(vulnerable_counter >= MaxNum)
      BY <1>0, <2>3
    <3>2. vulnerable_counter + Len(inject_info') < MaxNum + MaxSites
      BY <1>0, <2>3
    <3> QED
      BY <2>1, <3>1, <3>2 DEF QuotaInv
  <2> QED
    BY <1>0, <2>2, <2>3
<1>2. CASE Inject
  <2>1. Len(inject_info') = Len(inject_info) /\ Len(secure_info') = Len(secure_info)
    BY <1>0, <1>2, FlowsAreSequences DEF Inject, TypeInv, TypeOK
  <2>2. ToCome' = ToCome
    BY <1>2, <2>1 DEF Inject, ToCome
  <2> QED
    BY <1>2, <2>1, <2>2 DEF Inject, QuotaInv, counters
<1>3. CASE Standardise \/ StartDump
  <2>1. ToCome' = ToCome /\ (stage \in {"extracted", "injected", "standard"} \/ SecureFirst)
    BY <1>3 DEF Standardise, StartDump, Lists, ToCome, SecureFirst, InDump
  <2> QED
    BY <1>3, <2>1 DEF Standardise, StartDump, QuotaInv, counters
<1>4. CASE SkipRepeat
  <2>1. ToCome \in Int /\ ToCome' \in Int /\ ToCome' <= ToCome /\ ToCome' >= 0
    BY <1>0, <1>4 DEF SkipRepeat, ToCome, InDump, SecureFirst, Current, Labels
  <2>2. SecureFirst' = SecureFirst /\ stage = "dump" /\ stage' = "dump"
    BY <1>4 DEF SkipRepeat, SecureFirst, InDump
  <2>3. UNCHANGED <<vulnerable_counter, secure_info>>
    BY <1>4 DEF SkipRepeat
  <2>4. vulnerable_counter + ToCome < MaxNum + MaxSites => vulnerable_counter + ToCome' < MaxNum + MaxSites
    <3>1. vulnerable_counter \in Int /\ MaxNum + MaxSites \in Int
      BY <1>0
    <3>2. \A v, t, u, m \in Int : u <= t /\ v + t < m => v + u < m
      OBVIOUS
    <3> QED
      BY <2>1, <3>1, <3>2
  <2>5. ToCome = 0 => ToCome' = 0
    BY <2>1
  <2> QED
    BY <2>2, <2>3, <2>4, <2>5 DEF QuotaInv
<1>5. CASE OpenSample
  <2>1. CASE label = "secure"
    <3>1. ToCome' = ToCome /\ SecureFirst /\ SecureFirst' /\ UNCHANGED <<vulnerable_counter, secure_info>>
      BY <1>5, <2>1 DEF OpenSample, ToCome, InDump, SecureFirst
    <3> QED
      BY <3>1 DEF QuotaInv
  <2>2. CASE label = "vulnerable"
    <3>1. /\ stage = "dump" /\ stage' = "text" /\ ~SecureFirst /\ ~SecureFirst' /\ pos < Len(inject_info)
          /\ vulnerable_counter' = vulnerable_counter + 1 /\ UNCHANGED <<inject_info, pos, label>>
      BY <1>5, <2>2 DEF OpenSample, SecureFirst, Current
    <3>2. ToCome = Len(inject_info) - pos /\ ToCome' = Len(inject_info) - pos - 1
      BY <1>0, <3>1 DEF ToCome, InDump
    <3>3. vulnerable_counter + ToCome < MaxNum + MaxSites
      BY <1>0, <3>1, <3>2 DEF QuotaInv
    <3>4. vulnerable_counter' + ToCome' = vulnerable_counter + ToCome
      BY <1>0, <3>1, <3>2
    <3> QED
      BY <3>1, <3>3, <3>4 DEF QuotaInv
  <2> QED
    BY <1>0, <2>1, <2>2 DEF Labels
<1>6. CASE WriteText \/ WriteSource
  <2>1. ToCome' = ToCome /\ SecureFirst' = SecureFirst /\ stage' \in {"source", "dump"}
    BY <1>0, <1>6 DEF WriteText, WriteSource, dumping, ToCome, InDump, SecureFirst
  <2>2. stage \notin {"extracted", "injected", "standard"} /\ UNCHANGED <<vulnerable_counter, secure_info>>
    BY <1>6 DEF WriteText, WriteSource, counters
  <2> QED
    BY <2>1, <2>2 DEF QuotaInv
<1>7. CASE NextList
  <2>1. ToCome' = ToCome /\ ~SecureFirst' /\ stage' = "dump" /\ vulnerable_counter' = vulnerable_counter
    BY <1>0, <1>7 DEF NextList, Lists, counters, ToCome, InDump, SecureFirst
  <2> QED
    BY <2>1 DEF QuotaInv
<1>8. CASE EndDump \/ InjectThrows \/ Stop
  <2>1. ToCome' = 0 /\ ToCome \in Nat /\ stage' \in {"idle", "down"} /\ ~SecureFirst'
        /\ vulnerable_counter' = vulnerable_counter
    BY <1>0, <1>8 DEF EndDump, InjectThrows, Stop, counters, ToCome, InDump, SecureFirst, Current, Labels
  <2> QED
    BY <1>0, <2>1 DEF QuotaInv
<1>9. CASE Restart
  <2>1. ToCome' = 0 /\ stage' = "idle" /\ ~SecureFirst' /\ vulnerable_counter' = 1
    BY <1>9 DEF Restart, ToCome, InDump, SecureFirst
  <2> QED
    BY <2>1 DEF QuotaInv
<1>10. CASE UNCHANGED vars
  BY <1>10 DEF vars, counters, dumping, QuotaInv, ToCome, InDump, SecureFirst
<1> QED
  BY <1>1, <1>2, <1>3, <1>4, <1>5, <1>6, <1>7, <1>8, <1>9, <1>10 DEF Next, BuildDataset

LEMMA QuotaInvHolds == Spec => []QuotaInv
<1>1. Init => QuotaInv
  BY DEF Init, QuotaInv, ToCome, InDump, SecureFirst
<1> QED
  BY <1>1, NextQuotaInv, TypeInvHolds, PTL DEF Spec

\* UncheckedCall and Reentrancy overshoot the vulnerable quota by less than the
\* sites of one contract.
THEOREM QuotaOvershootHolds == Spec => []QuotaOvershoot
<1>1. TypeInv /\ QuotaInv => QuotaOvershoot
  <2> SUFFICES ASSUME TypeInv, QuotaInv, VulnerableOnly PROVE QuotaOvershoot
    BY DEF QuotaOvershoot, VulnerableOnly
  <2>1. /\ Len(inject_info) \in Nat /\ pos \in Nat /\ pos <= Len(Current) /\ vulnerable_counter \in Nat
        /\ MaxNum \in Nat /\ MaxSites \in Nat /\ (stage \in {"text", "source"} => pos < Len(Current))
        /\ label \in Labels
    BY BoundsAssumption, LenProperties DEF TypeInv, TypeOK, Shape
  <2>2. InDump /\ ~SecureFirst => Current = inject_info
    BY <2>1 DEF SecureFirst, Current
  <2>3. ToCome \in Nat
    BY <2>1, <2>2 DEF ToCome, InDump
  <2>4. vulnerable_counter + ToCome < MaxNum + MaxSites => vulnerable_counter < MaxNum + MaxSites
    BY <2>1, <2>3
  <2> QED
    BY <2>4 DEF QuotaInv, QuotaOvershoot
<1> QED
  BY <1>1, TypeInvHolds, QuotaInvHolds, PTL

\* Once their vulnerable quota is reached these two never add a secure sample
\* again, however short the secure quota is.
THEOREM SecureStarvesHolds == Spec => SecureStarves
<1> DEFINE Starve == (VulnerableOnly /\ vulnerable_counter >= MaxNum /\ run' = run)
                         => secure_counter' = secure_counter
<1>1. TypeInv /\ QuotaInv /\ [Next]_vars => [Starve]_vars
  <2> SUFFICES ASSUME TypeInv, QuotaInv, Next, VulnerableOnly, vulnerable_counter >= MaxNum, run' = run
               PROVE  secure_counter' = secure_counter
    OBVIOUS
  <2>1. CASE OpenSample
    <3>1. label = "vulnerable"
      <4>1. SUFFICES ASSUME label = "secure" PROVE FALSE
        BY DEF TypeInv, TypeOK, Labels
      <4>2. pos < Len(secure_info) /\ pos \in Nat /\ SecureFirst
        BY <2>1, <4>1 DEF OpenSample, Current, SecureFirst, InDump, TypeInv, TypeOK
      <4> QED
        BY <4>2 DEF QuotaInv
    <3> QED
      BY <2>1, <3>1 DEF OpenSample
  <2>2. CASE Restart
    BY <2>2 DEF Restart, TypeInv, TypeOK
  <2>3. CASE UNCHANGED secure_counter
    BY <2>3
  <2> QED
    BY <2>1, <2>2, <2>3
       DEF Next, BuildDataset, ExtractInject, Inject, Standardise, StartDump, SkipRepeat, WriteText, WriteSource,
           NextList, EndDump, InjectThrows, Stop, counters
<1> QED
  BY <1>1, TypeInvHolds, QuotaInvHolds, PTL DEF Spec, SecureStarves, VulnerableOnly

-----------------------------------------------------------------------------
(* Labels of one contract.  While the vulnerable list of a contract is     *)
(* written, every flow of its secure list is already in token_flow_set.    *)

Preparing == stage \in {"extracted", "injected", "standard"}
SecureDone == IF label = "secure" THEN pos + (IF stage = "dump" THEN 0 ELSE 1) ELSE Len(secure_info)

OutrankInv ==
    Running =>
        /\ \A x \in Mine : x.file <= file
        /\ Preparing \/ SecureFirst => \A x \in Mine : x.label = "vulnerable" => x.file # file
        /\ InDump => \A i \in 1..SecureDone : secure_info[i] \in token_flow_set
        /\ \A x \in Mine : x.label = "vulnerable" /\ x.file = file =>
               \A i \in 1..Len(secure_info) : secure_info[i] # x.snippet

LEMMA NextOutrankInv ==
    TypeInv /\ NameInv /\ LabelInv /\ OpenInv /\ OutrankInv /\ [Next]_vars => OutrankInv'
<1> SUFFICES ASSUME TypeInv, NameInv, LabelInv, OpenInv, OutrankInv, [Next]_vars PROVE OutrankInv'
  OBVIOUS
<1>0. /\ Len(secure_info) \in Nat /\ Len(inject_info) \in Nat /\ pos \in Nat /\ pos <= Len(Current)
      /\ label \in Labels /\ file \in Nat /\ \A x \in Mine : x.file \in Nat
      /\ stage \in {"text", "source"} => pos < Len(Current)
  BY LenProperties DEF TypeInv, TypeOK, Shape, Mine, Sample
<1>1. CASE ExtractInject
  <2>1. Mine' = Mine /\ file' = file + 1 /\ Preparing' /\ ~InDump' /\ Running
    BY <1>1 DEF ExtractInject, disk, Mine, Preparing, InDump, Running
  <2>2. \A x \in Mine : x.file < file'
    BY <1>0, <2>1 DEF OutrankInv
  <2> QED
    BY <1>0, <2>1, <2>2 DEF OutrankInv
<1>2. CASE Inject
  <2>1. Mine' = Mine /\ file' = file /\ Preparing /\ Preparing' /\ ~InDump' /\ Running
    BY <1>2 DEF Inject, disk, Mine, Preparing, InDump, Running
  <2> QED
    BY <2>1 DEF OutrankInv
<1>3. CASE Standardise \/ StartDump
  <2>1. /\ Mine' = Mine /\ UNCHANGED <<file, secure_info, token_flow_set>> /\ Preparing /\ Running
        /\ InDump' => 1..SecureDone' = {}
    BY <1>3 DEF Standardise, StartDump, Lists, disk, Mine, Preparing, InDump, Running, SecureDone
  <2> QED
    BY <2>1 DEF OutrankInv
<1>4. CASE SkipRepeat
  <2>1. /\ Mine' = Mine /\ UNCHANGED <<file, secure_info, token_flow_set, label>> /\ Running /\ InDump /\ InDump'
        /\ ~Preparing' /\ SecureFirst' = SecureFirst /\ pos' = pos + 1 /\ stage = "dump" /\ stage' = "dump"
    BY <1>4 DEF SkipRepeat, disk, Mine, Preparing, InDump, Running, SecureFirst
  <2>2. label = "secure" => secure_info[pos + 1] \in token_flow_set
    BY <1>4 DEF SkipRepeat, Repeated, Current
  <2>3. \A i \in 1..SecureDone' : i \in 1..SecureDone \/ (label = "secure" /\ i = pos + 1)
    BY <1>0, <2>1 DEF SecureDone
  <2>4. \A i \in 1..SecureDone' : secure_info'[i] \in token_flow_set'
    BY <2>1, <2>2, <2>3 DEF OutrankInv
  <2> QED
    BY <2>1, <2>4 DEF OutrankInv
<1>5. CASE OpenSample
  <2>1. PICK new : new = NewSample
    OBVIOUS
  <2>2. samples' = samples \cup {new} /\ run' = run
    BY <1>5, <2>1, OpenAdds DEF OpenSample
  <2>3. new.run = run /\ new.label = label /\ new.file = file /\ new.snippet = Current[pos + 1]
    BY <2>1 DEF NewSample
  <2>4. Mine' = Mine \cup {new}
    BY <2>2, <2>3 DEF Mine
  <2>5. /\ UNCHANGED <<file, secure_info, inject_info, label, pos>> /\ Running /\ InDump /\ InDump' /\ ~Preparing'
        /\ SecureFirst' = SecureFirst /\ stage = "dump" /\ stage' = "text"
        /\ token_flow_set' = token_flow_set \cup {new.snippet} /\ new.snippet \notin token_flow_set
    BY <1>5, <2>3 DEF OpenSample, Repeated, InDump, Running, SecureFirst, Preparing
  <2>6. \A i \in 1..SecureDone' : i \in 1..SecureDone \/ (label = "secure" /\ i = pos + 1)
    BY <1>0, <2>5 DEF SecureDone
  <2>7. label = "secure" => new.snippet = secure_info[pos + 1]
    BY <2>3 DEF Current
  <2>8. \A i \in 1..SecureDone' : secure_info'[i] \in token_flow_set'
    BY <2>5, <2>6, <2>7 DEF OutrankInv
  <2>9. label = "vulnerable" => \A i \in 1..Len(secure_info) : secure_info[i] # new.snippet
    BY <1>0, <2>5 DEF OutrankInv, SecureDone
  <2>10. SecureFirst => label # "vulnerable"
    BY DEF SecureFirst
  <2> QED
    BY <1>0, <2>3, <2>4, <2>5, <2>8, <2>9, <2>10 DEF OutrankInv
<1>6. CASE WriteText \/ WriteSource
  <2>1. PICK x, y : /\ x \in Mine /\ samples' = (samples \ {x}) \cup {y}
                    /\ y.run = x.run /\ y.label = x.label /\ y.snippet = x.snippet /\ y.file = x.file
    <3>1. PICK W \in [samples -> Sample] : /\ samples' = {W[x] : x \in samples}
                                           /\ \A x \in samples : Written(x, W[x])
      BY <1>6, WriteUpdates
    <3>2. PICK x \in Mine : IsOpen(x)
      BY <1>6 DEF WriteText, WriteSource, OpenInv
    <3>3. \A z \in samples : IsOpen(z) => z = x
      BY <3>2 DEF IsOpen, NameInv, Mine
    <3>4. \A z \in samples \ {x} : W[z] = z
      BY <3>1, <3>3 DEF Written
    <3>5. x \in samples
      BY DEF Mine
    <3>6. samples' = (samples \ {x}) \cup {W[x]}
      BY <3>1, <3>4, <3>5
    <3> QED
      BY <3>1, <3>5, <3>6 DEF Written
  <2>2. /\ UNCHANGED <<run, file, secure_info, token_flow_set, label>> /\ Running /\ InDump /\ InDump' /\ ~Preparing'
        /\ SecureFirst' = SecureFirst /\ SecureDone' = SecureDone
    BY <1>0, <1>6 DEF WriteText, WriteSource, dumping, InDump, Running, SecureFirst, Preparing, SecureDone
  <2>3. Mine' = (Mine \ {x}) \cup {y}
    BY <2>1, <2>2 DEF Mine
  <2> QED
    BY <2>1, <2>2, <2>3 DEF OutrankInv
<1>7. CASE NextList
  <2>1. /\ Mine' = Mine /\ UNCHANGED <<file, secure_info, token_flow_set>> /\ Running /\ InDump /\ ~Preparing'
        /\ ~SecureFirst' /\ SecureDone = Len(secure_info) /\ SecureDone' = Len(secure_info)
    BY <1>0, <1>7 DEF NextList, Lists, disk, Mine, InDump, Running, SecureFirst, Preparing, SecureDone, Current
  <2> QED
    BY <2>1 DEF OutrankInv
<1>8. CASE EndDump
  <2>1. Mine' = Mine /\ UNCHANGED <<file, secure_info, token_flow_set>> /\ Running /\ ~InDump' /\ ~Preparing' /\ ~SecureFirst'
    BY <1>8 DEF EndDump, disk, Mine, InDump, Running, SecureFirst, Preparing
  <2> QED
    BY <2>1 DEF OutrankInv
<1>9. CASE InjectThrows \/ Stop
  BY <1>9 DEF InjectThrows, Stop, OutrankInv, Running
<1>10. CASE Restart
  <2>1. Mine' = {} /\ ~InDump'
    BY <1>10 DEF Restart, disk, Mine, InDump, LabelInv, TypeInv, TypeOK, Sample
  <2> QED
    BY <2>1 DEF OutrankInv
<1>11. CASE UNCHANGED vars
  BY <1>11 DEF vars, dumping, disk, OutrankInv, Running, Preparing, SecureFirst, InDump, SecureDone, Mine
<1> QED
  BY <1>1, <1>2, <1>3, <1>4, <1>5, <1>6, <1>7, <1>8, <1>9, <1>10, <1>11 DEF Next, BuildDataset

\* No flow of a contract's secure list is a vulnerable sample of that contract.
THEOREM SecureOutranksHolds == Spec => []SecureOutranks
<1>1. Init => OutrankInv
  BY DEF Init, OutrankInv, Mine, InDump
<1>2. OutrankInv => SecureOutranks
  BY DEF OutrankInv, SecureOutranks, Running
<1> QED
  BY <1>1, <1>2, NextOutrankInv, TypeInvHolds, NameInvHolds, LabelInvHolds, OpenInvHolds, PTL DEF Spec

-----------------------------------------------------------------------------
(* The injector implements the labelled store: opening a pair assigns the  *)
(* label, writing its second file publishes it, a restart begins a session *)
(* and every other step leaves the store as it is.                         *)

LabelMap == [s \in Snippets |-> LabelOf(s)]

\* With one label per flow the CHOOSE in LabelOf has one candidate.
LEMMA LabelOfSample ==
    ASSUME OneLabelPerFlow, NEW x \in Mine
    PROVE  LabelOf(x.snippet) = x.label
BY DEF LabelOf, OneLabelPerFlow

LEMMA RestartStore == LabelInv /\ TypeInv /\ Restart => Store!NewSession
<1> SUFFICES ASSUME LabelInv, TypeInv, Restart PROVE Store!NewSession
  OBVIOUS
<1>1. Mine' = {}
  <2>1. samples' = samples /\ run' = run + 1 /\ run \in Int
    BY DEF Restart, disk, TypeInv, TypeOK
  <2>2. \A x \in samples : x.run \in Int /\ x.run <= run
    BY DEF LabelInv, TypeInv, TypeOK, Sample
  <2> QED
    BY <2>1, <2>2 DEF Mine
<1>2. LabelMap' = [s \in Snippets |-> "none"]
  BY <1>1 DEF LabelMap, LabelOf
<1>3. Published' = Published /\ run' = run + 1
  BY DEF Restart, disk, Published
<1> QED
  BY <1>2, <1>3 DEF Store!NewSession, Store!Unlabelled, LabelMap

LEMMA OpenStore == TypeInv /\ NameInv /\ LabelInv /\ OpenSample => Store!Next
<1> SUFFICES ASSUME TypeInv, NameInv, LabelInv, OpenSample PROVE Store!Next
  OBVIOUS
<1>1. PICK new : new = NewSample
  OBVIOUS
<1>2. /\ samples' = samples \cup {new} /\ run' = run
      /\ new.run = run /\ new.label = label /\ new.snippet = Current[pos + 1] /\ ~Whole(new)
  <2>1. samples' = samples \cup {new} /\ run' = run
    BY <1>1, OpenAdds DEF OpenSample
  <2> QED
    BY <1>1, <2>1 DEF NewSample, Whole
<1>3. Mine' = Mine \cup {new}
  BY <1>2 DEF Mine
<1>4. new.snippet \in Snippets /\ new.label \in Labels
  BY <1>2 DEF TypeInv, TypeOK, Current, OpenSample
<1>5. \A x \in Mine : x.snippet # new.snippet
  BY <1>2 DEF OpenSample, Repeated, LabelInv
<1>6. LabelOf(new.snippet) = "none"
  BY <1>5 DEF LabelOf
<1>7. \A s \in Snippets : LabelOf(s)' = IF s = new.snippet THEN new.label ELSE LabelOf(s)
  <2> SUFFICES ASSUME NEW s \in Snippets
               PROVE  LabelOf(s)' = IF s = new.snippet THEN new.label ELSE LabelOf(s)
    OBVIOUS
  <2>1. LabelOf(s)' = IF \E x \in Mine' : x.snippet = s THEN (CHOOSE x \in Mine' : x.snippet = s).label ELSE "none"
    BY DEF LabelOf
  <2>2. CASE s = new.snippet
    <3>1. \A x \in Mine' : x.snippet = s <=> x = new
      BY <1>3, <1>5, <2>2
    <3> QED
      BY <1>3, <2>1, <2>2, <3>1
  <2>3. CASE s # new.snippet
    <3>1. \A x : (x \in Mine' /\ x.snippet = s) <=> (x \in Mine /\ x.snippet = s)
      BY <1>3, <2>3
    <3>2. (CHOOSE x \in Mine' : x.snippet = s) = (CHOOSE x \in Mine : x.snippet = s)
      BY <3>1
    <3> QED
      BY <2>1, <2>3, <3>1, <3>2 DEF LabelOf
  <2> QED
    BY <2>2, <2>3
<1>8. LabelMap' = [LabelMap EXCEPT ![new.snippet] = new.label]
  BY <1>4, <1>7 DEF LabelMap
<1>9. Published' = Published
  BY <1>2 DEF Published
<1>10. Store!Assign(new.snippet, new.label)
  BY <1>2, <1>4, <1>6, <1>8, <1>9 DEF Store!Assign, LabelMap
<1> QED
  BY <1>4, <1>10 DEF Store!Next, Labels

LEMMA WriteStore ==
    TypeInv /\ NameInv /\ LabelInv /\ OpenInv /\ (WriteText \/ WriteSource) => Store!Next \/ UNCHANGED Store!storeVars
<1> SUFFICES ASSUME TypeInv, NameInv, LabelInv, OpenInv, WriteText \/ WriteSource
             PROVE  Store!Next \/ UNCHANGED Store!storeVars
  OBVIOUS
<1>1. PICK x, y : /\ x \in Mine /\ samples' = (samples \ {x}) \cup {y} /\ y \notin samples \ {x}
                  /\ y.run = x.run /\ y.label = x.label /\ y.snippet = x.snippet
                  /\ ~Whole(x) /\ (Whole(y) <=> WriteSource)
  BY WriteSwaps
<1>2. run' = run /\ x \in samples /\ x.run = run /\ x.snippet \in Snippets /\ OneLabelPerFlow
  BY <1>1 DEF WriteText, WriteSource, Mine, TypeInv, TypeOK, Sample, LabelInv
<1>3. Mine' = (Mine \ {x}) \cup {y}
  BY <1>1, <1>2 DEF Mine
<1>4. OneLabelPerFlow'
  <2>1. Next
    BY DEF Next, BuildDataset
  <2> QED
    BY <2>1, NextLabelInv DEF LabelInv
<1>5. \A s \in Snippets : LabelOf(s)' = LabelOf(s)
  <2> SUFFICES ASSUME NEW s \in Snippets PROVE LabelOf(s)' = LabelOf(s)
    OBVIOUS
  <2>1. CASE \E z \in Mine : z.snippet = s
    <3>1. PICK z \in Mine : z.snippet = s
      BY <2>1
    <3>2. PICK w \in Mine' : w.snippet = s /\ w.label = z.label
      BY <1>1, <1>3, <3>1
    <3>3. LabelOf(s) = z.label
      BY <1>2, <3>1, LabelOfSample
    <3>4. (CHOOSE v \in Mine' : v.snippet = s) = w
      BY <1>4, <3>2 DEF OneLabelPerFlow
    <3> QED
      BY <3>2, <3>3, <3>4 DEF LabelOf
  <2>2. CASE ~\E z \in Mine : z.snippet = s
    <3>1. ~\E z \in Mine' : z.snippet = s
      BY <1>1, <1>3, <2>2
    <3> QED
      BY <2>2, <3>1 DEF LabelOf
  <2> QED
    BY <2>1, <2>2
<1>6. LabelMap' = LabelMap
  BY <1>5 DEF LabelMap
<1>7. CASE WriteText
  <2>1. ~WriteSource
    BY <1>7 DEF WriteText, WriteSource
  <2>2. {z \in samples' : Whole(z)} = {z \in samples : Whole(z)}
    BY <1>1, <2>1
  <2>3. Published' = Published
    BY <2>2 DEF Published, Whole
  <2> QED
    BY <1>2, <1>6, <2>3 DEF Store!storeVars, LabelMap
<1>8. CASE WriteSource
  <2>1. {z \in samples' : Whole(z)} = {z \in samples : Whole(z)} \cup {y}
    BY <1>1, <1>8
  <2>2. Published' = Published \cup {<<run, x.label, x.snippet>>}
    BY <1>1, <1>2, <2>1 DEF Published, Whole
  <2>3. <<run, x.label, x.snippet>> \notin Published
    <3> SUFFICES ASSUME NEW z \in samples, Whole(z), <<run, x.label, x.snippet>> = <<z.run, z.label, z.snippet>>
                 PROVE  FALSE
      BY DEF Published
    <3>1. z \in Mine /\ z.snippet = x.snippet
      BY DEF Mine
    <3>2. z = x
      BY <1>1, <1>2, <3>1 DEF OneLabelPerFlow
    <3> QED
      BY <1>1, <3>2
  <2>4. LabelOf(x.snippet) = x.label /\ x.label # "none"
    <3>1. x.label \in Labels
      BY <1>2 DEF TypeInv, TypeOK, Sample
    <3> QED
      BY <1>1, <1>2, <3>1, LabelOfSample DEF Labels
  <2>5. Store!Publish(x.snippet)
    BY <1>2, <1>6, <2>2, <2>3, <2>4 DEF Store!Publish, LabelMap
  <2> QED
    BY <1>2, <2>5 DEF Store!Next
<1> QED
  BY <1>7, <1>8

\* Every behaviour of the injector, with its crashes and restarts, is one of the
\* labelled store.
THEOREM StoreRefinement == Spec => StoreSpec
<1>1. Init => Store!Init
  <2> SUFFICES ASSUME Init PROVE Store!Init
    OBVIOUS
  <2>1. samples = {} /\ run = 1
    BY DEF Init
  <2>2. Published = {} /\ \A s \in Snippets : LabelOf(s) = "none"
    BY <2>1 DEF Published, LabelOf, Mine
  <2> QED
    BY <2>1, <2>2 DEF Store!Init, Store!Unlabelled
<1>2. TypeInv /\ NameInv /\ LabelInv /\ OpenInv /\ [Next]_vars => [Store!Next]_Store!storeVars
  <2> SUFFICES ASSUME TypeInv, NameInv, LabelInv, OpenInv, [Next]_vars
               PROVE  Store!Next \/ UNCHANGED Store!storeVars
    OBVIOUS
  <2>1. CASE OpenSample
    BY <2>1, OpenStore
  <2>2. CASE WriteText \/ WriteSource
    BY <2>2, WriteStore
  <2>3. CASE Restart
    BY <2>3, RestartStore DEF Store!Next
  <2>4. CASE Quiet
    <3>1. samples' = samples /\ run' = run
      BY <2>4 DEF Quiet
    <3>2. Mine' = Mine /\ Published' = Published
      BY <3>1 DEF Mine, Published
    <3>3. \A s \in Snippets : LabelOf(s)' = LabelOf(s)
      BY <3>2 DEF LabelOf
    <3> QED
      BY <3>1, <3>2, <3>3 DEF Store!storeVars
  <2> QED
    BY <2>1, <2>2, <2>3, <2>4, StepsOnSamples
<1> QED
  BY <1>1, <1>2, TypeInvHolds, NameInvHolds, LabelInvHolds, OpenInvHolds, PTL DEF Spec, StoreSpec, Store!Spec

-----------------------------------------------------------------------------
(* The manager's view: within a process the counters only grow.            *)

Finished == IF Finish THEN {Kind} ELSE {}
Fresh == IF MaxNum <= 1 THEN {Kind} ELSE {}

LEMMA CountersGrow ==
    ASSUME TypeInv, [Next]_vars, ~Restart
    PROVE  vulnerable_counter' >= vulnerable_counter /\ secure_counter' >= secure_counter
BY DEF TypeInv, TypeOK, Next, BuildDataset, ExtractInject, Inject, Standardise, StartDump, SkipRepeat, OpenSample,
       WriteText, WriteSource, NextList, EndDump, InjectThrows, Stop, vars, counters

LEMMA FinishStays == TypeInv /\ [Next]_vars /\ ~Restart /\ Finish => Finish'
<1> SUFFICES ASSUME TypeInv, [Next]_vars, ~Restart, Finish PROVE Finish'
  OBVIOUS
<1>1. vulnerable_counter' >= vulnerable_counter /\ secure_counter' >= secure_counter
  BY CountersGrow
<1>2. vulnerable_counter \in Nat /\ secure_counter \in Nat /\ MaxNum \in Nat
  BY BoundsAssumption DEF TypeInv, TypeOK
<1>3. vulnerable_counter' \in Nat /\ secure_counter' \in Nat
  BY NextTypeInv DEF TypeInv, TypeOK
<1> QED
  BY <1>1, <1>2, <1>3 DEF Finish

\* The injector implements the pool of one: Finish is never taken back while
\* the process is up.
THEOREM ManagerViewHolds == Spec => ManagerView
<1>1. Init => View!Init
  <2> SUFFICES ASSUME Init PROVE View!Init
    OBVIOUS
  <2>1. Finished = Fresh
    BY BoundsAssumption DEF Init, Finish, Finished, Fresh
  <2>2. Running \in BOOLEAN
    BY DEF Running
  <2> QED
    BY <2>1, <2>2 DEF View!Init, Finished, Fresh
<1>2. TypeInv /\ [Next]_vars => [View!Next]_View!poolVars
  <2> SUFFICES ASSUME TypeInv, [Next]_vars PROVE View!Next \/ UNCHANGED View!poolVars
    OBVIOUS
  <2>1. CASE Restart
    <3>1. ~Running /\ Running'
      BY <2>1 DEF Restart, Running
    <3>2. Finished' = Fresh
      BY <2>1, BoundsAssumption DEF Restart, Finish, Finished, Fresh
    <3> QED
      BY <3>1, <3>2 DEF View!Next, View!Up, Finished, Fresh
  <2>2. CASE ~Restart /\ UNCHANGED stage
    <3>1. Running' = Running
      BY <2>2 DEF Running
    <3>2. CASE ~Running
      <4>1. UNCHANGED counters
        BY <2>2, <3>2 DEF Next, BuildDataset, ExtractInject, Inject, Standardise, StartDump, SkipRepeat, OpenSample,
                          WriteText, WriteSource, NextList, EndDump, InjectThrows, Stop, vars, Running
      <4>2. Finished' = Finished
        BY <4>1 DEF counters, Finish, Finished
      <4> QED
        BY <3>1, <4>2 DEF View!poolVars, Finished
    <3>3. CASE Running /\ Finished' = Finished
      BY <3>1, <3>3 DEF View!poolVars, Finished
    <3>4. CASE Running /\ Finished' # Finished
      <4>1. Finished = {} /\ Finished' = {Kind}
        BY <2>2, <3>4, FinishStays DEF Finished
      <4>2. View!Finishes(Kind)
        BY <3>1, <3>4, <4>1 DEF View!Finishes, Finished
      <4> QED
        BY <4>2 DEF View!Next
    <3> QED
      BY <3>2, <3>3, <3>4
  <2>3. CASE ~Restart /\ stage' # stage
    <3>1. Running
      BY <2>3 DEF Next, BuildDataset, ExtractInject, Inject, Standardise, StartDump, SkipRepeat, OpenSample,
                  WriteText, WriteSource, NextList, EndDump, InjectThrows, Stop, vars, Running
    <3>2. CASE ~Running'
      <4>1. UNCHANGED counters
        BY <2>3, <3>2 DEF Next, BuildDataset, ExtractInject, Inject, Standardise, StartDump, SkipRepeat, OpenSample,
                          WriteText, WriteSource, NextList, EndDump, InjectThrows, Stop, vars, Running
      <4>2. Finished' = Finished
        BY <4>1 DEF counters, Finish, Finished
      <4>3. View!Down
        BY <3>1, <3>2, <4>2 DEF View!Down, Running, Finished
      <4> QED
        BY <4>3 DEF View!Next
    <3>3. CASE Running' /\ Finished' = Finished
      BY <3>1, <3>3 DEF View!poolVars, Finished, Running
    <3>4. CASE Running' /\ Finished' # Finished
      <4>1. Finished = {} /\ Finished' = {Kind}
        BY <2>3, <3>4, FinishStays DEF Finished
      <4>2. Running' = Running
        BY <3>1, <3>4 DEF Running
      <4>3. View!Finishes(Kind)
        BY <3>1, <4>1, <4>2 DEF View!Finishes, Finished
      <4> QED
        BY <4>3 DEF View!Next
    <3> QED
      BY <3>2, <3>3, <3>4
  <2> QED
    BY <2>1, <2>2, <2>3
<1> QED
  BY <1>1, <1>2, TypeInvHolds, PTL DEF Spec, ManagerView, View!Spec

=============================================================================
