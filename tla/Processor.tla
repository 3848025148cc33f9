------------------------------ MODULE Processor ------------------------------
(***************************************************************************)
(* One vulnerability injector (src/processor/processor.h and its five      *)
(* subclasses) over the lives of the processes that run it.  The manager   *)
(* calls BuildDataset once per contract; the call extracts the injection   *)
(* sites, injects a bug at each, reduces every function to a token flow    *)
(* and writes the flows it has not seen yet, the secure ones first, below  *)
(* <dst>/<injector>/secure and /vulnerable.  The samples survive the       *)
(* process; the counters and the set of flows already written do not.      *)
(*                                                                         *)
(* Data.  A FuncInfo is abstracted to the token flow its code ends in: two *)
(* functions with equal flows are one value of Snippets.  Extraction pairs *)
(* every inject_info entry with a secure_info entry of the same code, so *)
(* the two sequences start equal and Inject picks what the injected code   *)
(* of each site reduces to, which may be the flow it had.                  *)
(***************************************************************************)
EXTENDS Integers, Sequences, FiniteSets

CONSTANTS
    Kind,      \* which injector this is, one of Kinds
    Snippets,  \* the token flows
    MaxNum,    \* max_gen_num_ and max_secure_num_: the n of Processor(n)
    MaxSites,  \* bound: injection sites of one contract
    MaxFiles,  \* bound: contracts handed to the injector by the first process
    MaxLaterFiles, \* bound: contracts handed to it by each later one
    MaxRuns    \* bound: processes started over the same dataset directory

Kinds == {"IntOverflow", "AccessControl", "UncheckedCall", "DoS", "Reentrancy"}

ASSUME KindAssumption == Kind \in Kinds
ASSUME BoundsAssumption ==
    /\ MaxNum \in Nat
    /\ MaxSites \in Nat
    /\ MaxFiles \in Nat
    /\ MaxLaterFiles \in 0..MaxFiles
    /\ MaxRuns \in Nat \ {0}

VARIABLES
    stage,               \* where BuildDataset is
    secure_info,        \* flows of the extracted functions
    inject_info,        \* flows of the same functions with the bug injected
    gen_num, secure_num, repeat_snippet,
    vulnerable_counter, secure_counter,
    token_flow_set,     \* flows written by this process
    label, pos, k,       \* DumpCodeSnippets: list, entries done, entries written
    stamp, clock,        \* dst_file_name and the system clock it is read from
    samples,             \* the sample files on disk
    file, run            \* contracts begun by this process; its number

counters == <<gen_num, secure_num, repeat_snippet, vulnerable_counter, secure_counter>>
dumping  == <<label, pos, k, stamp>>
disk     == <<clock, samples>>
vars     == <<stage, secure_info, inject_info, counters, token_flow_set, dumping, disk, file, run>>

Labels == {"secure", "vulnerable"}
Stages == {"idle", "extracted", "injected", "standard", "dump", "text", "source", "down"}
Running == stage # "down"

Flows == UNION {[1..n -> Snippets] : n \in 0..MaxSites}

\* A sample is the pair of files label/stamp_k.txt and label_source/stamp_k.txt.
Sample == [run : 1..MaxRuns, label : Labels, stamp : Nat, k : Nat, snippet : Snippets,
           file : 1..MaxFiles, text : BOOLEAN, source : BOOLEAN]
Path(x) == <<x.label, x.stamp, x.k>>
Whole(x) == x.text /\ x.source

FinishMutant == vulnerable_counter = MaxNum /\ secure_counter = MaxNum
Finish == vulnerable_counter >= MaxNum /\ secure_counter >= MaxNum

\* The early return of ExtractInject and, for Reentrancy, the break that leaves
\* Extract's loop before its first site.
QuotaReachedMutant == Finish
QuotaPassedMutant == \* > for >=
    \/ Finish
    \/ Kind \in {"UncheckedCall", "Reentrancy"} /\ vulnerable_counter > MaxNum
QuotaReached ==
    \/ Finish
    \/ Kind \in {"UncheckedCall", "Reentrancy"} /\ vulnerable_counter >= MaxNum

-----------------------------------------------------------------------------

\* The constructors, and the members they leave at their defaults.
Init ==
    /\ stage = "idle"
    /\ secure_info = <<>> /\ inject_info = <<>>
    /\ gen_num = 0 /\ secure_num = 0 /\ repeat_snippet = 0
    /\ vulnerable_counter = 1 /\ secure_counter = 1
    /\ token_flow_set = {}
    /\ label = "secure" /\ pos = 0 /\ k = 0 /\ stamp = 0
    /\ file = 0
    /\ clock = 1 /\ samples = {} /\ run = 1

FilesOfRun == IF run = 1 THEN MaxFiles ELSE MaxLaterFiles

\* Processor::Init and ExtractInject: the manager calls BuildDataset on the
\* next contract unless the injector has finished.
ExtractInject ==
    /\ stage = "idle" /\ ~Finish /\ file < FilesOfRun
    /\ file' = file + 1
    /\ stage' = "extracted"
    /\ \E found \in IF QuotaReached THEN {<<>>} ELSE Flows :
        /\ secure_info' = found
        /\ inject_info' = found
        /\ gen_num' = gen_num + Len(found)
        /\ secure_num' = secure_num + Len(found)
    /\ UNCHANGED <<repeat_snippet, vulnerable_counter, secure_counter, token_flow_set, dumping, disk, run>>

\* Inject rewrites the code of every inject_info entry; AccessControl also
\* prepends a modifier to the secure ones.
InjectMutant == \* an entry whose line is not found is dropped
    /\ stage = "extracted"
    /\ stage' = "injected"
    /\ inject_info' \in UNION {[1..n -> Snippets] : n \in 0..Len(inject_info)}
    /\ UNCHANGED <<secure_info, counters, token_flow_set, dumping, disk, file, run>>
Inject ==
    /\ stage = "extracted"
    /\ stage' = "injected"
    /\ inject_info' \in [1..Len(inject_info) -> Snippets]
    /\ IF Kind = "AccessControl"
         THEN secure_info' \in [1..Len(secure_info) -> Snippets]
         ELSE UNCHANGED secure_info
    /\ UNCHANGED <<counters, token_flow_set, dumping, disk, file, run>>

\* ExpandFuncNode, Eliminate and GenCodeSnippets compute the token flow of each
\* entry from its code, in place; the flows already stand for their result.
Standardise ==
    /\ stage = "injected"
    /\ stage' = "standard"
    /\ UNCHANGED <<secure_info, inject_info, counters, token_flow_set, dumping, disk, file, run>>

-----------------------------------------------------------------------------
(* DumpCodeSnippets *)

\* The order of the two calls of dump_code_snippet.
ListsMutant == <<"vulnerable", "secure">>
Lists == <<"secure", "vulnerable">>
Current == IF label = "secure" THEN secure_info ELSE inject_info

\* GetTimeForFileName: local time to the microsecond.
GetTimeForFileNameMutant == clock \div 1000 \* to the second
GetTimeForFileName == clock

RepeatedMutant(s) == \E x \in samples : x.run = run /\ x.label = label /\ x.snippet = s \* one set per label
Repeated(s) == s \in token_flow_set

StartDump ==
    /\ stage = "standard"
    /\ stage' = "dump"
    /\ stamp' = GetTimeForFileName
    /\ label' = Lists[1] /\ pos' = 0 /\ k' = 0
    /\ UNCHANGED <<secure_info, inject_info, counters, token_flow_set, disk, file, run>>

SkipRepeat ==
    /\ stage = "dump" /\ pos < Len(Current)
    /\ Repeated(Current[pos + 1])
    /\ repeat_snippet' = repeat_snippet + 1
    /\ pos' = pos + 1
    /\ UNCHANGED <<stage, secure_info, inject_info, gen_num, secure_num, vulnerable_counter,
                   secure_counter, token_flow_set, label, k, stamp, disk, file, run>>

\* The file pair opened for the next entry; an existing pair is truncated.
NewSample == [run |-> run, label |-> label, stamp |-> stamp, k |-> k + 1, snippet |-> Current[pos + 1],
              file |-> file, text |-> FALSE, source |-> FALSE]

\* Both streams are opened and the label's counter bumped.  Creating files takes
\* longer than the microsecond GetTimeForFileName resolves.
OpenSample ==
    /\ stage = "dump" /\ pos < Len(Current)
    /\ ~Repeated(Current[pos + 1])
    /\ token_flow_set' = token_flow_set \cup {Current[pos + 1]}
    /\ k' = k + 1
    /\ samples' = {x \in samples : Path(x) # Path(NewSample)} \cup {NewSample}
    /\ clock' = clock + 1
    /\ IF label = "vulnerable"
         THEN vulnerable_counter' = vulnerable_counter + 1 /\ UNCHANGED secure_counter
         ELSE secure_counter' = secure_counter + 1 /\ UNCHANGED vulnerable_counter
    /\ stage' = "text"
    /\ UNCHANGED <<secure_info, inject_info, gen_num, secure_num, repeat_snippet, label, pos, stamp, file, run>>

IsOpen(x) == Path(x) = <<label, stamp, k>>

WriteText ==
    /\ stage = "text"
    /\ samples' = {IF IsOpen(x) THEN [x EXCEPT !.text = TRUE] ELSE x : x \in samples}
    /\ stage' = "source"
    /\ UNCHANGED <<secure_info, inject_info, counters, token_flow_set, dumping, clock, file, run>>

WriteSourceMutant == \* the stream is left to be flushed at exit
    /\ stage = "source"
    /\ stage' = "dump"
    /\ pos' = pos + 1
    /\ UNCHANGED <<secure_info, inject_info, counters, token_flow_set, label, k, stamp, disk, file, run>>
WriteSource ==
    /\ stage = "source"
    /\ samples' = {IF IsOpen(x) THEN [x EXCEPT !.source = TRUE] ELSE x : x \in samples}
    /\ stage' = "dump"
    /\ pos' = pos + 1
    /\ UNCHANGED <<secure_info, inject_info, counters, token_flow_set, label, k, stamp, clock, file, run>>

NextList ==
    /\ stage = "dump" /\ label = Lists[1] /\ pos = Len(Current)
    /\ label' = Lists[2] /\ pos' = 0 /\ k' = 0
    /\ UNCHANGED <<stage, secure_info, inject_info, counters, token_flow_set, stamp, disk, file, run>>

EndDump ==
    /\ stage = "dump" /\ label = Lists[2] /\ pos = Len(Current)
    /\ stage' = "idle"
    /\ label' = Lists[1] /\ pos' = 0 /\ k' = 0 /\ stamp' = 0
    /\ UNCHANGED <<secure_info, inject_info, counters, token_flow_set, disk, file, run>>

-----------------------------------------------------------------------------

\* Inject's string surgery can throw std::out_of_range (a second edit of a line
\* the first one removed, a call that holds the '@' separator) or read past a
\* one-element vector (AccessControl); nothing catches it.
InjectThrows ==
    /\ stage = "extracted"
    /\ Kind \in {"AccessControl", "UncheckedCall", "Reentrancy"}
    /\ inject_info # <<>>
    /\ stage' = "down"
    /\ UNCHANGED <<secure_info, inject_info, counters, token_flow_set, dumping, disk, file, run>>

\* The process is killed, or returns from main between two contracts.
Stop ==
    /\ Running
    /\ stage' = "down"
    /\ UNCHANGED <<secure_info, inject_info, counters, token_flow_set, dumping, disk, file, run>>

\* The tool is started again: the constructors run, the dataset directory is
\* not emptied.
Restart ==
    /\ stage = "down" /\ run < MaxRuns
    /\ stage' = "idle"
    /\ secure_info' = <<>> /\ inject_info' = <<>>
    /\ gen_num' = 0 /\ secure_num' = 0 /\ repeat_snippet' = 0
    /\ vulnerable_counter' = 1 /\ secure_counter' = 1
    /\ token_flow_set' = {}
    /\ label' = "secure" /\ pos' = 0 /\ k' = 0 /\ stamp' = 0
    /\ file' = 0
    /\ run' = run + 1
    /\ UNCHANGED disk

BuildDataset ==
    \/ Inject \/ Standardise \/ StartDump \/ SkipRepeat \/ OpenSample
    \/ WriteText \/ WriteSource \/ NextList \/ EndDump

Next == ExtractInject \/ BuildDataset \/ InjectThrows \/ Stop \/ Restart

Spec == Init /\ [][Next]_vars

-----------------------------------------------------------------------------
(* Properties *)

Mine == {x \in samples : x.run = run}

TypeOK ==
    /\ stage \in Stages
    /\ secure_info \in Seq(Snippets) /\ inject_info \in Seq(Snippets)
    /\ Len(inject_info) = Len(secure_info) /\ Len(inject_info) <= MaxSites
    /\ gen_num \in Nat /\ secure_num \in Nat /\ repeat_snippet \in Nat
    /\ vulnerable_counter \in Nat \ {0} /\ secure_counter \in Nat \ {0}
    /\ token_flow_set \subseteq Snippets
    /\ label \in Labels /\ pos \in 0..Len(Current) /\ k \in Nat
    /\ stamp \in Nat /\ clock \in Nat
    /\ samples \subseteq Sample
    /\ file \in 0..MaxFiles /\ run \in 1..MaxRuns

\* Between two contracts the printed table adds up: every function extracted,
\* secure or injected, is either a sample of this process or a repeat
\* (the Inject, Secure and Repeat columns of PrintStatus against the counters).
Conservation ==
    stage = "idle" =>
        gen_num + secure_num = (vulnerable_counter - 1) + (secure_counter - 1) + repeat_snippet

\* One process writes a token flow at most once, under one label, whatever the
\* mix of contracts that produce it (token_flow_set is shared by both lists).
OneLabelPerFlow == \A x, y \in Mine : x.snippet = y.snippet => x = y

\* The counters that drive Finish agree with the directories: no file of this
\* process was written over by a later dump, whatever stamps and k they used.
CountersMatchDisk ==
    /\ Cardinality({x \in Mine : x.label = "vulnerable"}) = vulnerable_counter - 1
    /\ Cardinality({x \in Mine : x.label = "secure"}) = secure_counter - 1

\* Once a contract is dumped, none of its unmodified functions is on disk as a
\* vulnerable sample of that same contract: the secure list is written first,
\* so an injection that left the flow as it was is dropped as a repeat.
SecureOutranks ==
    stage = "idle" => \A x \in Mine : x.label = "vulnerable" /\ x.file = file =>
                          \A i \in 1..Len(secure_info) : secure_info[i] # x.snippet

\* Half-written samples are only left by processes that stopped, one each.
TornBound ==
    Cardinality({x \in samples : ~Whole(x)})
        <= (run - 1) + (IF stage \in {"text", "source", "down"} THEN 1 ELSE 0)

\* A complete sample is never changed, removed or truncated, by this process or
\* by one started later over the same directory.
SamplesKept == [][\A x \in samples : Whole(x) => x \in samples']_vars

\* UncheckedCall and Reentrancy stop extracting when the vulnerable quota alone
\* is reached: from then on the process adds no secure sample, so when the
\* secure quota is short Finish stays false for every contract left.
SecureStarves ==
    [][(Kind \in {"UncheckedCall", "Reentrancy"} /\ vulnerable_counter >= MaxNum /\ run' = run)
         => secure_counter' = secure_counter]_vars

\* The same test bounds how far they pass the quota: the counter starts at 1 and is compared
\* with >=, so one contract less one file may come on top, and no more however many contracts
\* follow while the secure quota is short.
QuotaOvershoot ==
    Kind \in {"UncheckedCall", "Reentrancy"}
        => vulnerable_counter < MaxNum + MaxSites \/ vulnerable_counter = 1

\* The injector implements the labelled store: a label is given when the pair of
\* files is opened and published when both are written.
LabelOf(s) == IF \E x \in Mine : x.snippet = s
                THEN (CHOOSE x \in Mine : x.snippet = s).label ELSE "none"
Published == {<<x.run, x.label, x.snippet>> : x \in {y \in samples : Whole(y)}}

Store == INSTANCE LabelledDataset WITH
    NoLabel <- "none", session <- run, labelOf <- [s \in Snippets |-> LabelOf(s)], published <- Published
StoreSpec == Store!Spec

\* The injector is what the manager takes it for: once Finish holds it holds for
\* the rest of the process, however far the counters overshoot the quota.
View == INSTANCE InjectorPool WITH
    Injectors <- {Kind}, FinishedAtStart <- IF MaxNum <= 1 THEN {Kind} ELSE {},
    up <- Running, finished <- IF Finish THEN {Kind} ELSE {}
ManagerView == View!Spec

=============================================================================
