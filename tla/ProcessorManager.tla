-------------------------- MODULE ProcessorManager ---------------------------
(***************************************************************************)
(* The driver of the tool: main.cpp runs a fixed script of calls of        *)
(* ProcessorManager, one per dataset directory.  PreCompile fills ASTset,  *)
(* a directory of syntax trees kept across processes and keyed by the base *)
(* name of the source; InjectBug(true) reads it and hands each source with *)
(* its tree to every injector that has not finished.  Both leave a script  *)
(* rm_file.sh that the user may run.  Any process may stop at any step.    *)
(*                                                                         *)
(* Data.  A source is a model value with a directory and a base name; a    *)
(* tree is named by the source and the compiler it was made from.  An      *)
(* injector is what the manager sees of it: Finish, Init and BuildDataset. *)
(***************************************************************************)
EXTENDS Naturals, Sequences, FiniteSets, SequencesExt

CONSTANTS
    Sources,       \* the contracts of the datasets
    DirOf,         \* the dataset directory of each
    NameOf,        \* its base name, which another directory may use too
    Compiles,      \* pairs <<source, version>> that solc accepts
    NumInjectors,  \* processors_.size()
    CopyFails,     \* the sources whose cp may fail, its status being ignored
    MaxRuns        \* bound: processes started

Versions == {"4", "5", "6"}
Dirs == {"5", "6", "wild", "tmp"}
Modes == 1..3
Injectors == 1..NumInjectors

ASSUME SourcesAssumption ==
    /\ IsFiniteSet(Sources)
    /\ DirOf \in [Sources -> Dirs]
    /\ DOMAIN NameOf = Sources
    /\ \A f, g \in Sources : DirOf[f] = DirOf[g] /\ NameOf[f] = NameOf[g] => f = g
    /\ Compiles \subseteq Sources \X Versions
ASSUME NumbersAssumption == NumInjectors \in Nat /\ MaxRuns \in Nat
ASSUME CopyFailsAssumption == CopyFails \subseteq Sources

Names == {NameOf[f] : f \in Sources}

\* SetDataPath, the call and Clear, for each dataset of a mode.
Call(op, dir, version) == [op |-> op, dir |-> dir, version |-> version]
Script(m) ==
    CASE m = 1 -> <<Call("PreCompile", "5", "5"), Call("PreCompile", "wild", "4"), Call("PreCompile", "6", "6")>>
      [] m = 2 -> <<Call("InjectBug", "6", "6"), Call("InjectBug", "wild", "4")>>
      [] m = 3 -> <<Call("InjectBug", "tmp", "5")>>

VARIABLES
    mode, step,      \* the process's argument and the call it is at
    phase,           \* where in the call
    source_files,    \* source_files_
    counter,         \* the file of the loop the process is at
    processor,       \* the injector of the inner loop it is at
    finished,        \* the injectors whose Finish holds
    skipped,         \* local variable finished: the injectors found finished for this file
    solc,            \* the compiler solc-select last switched to
    tmp_json,        \* the tree in kTmpJsonFile
    ast_set,         \* /mnt/d/ASTset
    rm_file,         \* the sources ./rm_file.sh removes
    present,         \* the sources on disk
    runs

local  == <<source_files, counter, processor, skipped>>
disk   == <<solc, tmp_json, ast_set, rm_file, present>>
vars   == <<mode, step, phase, local, finished, disk, runs>>

NoAst == [source |-> "none", version |-> "none", whole |-> FALSE]
Ast == [source : Sources, version : Versions, whole : BOOLEAN]
Phases == {"main", "listed", "files", "compiled", "copying", "inject", "return", "down"}

ThisCall == Script(mode)[step]
ThisFile == source_files[counter]
ThisName == NameOf[ThisFile]
AtFile(op) == phase = "files" /\ ThisCall.op = op /\ counter <= Len(source_files)
Exists(n) == ast_set[n] # NoAst

Init ==
    /\ mode = 1 /\ step = 1 /\ phase = "down"
    /\ source_files = <<>> /\ counter = 0 /\ processor = 0 /\ skipped = 0
    /\ finished = {}
    /\ solc = "5" /\ tmp_json = NoAst
    /\ ast_set = [n \in Names |-> NoAst]
    /\ rm_file = {} /\ present = Sources
    /\ runs = 0

-----------------------------------------------------------------------------

\* The tool is started with an argument; Init registers fresh injectors.
Start(m) ==
    /\ phase = "down" /\ runs < MaxRuns
    /\ mode' = m /\ step' = 1 /\ phase' = "main"
    /\ source_files' = <<>> /\ counter' = 0 /\ processor' = 0 /\ skipped' = 0
    /\ finished' = {}
    /\ runs' = runs + 1
    /\ UNCHANGED disk

\* SetDataPath and ListFiles: directory_iterator has no order.
ListFiles ==
    /\ phase = "main" /\ step <= Len(Script(mode))
    /\ \E listing \in SetToSeqs({f \in present : DirOf[f] = ThisCall.dir}) :
            source_files' = source_files \o listing
    /\ phase' = "listed"
    /\ UNCHANGED <<mode, step, counter, processor, skipped, finished, disk, runs>>

\* A failed switch returns before rm_file.sh is opened, which truncates it.
SwitchVersionMutant == \* the return is lost
    /\ phase = "listed"
    /\ solc' \in {solc, ThisCall.version}
    /\ rm_file' = {}
    /\ phase' = "files" /\ counter' = 1
    /\ UNCHANGED <<mode, step, source_files, processor, skipped, finished, tmp_json, ast_set, present, runs>>
OpenRmFileMutant == rm_file \* opened to append
OpenRmFile == {}
SwitchVersion ==
    /\ phase = "listed"
    /\ \/ /\ solc' = ThisCall.version
          /\ rm_file' = OpenRmFile
          /\ phase' = "files" /\ counter' = 1
       \/ /\ phase' = "return"
          /\ UNCHANGED <<solc, rm_file, counter>>
    /\ UNCHANGED <<mode, step, source_files, processor, skipped, finished, tmp_json, ast_set, present, runs>>

NextFile == counter' = counter + 1

\* "rm <file>" is written to rm_file.sh and flushed.
ListForRemovalMutant == NextFile /\ UNCHANGED rm_file \* continue only
ListForRemoval ==
    /\ rm_file' = rm_file \cup {ThisFile}
    /\ NextFile

-----------------------------------------------------------------------------
(* PreCompile *)

SkipCompiled ==
    /\ AtFile("PreCompile") /\ Exists(ThisName)
    /\ NextFile
    /\ UNCHANGED <<mode, step, phase, source_files, processor, skipped, finished, disk, runs>>

\* CompileToJson cleans the source, overwrites tmp.sol and runs solc, which
\* leaves the previous tree in place when it fails.
CompileToJsonMutant == \* its result is not looked at
    /\ AtFile("PreCompile") /\ ~Exists(ThisName)
    /\ tmp_json' = IF <<ThisFile, solc>> \in Compiles THEN [source |-> ThisFile, version |-> solc, whole |-> TRUE]
                                                      ELSE tmp_json
    /\ phase' = "compiled"
    /\ UNCHANGED <<mode, step, local, finished, solc, ast_set, rm_file, present, runs>>
CompileAgainMutant == \* the cache is not asked first
    /\ AtFile("PreCompile") /\ <<ThisFile, solc>> \in Compiles
    /\ tmp_json' = [source |-> ThisFile, version |-> solc, whole |-> TRUE]
    /\ phase' = "compiled"
    /\ UNCHANGED <<mode, step, local, finished, solc, ast_set, rm_file, present, runs>>
CompileToJson ==
    /\ AtFile("PreCompile") /\ ~Exists(ThisName)
    /\ \/ /\ <<ThisFile, solc>> \in Compiles
          /\ tmp_json' = [source |-> ThisFile, version |-> solc, whole |-> TRUE]
          /\ phase' = "compiled"
          /\ UNCHANGED <<counter, rm_file>>
       \/ /\ <<ThisFile, solc>> \notin Compiles
          /\ ListForRemoval
          /\ UNCHANGED <<tmp_json, phase>>
    /\ UNCHANGED <<mode, step, source_files, processor, skipped, finished, solc, ast_set, present, runs>>

\* cp creates the entry, then fills it.
CopyBegins ==
    /\ phase = "compiled"
    /\ ast_set' = [ast_set EXCEPT ![ThisName] = [tmp_json EXCEPT !.whole = FALSE]]
    /\ phase' = "copying"
    /\ UNCHANGED <<mode, step, local, finished, solc, tmp_json, rm_file, present, runs>>

CopyEnds ==
    /\ phase = "copying"
    /\ \/ ast_set' = [ast_set EXCEPT ![ThisName] = tmp_json]
       \/ ThisFile \in CopyFails /\ UNCHANGED ast_set
    /\ phase' = "files" /\ NextFile
    /\ UNCHANGED <<mode, step, source_files, processor, skipped, finished, solc, tmp_json, rm_file, present, runs>>

\* The destination cannot be created.
CopyNotStarted ==
    /\ phase = "compiled" /\ ThisFile \in CopyFails
    /\ phase' = "files" /\ NextFile
    /\ UNCHANGED <<mode, step, source_files, processor, skipped, finished, disk, runs>>

-----------------------------------------------------------------------------
(* InjectBug(true) *)

NotCompiled ==
    /\ AtFile("InjectBug") /\ ~Exists(ThisName)
    /\ ListForRemoval
    /\ UNCHANGED <<mode, step, phase, source_files, processor, skipped, finished, solc, tmp_json, ast_set, present, runs>>

\* A truncated tree makes nlohmann::json::parse throw; nothing catches it.
TornAst ==
    /\ AtFile("InjectBug") /\ Exists(ThisName) /\ ~ast_set[ThisName].whole
    /\ phase' = "down"
    /\ UNCHANGED <<mode, step, local, finished, disk, runs>>

\* The tree is parsed; one without contracts is passed over.
ParseAstMutant == \* the entry is taken as it is
    /\ AtFile("InjectBug") /\ Exists(ThisName)
    /\ phase' = "inject" /\ processor' = 1 /\ skipped' = 0
    /\ UNCHANGED <<mode, step, source_files, counter, finished, disk, runs>>
ParseAst ==
    /\ AtFile("InjectBug") /\ Exists(ThisName) /\ ast_set[ThisName].whole
    /\ \/ phase' = "inject" /\ processor' = 1 /\ skipped' = 0 /\ UNCHANGED counter
       \/ NextFile /\ UNCHANGED <<phase, processor, skipped>>
    /\ UNCHANGED <<mode, step, source_files, finished, disk, runs>>

SkipFinished ==
    /\ phase = "inject" /\ processor \in finished
    /\ skipped' = skipped + 1
    /\ processor' = processor + 1
    /\ UNCHANGED <<mode, step, phase, source_files, counter, finished, disk, runs>>

\* Init and BuildDataset, after which Finish may have become true.
BuildDataset ==
    /\ phase = "inject" /\ processor \in Injectors \ finished
    /\ finished' \in {finished, finished \cup {processor}}
    /\ processor' = processor + 1
    /\ UNCHANGED <<mode, step, phase, source_files, counter, skipped, disk, runs>>

EndFileMutant == \* finished is not reset for each file
    /\ phase = "inject" /\ processor > NumInjectors
    /\ phase' = IF finished # {} THEN "return" ELSE "files"
    /\ NextFile
    /\ UNCHANGED <<mode, step, source_files, processor, skipped, finished, disk, runs>>
EndFile ==
    /\ phase = "inject" /\ processor > NumInjectors
    /\ phase' = IF skipped >= NumInjectors THEN "return" ELSE "files"
    /\ NextFile
    /\ UNCHANGED <<mode, step, source_files, processor, skipped, finished, disk, runs>>

-----------------------------------------------------------------------------

EndLoop ==
    /\ phase = "files" /\ counter > Len(source_files)
    /\ phase' = "return"
    /\ UNCHANGED <<mode, step, local, finished, disk, runs>>

Clear ==
    /\ phase = "return"
    /\ source_files' = <<>> /\ counter' = 0
    /\ step' = step + 1 /\ phase' = "main"
    /\ UNCHANGED <<mode, processor, skipped, finished, disk, runs>>

\* main returns.
Exit ==
    /\ phase = "main" /\ step > Len(Script(mode))
    /\ phase' = "down"
    /\ UNCHANGED <<mode, step, local, finished, disk, runs>>

\* The process is killed, or an injector or a filesystem call throws.
Kill ==
    /\ phase # "down"
    /\ phase' = "down"
    /\ UNCHANGED <<mode, step, local, finished, disk, runs>>

\* The user runs rm_file.sh.
RunRmFile ==
    /\ phase = "down" /\ present \cap rm_file # {}
    /\ present' = present \ rm_file
    /\ UNCHANGED <<mode, step, phase, local, finished, solc, tmp_json, ast_set, rm_file, runs>>

Process ==
    \/ ListFiles \/ SwitchVersion \/ SkipCompiled \/ CompileToJson
    \/ CopyBegins \/ CopyEnds \/ CopyNotStarted
    \/ NotCompiled \/ TornAst \/ ParseAst \/ SkipFinished \/ BuildDataset \/ EndFile
    \/ EndLoop \/ Clear \/ Exit

Next == Process \/ (\E m \in Modes : Start(m)) \/ Kill \/ RunRmFile

Spec == Init /\ [][Next]_vars

-----------------------------------------------------------------------------
(* Properties *)

TypeOK ==
    /\ mode \in Modes /\ step \in 1..(Len(Script(mode)) + 1) /\ phase \in Phases
    /\ source_files \in Seq(Sources) /\ counter \in 0..(Len(source_files) + 1)
    /\ processor \in 0..(NumInjectors + 1) /\ skipped \in 0..NumInjectors
    /\ finished \subseteq Injectors
    /\ solc \in Versions /\ tmp_json \in Ast \cup {NoAst}
    /\ ast_set \in [Names -> Ast \cup {NoAst}]
    /\ rm_file \subseteq Sources /\ present \subseteq Sources /\ runs \in 0..MaxRuns

ThisCallEnded(op) == phase = "return" /\ ThisCall.op = op /\ counter > Len(source_files)

\* The compiler main.cpp pairs with each dataset directory.
CompilerOf(dir) == CASE dir = "wild" -> "4" [] dir = "6" -> "6" [] OTHER -> "5"

\* Every entry of ASTset, even one a crash left half copied, is filed under the
\* name of the source it was made from and was made by the compiler of that
\* source's dataset, although the compiler is a machine-wide setting that an
\* earlier call or process may have left anywhere.
CompilerMatches ==
    \A n \in Names : Exists(n) =>
        LET ast == ast_set[n]
        IN  NameOf[ast.source] = n /\ ast.version = CompilerOf(DirOf[ast.source])

\* An injector never sees a half copied tree, and a tree of another source only
\* if that source has the same base name in another directory.
OwnAst ==
    phase = "inject" =>
        /\ ast_set[ThisName].whole
        /\ ast_set[ThisName].source = ThisFile \/ DirOf[ast_set[ThisName].source] # DirOf[ThisFile]
        /\ NameOf[ast_set[ThisName].source] = ThisName

\* Nothing replaces or repairs an entry once the copy that made it has ended,
\* whatever process comes later: a tree torn by a crash stays torn.
EntriesFrozen ==
    [][\A n \in Names : Exists(n) /\ ~(phase = "copying" /\ ThisName = n) => ast_set'[n] = ast_set[n]]_vars

\* rm_file.sh removes no source whose tree is in ASTset, whichever process
\* wrote it and whatever ran since: only a call that lists anew may compile.
RemovesNoCompiled == [][\A f \in present \ present' : ~Exists(NameOf[f])]_vars

\* When PreCompile has gone through a dataset, each of its sources for which cp
\* works has a tree under its name or is listed for removal.
CompleteOrListed ==
    ThisCallEnded("PreCompile") =>
        \A i \in 1..Len(source_files) :
            \/ source_files[i] \in CopyFails
            \/ Exists(NameOf[source_files[i]]) \/ source_files[i] \in rm_file

\* InjectBug leaves sources of the dataset unread only when the compiler could
\* not be switched or all injectors have finished.
EarlyReturn ==
    phase = "return" /\ counter \in 1..Len(source_files) => finished = Injectors

=============================================================================
