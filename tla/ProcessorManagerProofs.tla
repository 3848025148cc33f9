----------------------- MODULE ProcessorManagerProofs -----------------------
(***************************************************************************)
(* What holds of the manager for every set of sources, every compiler      *)
(* behaviour and any number of processes.                                  *)
(***************************************************************************)
EXTENDS ProcessorManager, TLAPS, FiniteSetTheorems, SequenceTheorems

InCall == phase \notin {"main", "down"}
InLoop == phase \in {"files", "compiled", "copying", "inject"}
AtSource == phase \in {"compiled", "copying", "inject"}

\* The listing of one dataset, each source once.
ListingInv ==
    /\ InCall => step <= Len(Script(mode))
    /\ InCall => \A i \in 1..Len(source_files) : DirOf[source_files[i]] = ThisCall.dir
    /\ \A i, j \in 1..Len(source_files) : source_files[i] = source_files[j] => i = j
    /\ phase = "main" => source_files = <<>>
    /\ phase \in {"main", "listed"} => counter = 0
    /\ InLoop => counter >= 1
    /\ AtSource => counter <= Len(source_files)
    /\ phase \in {"compiled", "copying"} => tmp_json \in Ast

\* The inner loop.
ProcessorInv ==
    phase = "inject" =>
        /\ processor >= 1
        /\ skipped < processor
        /\ skipped = processor - 1 => 1..skipped \subseteq finished

TypeInv == TypeOK /\ ListingInv /\ ProcessorInv

Op == {"PreCompile", "InjectBug"}

LEMMA ScriptCalls ==
    ASSUME NEW m \in Modes, NEW i \in 1..Len(Script(m))
    PROVE  /\ Script(m)[i].op \in Op /\ Script(m)[i].dir \in Dirs
           /\ Script(m)[i].version \in Versions
           /\ Script(m)[i].version = CompilerOf(Script(m)[i].dir)
<1>1. CASE m = 1
  BY <1>1 DEF Script, Call, Op, Dirs, Versions, CompilerOf
<1>2. CASE m = 2
  BY <1>2 DEF Script, Call, Op, Dirs, Versions, CompilerOf
<1>3. CASE m = 3
  BY <1>3 DEF Script, Call, Op, Dirs, Versions, CompilerOf
<1> QED
  BY <1>1, <1>2, <1>3 DEF Modes

LEMMA ScriptLength == \A m \in Modes : Len(Script(m)) \in Nat /\ Len(Script(m)) >= 1
BY DEF Modes, Script

\* What ListFiles may return.
LEMMA ListingOf ==
    ASSUME NEW S, IsFiniteSet(S), NEW listing \in SetToSeqs(S)
    PROVE  /\ listing \in Seq(S)
           /\ \A i, j \in 1..Len(listing) : listing[i] = listing[j] => i = j
<1>1. Cardinality(S) \in Nat
  BY FS_CardinalityType
<1>2. PICK n \in Nat : n = Cardinality(S)
  BY <1>1
<1>3. listing \in [1..n -> S] /\ \A i, j \in 1..n : i # j => listing[i] # listing[j]
  BY <1>2 DEF SetToSeqs
<1> QED
  BY <1>3

LEMMA InitTypeInv == Init => TypeInv
BY ScriptLength, NumbersAssumption
   DEF Init, TypeInv, TypeOK, ListingInv, ProcessorInv, InCall, InLoop, AtSource, Modes, Phases, Versions, Injectors

LEMMA NextTypeInv == TypeInv /\ [Next]_vars => TypeInv'
<1> SUFFICES ASSUME TypeInv, [Next]_vars PROVE TypeInv'
  OBVIOUS
<1> USE NumbersAssumption DEF TypeInv, TypeOK, ListingInv, ProcessorInv, InCall, InLoop, AtSource, Phases, local, disk
<1>0. Len(Script(mode)) \in Nat
  BY ScriptLength
<1>1. CASE ListFiles
  <2>1. PICK listing \in SetToSeqs({f \in present : DirOf[f] = ThisCall.dir}) : source_files' = source_files \o listing
    BY <1>1 DEF ListFiles
  <2>2. IsFiniteSet({f \in present : DirOf[f] = ThisCall.dir})
    BY SourcesAssumption, FS_Subset
  <2>3. /\ listing \in Seq({f \in present : DirOf[f] = ThisCall.dir})
        /\ \A i, j \in 1..Len(listing) : listing[i] = listing[j] => i = j
    BY <2>1, <2>2, ListingOf
  <2>4. source_files' = listing
    BY <1>1, <2>1, <2>3 DEF ListFiles
  <2>5. ThisCall' = ThisCall
    BY <1>1 DEF ListFiles, ThisCall
  <2> QED
    BY <1>0, <1>1, <2>3, <2>4, <2>5 DEF ListFiles
<1>2. CASE SwitchVersion
  <2>1. ThisCall.version \in Versions
    BY <1>2, ScriptCalls DEF SwitchVersion, ThisCall
  <2> QED
    BY <1>0, <1>2, <2>1 DEF SwitchVersion, ThisCall, OpenRmFile
<1>3. CASE SkipCompiled
  BY <1>0, <1>3 DEF SkipCompiled, AtFile, NextFile, ThisCall
<1>4. CASE CompileToJson
  <2>1. ThisFile \in Sources
    BY <1>4 DEF CompileToJson, AtFile, ThisFile
  <2>2. [source |-> ThisFile, version |-> solc, whole |-> TRUE] \in Ast
    BY <2>1 DEF Ast
  <2>3. tmp_json' \in Ast \cup {NoAst} /\ rm_file' \subseteq Sources
    BY <1>4, <2>1, <2>2 DEF CompileToJson, ListForRemoval
  <2>4. /\ phase' \in {"compiled", "files"} /\ counter' \in {counter, counter + 1}
        /\ phase' = "compiled" => counter' = counter /\ tmp_json' \in Ast
        /\ phase = "files" /\ counter <= Len(source_files)
        /\ UNCHANGED <<mode, step, source_files, processor, skipped, finished, solc, ast_set, present, runs>>
    BY <1>4, <2>2 DEF CompileToJson, AtFile, NextFile, ListForRemoval
  <2> QED
    BY <1>0, <2>3, <2>4 DEF ThisCall
<1>5. CASE CopyBegins
  <2>1. [tmp_json EXCEPT !.whole = FALSE] \in Ast
    BY <1>5 DEF CopyBegins, Ast
  <2>2. ast_set' \in [Names -> Ast \cup {NoAst}]
    BY <1>5, <2>1 DEF CopyBegins
  <2> QED
    BY <1>0, <1>5, <2>2 DEF CopyBegins, ThisCall
<1>6. CASE CopyEnds
  BY <1>0, <1>6 DEF CopyEnds, NextFile, ThisCall
<1>7. CASE CopyNotStarted
  BY <1>0, <1>7 DEF CopyNotStarted, NextFile, ThisCall
<1>8. CASE NotCompiled
  <2>1. ThisFile \in Sources
    BY <1>8 DEF NotCompiled, AtFile, ThisFile
  <2> QED
    BY <1>0, <1>8, <2>1 DEF NotCompiled, AtFile, NextFile, ListForRemoval, ThisCall
<1>9. CASE TornAst
  BY <1>0, <1>9 DEF TornAst, ThisCall
<1>10. CASE ParseAst
  BY <1>0, <1>10 DEF ParseAst, AtFile, NextFile, ThisCall
<1>11. CASE SkipFinished
  <2>1. processor' = processor + 1 /\ skipped' = skipped + 1 /\ processor \in Injectors /\ processor \in finished
    BY <1>11 DEF SkipFinished, Injectors
  <2>2. skipped' = processor' - 1 => 1..skipped' \subseteq finished
    BY <1>11, <2>1 DEF SkipFinished
  <2> QED
    BY <1>0, <1>11, <2>1, <2>2 DEF SkipFinished, ThisCall, Injectors
<1>12. CASE BuildDataset
  <2>1. finished' \subseteq Injectors /\ processor \in Injectors
    BY <1>12 DEF BuildDataset
  <2>2. /\ phase = "inject" /\ processor' = processor + 1
        /\ UNCHANGED <<mode, step, phase, source_files, counter, skipped, disk, runs>>
    BY <1>12 DEF BuildDataset
  <2> QED
    BY <1>0, <2>1, <2>2 DEF ThisCall, Injectors
<1>13. CASE EndFile
  BY <1>0, <1>13 DEF EndFile, NextFile, ThisCall
<1>14. CASE EndLoop
  BY <1>0, <1>14 DEF EndLoop, ThisCall
<1>15. CASE Clear
  BY <1>0, <1>15 DEF Clear, ThisCall
<1>16. CASE Exit
  BY <1>0, <1>16 DEF Exit, ThisCall
<1>17. CASE \E m \in Modes : Start(m)
  <2>1. PICK m \in Modes : Start(m)
    BY <1>17
  <2>2. mode' = m /\ step' = 1 /\ Len(Script(m)) \in Nat /\ runs' \in 0..MaxRuns
    BY <2>1, ScriptLength DEF Start
  <2> QED
    BY <2>1, <2>2 DEF Start, ThisCall
<1>18. CASE Kill
  BY <1>0, <1>18 DEF Kill, ThisCall
<1>19. CASE RunRmFile
  BY <1>0, <1>19 DEF RunRmFile, ThisCall
<1>20. CASE UNCHANGED vars
  BY <1>0, <1>20 DEF vars, ThisCall
<1> QED
  BY <1>1, <1>2, <1>3, <1>4, <1>5, <1>6, <1>7, <1>8, <1>9, <1>10, <1>11, <1>12, <1>13, <1>14, <1>15, <1>16,
     <1>17, <1>18, <1>19, <1>20 DEF Next, Process

\* The state of the manager is well typed and its indices stay in their loops.
THEOREM ManagerTypeCorrect == Spec => []TypeOK
<1>1. TypeInv => TypeOK
  BY DEF TypeInv
<1> QED
  BY <1>1, InitTypeInv, NextTypeInv, PTL DEF Spec

LEMMA TypeInvHolds == Spec => []TypeInv
BY InitTypeInv, NextTypeInv, PTL DEF Spec

-----------------------------------------------------------------------------
(* Trees.  The compiler in force during a call is the one the script pairs *)
(* with the dataset, and the tree that is copied is the one just made.     *)

Copying == phase \in {"compiled", "copying"}

TreeInv ==
    /\ InLoop => solc = ThisCall.version
    /\ Copying => tmp_json = [source |-> ThisFile, version |-> solc, whole |-> TRUE]
    /\ phase = "compiled" => ~Exists(ThisName)
    /\ phase = "inject" => Exists(ThisName) /\ ast_set[ThisName].whole
    /\ CompilerMatches

\* What is listed for removal has been passed in the listing of this call and
\* has no tree.
RmInv ==
    /\ InLoop => \A f \in rm_file : \E i \in 1..(counter - 1) : source_files[i] = f
    /\ \A f \in rm_file : ~Exists(NameOf[f])

\* What the steps of a call keep.
LEMMA SourceFacts ==
    ASSUME TypeInv, InLoop, counter <= Len(source_files)
    PROVE  /\ ThisFile \in Sources /\ ThisName \in Names
           /\ DirOf[ThisFile] = ThisCall.dir
           /\ CompilerOf(DirOf[ThisFile]) = ThisCall.version
           /\ \A i \in 1..(counter - 1) : source_files[i] \in Sources /\ NameOf[source_files[i]] # ThisName
<1>1. counter \in 1..Len(source_files) /\ step \in 1..Len(Script(mode)) /\ mode \in Modes /\ InCall
  BY ScriptLength DEF TypeInv, TypeOK, ListingInv, InLoop, InCall
<1>2. ThisFile \in Sources /\ ThisName \in Names /\ DirOf[ThisFile] = ThisCall.dir
  BY <1>1 DEF TypeInv, TypeOK, ListingInv, ThisFile, ThisName, Names
<1>3. CompilerOf(ThisCall.dir) = ThisCall.version
  BY <1>1, ScriptCalls DEF ThisCall
<1>4. ASSUME NEW i \in 1..(counter - 1) PROVE source_files[i] \in Sources /\ NameOf[source_files[i]] # ThisName
  <2>1. i \in 1..Len(source_files) /\ i # counter
    BY <1>1
  <2>2. source_files[i] \in Sources /\ source_files[i] # ThisFile /\ DirOf[source_files[i]] = DirOf[ThisFile]
    BY <1>1, <1>2, <2>1 DEF TypeInv, TypeOK, ListingInv, ThisFile
  <2> QED
    BY <1>2, <2>2, SourcesAssumption DEF ThisName
<1> QED
  BY <1>2, <1>3, <1>4

LEMMA NextTreeInv == TypeInv /\ TreeInv /\ [Next]_vars => TreeInv'
<1> SUFFICES ASSUME TypeInv, TreeInv, [Next]_vars PROVE TreeInv'
  OBVIOUS
<1> USE DEF TreeInv, InLoop, Copying, CompilerMatches, Exists, ThisCall, ThisFile, ThisName, local, disk, AtFile, NextFile
<1>1. CASE ListFiles
  BY <1>1 DEF ListFiles
<1>2. CASE SwitchVersion
  BY <1>2 DEF SwitchVersion
<1>3. CASE SkipCompiled
  BY <1>3 DEF SkipCompiled
<1>4. CASE CompileToJson
  <2>1. ThisName' = ThisName \/ phase' = "files"
    BY <1>4 DEF CompileToJson, ListForRemoval
  <2> QED
    BY <1>4 DEF CompileToJson, ListForRemoval
<1>5. CASE CopyBegins
  <2>1. /\ ThisFile \in Sources /\ ThisName \in Names
        /\ CompilerOf(DirOf[ThisFile]) = ThisCall.version
    BY <1>5, SourceFacts DEF CopyBegins, TypeInv, ListingInv, AtSource
  <2>2. tmp_json.source = ThisFile /\ tmp_json.version = CompilerOf(DirOf[ThisFile])
    BY <1>5, <2>1 DEF CopyBegins
  <2>3. PICK new : new = [tmp_json EXCEPT !.whole = FALSE]
    OBVIOUS
  <2>4. new.source = ThisFile /\ new.version = CompilerOf(DirOf[ThisFile])
    BY <1>5, <2>2, <2>3 DEF CopyBegins
  <2>5. \A n \in Names : ast_set'[n] = IF n = ThisName THEN new ELSE ast_set[n]
    BY <1>5, <2>3 DEF CopyBegins, TypeInv, TypeOK
  <2> QED
    BY <1>5, <2>4, <2>5 DEF CopyBegins
<1>6. CASE CopyEnds
  <2>1. /\ ThisFile \in Sources /\ ThisName \in Names
        /\ CompilerOf(DirOf[ThisFile]) = ThisCall.version
    BY <1>6, SourceFacts DEF CopyEnds, TypeInv, ListingInv, AtSource
  <2>2. tmp_json.source = ThisFile /\ tmp_json.version = CompilerOf(DirOf[ThisFile])
    BY <1>6, <2>1 DEF CopyEnds
  <2>3. \A n \in Names : ast_set'[n] = ast_set[n] \/ (n = ThisName /\ ast_set'[n] = tmp_json)
    BY <1>6 DEF CopyEnds, TypeInv, TypeOK
  <2> QED
    BY <1>6, <2>2, <2>3 DEF CopyEnds
<1>7. CASE CopyNotStarted
  BY <1>7 DEF CopyNotStarted
<1>8. CASE NotCompiled
  BY <1>8 DEF NotCompiled, ListForRemoval
<1>9. CASE TornAst
  BY <1>9 DEF TornAst
<1>10. CASE ParseAst
  BY <1>10 DEF ParseAst
<1>11. CASE SkipFinished
  BY <1>11 DEF SkipFinished
<1>12. CASE BuildDataset
  BY <1>12 DEF BuildDataset
<1>13. CASE EndFile
  BY <1>13 DEF EndFile
<1>14. CASE EndLoop
  BY <1>14 DEF EndLoop
<1>15. CASE Clear
  BY <1>15 DEF Clear
<1>16. CASE Exit
  BY <1>16 DEF Exit
<1>17. CASE \E m \in Modes : Start(m)
  BY <1>17 DEF Start
<1>18. CASE Kill
  BY <1>18 DEF Kill
<1>19. CASE RunRmFile
  BY <1>19 DEF RunRmFile
<1>20. CASE UNCHANGED vars
  BY <1>20 DEF vars
<1> QED
  BY <1>1, <1>2, <1>3, <1>4, <1>5, <1>6, <1>7, <1>8, <1>9, <1>10, <1>11, <1>12, <1>13, <1>14, <1>15, <1>16,
     <1>17, <1>18, <1>19, <1>20 DEF Next, Process

LEMMA TreeInvHolds == Spec => []TreeInv
<1>1. Init => TreeInv
  BY DEF Init, TreeInv, InLoop, Copying, CompilerMatches, Exists
<1> QED
  BY <1>1, NextTreeInv, TypeInvHolds, PTL DEF Spec

\* Each tree is filed under its source's name and made by its dataset's compiler.
THEOREM CompilerMatchesHolds == Spec => []CompilerMatches
<1>1. TreeInv => CompilerMatches
  BY DEF TreeInv
<1> QED
  BY <1>1, TreeInvHolds, PTL

\* An injector is handed a whole tree, of its source or of a namesake elsewhere.
THEOREM OwnAstHolds == Spec => []OwnAst
<1>1. TypeInv /\ TreeInv => OwnAst
  <2> SUFFICES ASSUME TypeInv, TreeInv, phase = "inject"
               PROVE  /\ ast_set[ThisName].whole /\ NameOf[ast_set[ThisName].source] = ThisName
                      /\ ast_set[ThisName].source = ThisFile \/ DirOf[ast_set[ThisName].source] # DirOf[ThisFile]
    BY DEF OwnAst
  <2>1. ThisFile \in Sources /\ ThisName \in Names
    BY SourceFacts DEF TypeInv, ListingInv, AtSource, InLoop
  <2>2. ast_set[ThisName] \in Ast \cup {NoAst} /\ ast_set[ThisName] # NoAst /\ ast_set[ThisName].whole
    BY <2>1 DEF TypeInv, TypeOK, TreeInv, Exists
  <2>3. ast_set[ThisName].source \in Sources
    BY <2>2 DEF Ast
  <2>4. NameOf[ast_set[ThisName].source] = ThisName
    BY <2>1, <2>2 DEF TreeInv, CompilerMatches, Exists
  <2> QED
    BY <2>1, <2>2, <2>3, <2>4, SourcesAssumption DEF ThisName
<1> QED
  BY <1>1, TypeInvHolds, TreeInvHolds, PTL

\* The steps that change ASTset.
LEMMA StepsOnAstSet ==
    ASSUME [Next]_vars
    PROVE  CopyBegins \/ CopyEnds \/ UNCHANGED ast_set
BY DEF Next, Process, ListFiles, SwitchVersion, SkipCompiled, CompileToJson, CopyNotStarted, NotCompiled, TornAst,
       ParseAst, SkipFinished, BuildDataset, EndFile, EndLoop, Clear, Exit, Start, Kill, RunRmFile, vars, disk

\* Once its copy has ended an entry of ASTset never changes.
THEOREM EntriesFrozenHolds == Spec => EntriesFrozen
<1> DEFINE Frozen == \A n \in Names : Exists(n) /\ ~(phase = "copying" /\ ThisName = n) => ast_set'[n] = ast_set[n]
<1>1. TypeInv /\ TreeInv /\ [Next]_vars => [Frozen]_vars
  <2> SUFFICES ASSUME TypeInv, TreeInv, [Next]_vars, NEW n \in Names, Exists(n), ~(phase = "copying" /\ ThisName = n)
               PROVE  ast_set'[n] = ast_set[n]
    OBVIOUS
  <2>1. CASE CopyBegins
    BY <2>1 DEF CopyBegins, TreeInv, TypeInv, TypeOK
  <2>2. CASE CopyEnds
    BY <2>2 DEF CopyEnds, TypeInv, TypeOK
  <2> QED
    BY <2>1, <2>2, StepsOnAstSet
<1> QED
  BY <1>1, TypeInvHolds, TreeInvHolds, PTL DEF Spec, EntriesFrozen

-----------------------------------------------------------------------------
(* rm_file.sh.  A call empties it before it compiles anything, and within  *)
(* the call a listed source has been passed and has a name of its own.     *)

LEMMA ListsThisFile ==
    ASSUME TypeInv, RmInv, InLoop, counter <= Len(source_files), ~Exists(ThisName), ListForRemoval
    PROVE  /\ \A f \in rm_file' : \E i \in 1..(counter' - 1) : source_files[i] = f
           /\ \A f \in rm_file' : ~Exists(NameOf[f])
<1>1. counter \in Nat /\ counter >= 1 /\ counter' = counter + 1
  BY DEF TypeInv, TypeOK, ListingInv, ListForRemoval, NextFile
<1>2. rm_file' = rm_file \cup {ThisFile}
  BY DEF ListForRemoval
<1>3. \A f \in rm_file : \E i \in 1..(counter - 1) : source_files[i] = f
  BY DEF RmInv
<1>4. counter \in 1..(counter' - 1) /\ source_files[counter] = ThisFile
  BY <1>1 DEF ThisFile
<1>5. \A f \in rm_file' : \E i \in 1..(counter' - 1) : source_files[i] = f
  BY <1>1, <1>2, <1>3, <1>4
<1> QED
  BY <1>2, <1>5 DEF RmInv, ThisName

LEMMA NextRmInv == TypeInv /\ TreeInv /\ RmInv /\ [Next]_vars => RmInv'
<1> SUFFICES ASSUME TypeInv, TreeInv, RmInv, [Next]_vars PROVE RmInv'
  OBVIOUS
<1> USE DEF RmInv, InLoop, Exists, local, disk, AtFile, NextFile
<1>0. rm_file \subseteq Sources /\ counter \in Nat /\ \A f \in rm_file : NameOf[f] \in Names
  BY DEF TypeInv, TypeOK, Names
<1>1. CASE ListFiles
  BY <1>1 DEF ListFiles
<1>2. CASE SwitchVersion
  BY <1>2 DEF SwitchVersion, OpenRmFile
<1>3. CASE SkipCompiled
  BY <1>0, <1>3 DEF SkipCompiled
<1>4. CASE CompileToJson
  <2>1. CASE phase' = "compiled" /\ UNCHANGED <<counter, rm_file>>
    BY <1>4, <2>1 DEF CompileToJson
  <2>2. CASE ListForRemoval
    <3>1. /\ \A f \in rm_file' : \E i \in 1..(counter' - 1) : source_files[i] = f
          /\ \A f \in rm_file' : ~Exists(NameOf[f])
      BY <1>4, <2>2, ListsThisFile DEF CompileToJson
    <3> QED
      BY <1>4, <2>2, <3>1 DEF CompileToJson
  <2> QED
    BY <1>4, <2>1, <2>2 DEF CompileToJson
<1>5. CASE CopyBegins
  <2>1. \A f \in rm_file : NameOf[f] # ThisName
    BY <1>5, SourceFacts DEF CopyBegins, TypeInv, ListingInv, AtSource
  <2>2. \A f \in rm_file : ast_set'[NameOf[f]] = ast_set[NameOf[f]]
    BY <1>0, <1>5, <2>1 DEF CopyBegins, TypeInv, TypeOK
  <2> QED
    BY <1>5, <2>2 DEF CopyBegins
<1>6. CASE CopyEnds
  <2>1. \A f \in rm_file : NameOf[f] # ThisName
    BY <1>6, SourceFacts DEF CopyEnds, TypeInv, ListingInv, AtSource
  <2>2. \A f \in rm_file : ast_set'[NameOf[f]] = ast_set[NameOf[f]]
    BY <1>0, <1>6, <2>1 DEF CopyEnds, TypeInv, TypeOK
  <2> QED
    BY <1>0, <1>6, <2>2 DEF CopyEnds
<1>7. CASE CopyNotStarted
  BY <1>0, <1>7 DEF CopyNotStarted
<1>8. CASE NotCompiled
  <2>1. /\ \A f \in rm_file' : \E i \in 1..(counter' - 1) : source_files[i] = f
        /\ \A f \in rm_file' : ~Exists(NameOf[f])
    BY <1>8, ListsThisFile DEF NotCompiled
  <2> QED
    BY <1>8, <2>1 DEF NotCompiled
<1>9. CASE TornAst
  BY <1>9 DEF TornAst
<1>10. CASE ParseAst
  BY <1>0, <1>10 DEF ParseAst
<1>11. CASE SkipFinished
  BY <1>11 DEF SkipFinished
<1>12. CASE BuildDataset
  BY <1>12 DEF BuildDataset
<1>13. CASE EndFile
  BY <1>0, <1>13 DEF EndFile
<1>14. CASE EndLoop
  BY <1>14 DEF EndLoop
<1>15. CASE Clear
  BY <1>15 DEF Clear
<1>16. CASE Exit
  BY <1>16 DEF Exit
<1>17. CASE \E m \in Modes : Start(m)
  BY <1>17 DEF Start
<1>18. CASE Kill
  BY <1>18 DEF Kill
<1>19. CASE RunRmFile
  BY <1>19 DEF RunRmFile
<1>20. CASE UNCHANGED vars
  BY <1>20 DEF vars
<1> QED
  BY <1>1, <1>2, <1>3, <1>4, <1>5, <1>6, <1>7, <1>8, <1>9, <1>10, <1>11, <1>12, <1>13, <1>14, <1>15, <1>16,
     <1>17, <1>18, <1>19, <1>20 DEF Next, Process

LEMMA RmInvHolds == Spec => []RmInv
<1>1. Init => RmInv
  BY DEF Init, RmInv, InLoop
<1> QED
  BY <1>1, NextRmInv, TypeInvHolds, TreeInvHolds, PTL DEF Spec

\* Running rm_file.sh never deletes a source that has a tree.
THEOREM RemovesNoCompiledHolds == Spec => RemovesNoCompiled
<1> DEFINE Kept == \A f \in present \ present' : ~Exists(NameOf[f])
<1>1. RmInv /\ [Next]_vars => [Kept]_vars
  <2> SUFFICES ASSUME RmInv, [Next]_vars PROVE Kept
    OBVIOUS
  <2>1. CASE RunRmFile
    BY <2>1 DEF RunRmFile, RmInv
  <2>2. CASE ~RunRmFile
    <3>1. present' = present
      BY <2>2 DEF Next, Process, ListFiles, SwitchVersion, SkipCompiled, CompileToJson, CopyBegins, CopyEnds,
            CopyNotStarted, NotCompiled, TornAst, ParseAst, SkipFinished, BuildDataset, EndFile, EndLoop, Clear,
            Exit, Start, Kill, vars, disk
    <3> QED
      BY <3>1
  <2> QED
    BY <2>1, <2>2
<1> QED
  BY <1>1, RmInvHolds, PTL DEF Spec, RemovesNoCompiled

-----------------------------------------------------------------------------
(* Completeness.  The sources a call has passed are accounted for, and the *)
(* loop is left early by the break only.                                   *)

\* A call that leaves its loop early found every injector finished.
LEMMA NextEarlyReturn == TypeInv /\ EarlyReturn /\ [Next]_vars => EarlyReturn'
<1> SUFFICES ASSUME TypeInv, EarlyReturn, [Next]_vars PROVE EarlyReturn'
  OBVIOUS
<1> USE DEF EarlyReturn, local, AtFile
<1>1. CASE ListFiles
  BY <1>1 DEF ListFiles
<1>2. CASE SwitchVersion
  BY <1>2 DEF SwitchVersion, TypeInv, TypeOK, ListingInv
<1>3. CASE SkipCompiled
  BY <1>3 DEF SkipCompiled
<1>4. CASE CompileToJson
  BY <1>4 DEF CompileToJson
<1>5. CASE CopyBegins
  BY <1>5 DEF CopyBegins
<1>6. CASE CopyEnds
  BY <1>6 DEF CopyEnds
<1>7. CASE CopyNotStarted
  BY <1>7 DEF CopyNotStarted
<1>8. CASE NotCompiled
  BY <1>8 DEF NotCompiled
<1>9. CASE TornAst
  BY <1>9 DEF TornAst
<1>10. CASE ParseAst
  BY <1>10 DEF ParseAst
<1>11. CASE SkipFinished
  BY <1>11 DEF SkipFinished
<1>12. CASE BuildDataset
  BY <1>12 DEF BuildDataset
<1>13. CASE EndFile
  <2>1. processor = NumInjectors + 1 /\ finished \subseteq Injectors /\ skipped \in 0..NumInjectors
    BY <1>13, NumbersAssumption DEF EndFile, TypeInv, TypeOK
  <2>2. skipped = NumInjectors => Injectors \subseteq finished
    BY <1>13, <2>1, NumbersAssumption DEF EndFile, TypeInv, ProcessorInv, Injectors
  <2>3. phase' = "return" => finished = Injectors
    BY <1>13, <2>1, <2>2, NumbersAssumption DEF EndFile
  <2> QED
    BY <1>13, <2>3 DEF EndFile
<1>14. CASE EndLoop
  BY <1>14 DEF EndLoop, TypeInv, TypeOK
<1>15. CASE Clear
  BY <1>15 DEF Clear
<1>16. CASE Exit
  BY <1>16 DEF Exit
<1>17. CASE \E m \in Modes : Start(m)
  BY <1>17 DEF Start
<1>18. CASE Kill
  BY <1>18 DEF Kill
<1>19. CASE RunRmFile
  BY <1>19 DEF RunRmFile
<1>20. CASE UNCHANGED vars
  BY <1>20 DEF vars
<1> QED
  BY <1>1, <1>2, <1>3, <1>4, <1>5, <1>6, <1>7, <1>8, <1>9, <1>10, <1>11, <1>12, <1>13, <1>14, <1>15, <1>16,
     <1>17, <1>18, <1>19, <1>20 DEF Next, Process

\* InjectBug passes over sources only when every injector has finished.
THEOREM EarlyReturnHolds == Spec => []EarlyReturn
<1>1. Init => EarlyReturn
  BY DEF Init, EarlyReturn
<1> QED
  BY <1>1, NextEarlyReturn, TypeInvHolds, PTL DEF Spec

PreCompiling == InCall /\ ThisCall.op = "PreCompile"
Covered(f) == f \in CopyFails \/ Exists(NameOf[f]) \/ f \in rm_file
PassedInv ==
    /\ PreCompiling => \A i \in 1..(counter - 1) : Covered(source_files[i])
    /\ phase = "inject" => ~PreCompiling

LEMMA NextPassedInv == TypeInv /\ TreeInv /\ PassedInv /\ [Next]_vars => PassedInv'
<1> SUFFICES ASSUME TypeInv, TreeInv, PassedInv, [Next]_vars PROVE PassedInv'
  OBVIOUS
<1> USE DEF PassedInv, PreCompiling, Covered, Exists, InCall, ThisCall, local, disk, AtFile
<1>0. counter \in Nat
  BY DEF TypeInv, TypeOK
<1>1. CASE ListFiles
  BY <1>1 DEF ListFiles, TypeInv, ListingInv
<1>2. CASE SwitchVersion
  BY <1>2 DEF SwitchVersion, TypeInv, ListingInv
<1>3. CASE SkipCompiled
  <2>1. Covered(source_files[counter])
    BY <1>3 DEF SkipCompiled, ThisName, ThisFile
  <2> QED
    BY <1>0, <1>3, <2>1 DEF SkipCompiled, NextFile, AtFile
<1>4. CASE CompileToJson
  <2>1. CASE phase' = "compiled" /\ UNCHANGED <<counter, rm_file>>
    BY <1>4, <2>1 DEF CompileToJson
  <2>2. CASE ListForRemoval /\ UNCHANGED phase
    <3>1. source_files[counter] \in rm_file' /\ rm_file \subseteq rm_file' /\ counter' = counter + 1
      BY <2>2 DEF ListForRemoval, NextFile, ThisFile
    <3> QED
      BY <1>0, <1>4, <2>2, <3>1 DEF CompileToJson, AtFile
  <2> QED
    BY <1>4, <2>1, <2>2 DEF CompileToJson
<1>5. CASE CopyBegins
  <2>1. \A n \in Names : ast_set[n] # NoAst => n # ThisName
    BY <1>5 DEF CopyBegins, TreeInv
  <2>2. ASSUME PreCompiling, NEW i \in 1..(counter - 1) PROVE Covered(source_files[i])'
    <3>1. source_files[i] \in Sources /\ NameOf[source_files[i]] # ThisName
      BY <1>5, SourceFacts DEF CopyBegins, InLoop, TypeInv, ListingInv, AtSource
    <3>2. ast_set'[NameOf[source_files[i]]] = ast_set[NameOf[source_files[i]]]
      BY <1>5, <3>1 DEF CopyBegins, TypeInv, TypeOK, Names
    <3>3. Covered(source_files[i])
      BY <2>2
    <3> QED
      BY <1>5, <3>2, <3>3 DEF CopyBegins
  <2> QED
    BY <1>5, <2>2 DEF CopyBegins
<1>6. CASE CopyEnds
  <2>1. ThisName \in Names
    BY <1>6, SourceFacts DEF CopyEnds, InLoop, TypeInv, ListingInv, AtSource
  <2>2. PICK f : f = ThisFile
    OBVIOUS
  <2>0. Covered(f)'
    <3>1. CASE f \in CopyFails
      BY <3>1
    <3>2. CASE ast_set' = [ast_set EXCEPT ![ThisName] = tmp_json]
      <4>1. tmp_json \in Ast
        BY <1>6 DEF CopyEnds, TypeInv, ListingInv
      <4>2. tmp_json # NoAst
        BY <4>1 DEF Ast, NoAst, Versions
      <4>3. NameOf[f] = ThisName
        BY <2>2 DEF ThisName
      <4>4. ast_set'[NameOf[f]] = tmp_json
        BY <2>1, <3>2, <4>3 DEF TypeInv, TypeOK
      <4> QED
        BY <4>2, <4>4
    <3> QED
      BY <1>6, <2>2, <3>1, <3>2 DEF CopyEnds
  <2>3. ASSUME PreCompiling, NEW i \in 1..(counter - 1) PROVE Covered(source_files[i])'
    <3>1. source_files[i] \in Sources /\ NameOf[source_files[i]] # ThisName
      BY <1>6, SourceFacts DEF CopyEnds, InLoop, TypeInv, ListingInv, AtSource
    <3>2. ast_set'[NameOf[source_files[i]]] = ast_set[NameOf[source_files[i]]]
      BY <1>6, <2>1, <3>1 DEF CopyEnds, TypeInv, TypeOK, Names
    <3>3. Covered(source_files[i])
      BY <2>3
    <3> QED
      BY <1>6, <3>2, <3>3 DEF CopyEnds
  <2>4. source_files' = source_files /\ counter' = counter + 1 /\ counter \in Nat
    BY <1>6 DEF CopyEnds, NextFile, TypeInv, TypeOK
  <2>5. ASSUME PreCompiling', NEW i \in 1..(counter' - 1) PROVE Covered(source_files[i])'
    <3>1. CASE i = counter
      <4>1. source_files'[i] = f
        BY <2>2, <2>4, <3>1 DEF ThisFile
      <4> QED
        BY <2>0, <4>1
    <3>2. CASE i \in 1..(counter - 1)
      BY <1>6, <2>3, <2>4, <2>5, <3>2 DEF CopyEnds
    <3> QED
      BY <2>4, <2>5, <3>1, <3>2
  <2> QED
    BY <1>6, <2>5 DEF CopyEnds
<1>7. CASE CopyNotStarted
  <2>1. PICK f : f = ThisFile
    OBVIOUS
  <2>2. Covered(f)'
    BY <1>7, <2>1 DEF CopyNotStarted
  <2>4. source_files' = source_files /\ counter' = counter + 1 /\ counter \in Nat
    BY <1>7 DEF CopyNotStarted, NextFile, TypeInv, TypeOK
  <2>5. ASSUME PreCompiling', NEW i \in 1..(counter' - 1) PROVE Covered(source_files[i])'
    <3>1. CASE i = counter
      <4>1. source_files'[i] = f
        BY <2>1, <2>4, <3>1 DEF ThisFile
      <4> QED
        BY <2>2, <4>1
    <3>2. CASE i \in 1..(counter - 1)
      BY <1>7, <2>4, <2>5, <3>2 DEF CopyNotStarted
    <3> QED
      BY <2>4, <2>5, <3>1, <3>2
  <2> QED
    BY <1>7, <2>5 DEF CopyNotStarted
<1>8. CASE NotCompiled
  BY <1>8 DEF NotCompiled, AtFile
<1>9. CASE TornAst
  BY <1>9 DEF TornAst
<1>10. CASE ParseAst
  BY <1>10 DEF ParseAst, AtFile
<1>11. CASE SkipFinished
  BY <1>11 DEF SkipFinished
<1>12. CASE BuildDataset
  BY <1>12 DEF BuildDataset
<1>13. CASE EndFile
  BY <1>13 DEF EndFile
<1>14. CASE EndLoop
  BY <1>14 DEF EndLoop
<1>15. CASE Clear
  BY <1>15 DEF Clear
<1>16. CASE Exit
  BY <1>16 DEF Exit
<1>17. CASE \E m \in Modes : Start(m)
  BY <1>17 DEF Start
<1>18. CASE Kill
  BY <1>18 DEF Kill
<1>19. CASE RunRmFile
  BY <1>19 DEF RunRmFile
<1>20. CASE UNCHANGED vars
  BY <1>20 DEF vars
<1> QED
  BY <1>1, <1>2, <1>3, <1>4, <1>5, <1>6, <1>7, <1>8, <1>9, <1>10, <1>11, <1>12, <1>13, <1>14, <1>15, <1>16,
     <1>17, <1>18, <1>19, <1>20 DEF Next, Process

\* Where cp works, PreCompile leaves no source without a tree or a line in
\* rm_file.sh.
THEOREM CompleteOrListedHolds == Spec => []CompleteOrListed
<1>1. Init => PassedInv
  BY DEF Init, PassedInv, PreCompiling, InCall
<1>2. TypeInv /\ PassedInv => CompleteOrListed
  BY DEF TypeInv, TypeOK, PassedInv, PreCompiling, Covered, InCall, CompleteOrListed, ThisCallEnded
<1> QED
  BY <1>1, <1>2, NextPassedInv, TypeInvHolds, TreeInvHolds, PTL DEF Spec

=============================================================================
