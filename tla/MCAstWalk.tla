------------------------------ MODULE MCAstWalk ------------------------------
(* An instance of AstWalk for TLC: two names, functions without a name, a    *)
(* library, a name that a contract, a function, a modifier, a structure and  *)
(* a variable may share.                                                     *)
EXTENDS AstWalk

MCNodeKinds ==
    {<<"SourceUnit", "">>, <<"ContractDefinition", "a">>, <<"ContractDefinition", "lib">>, <<"FunctionDefinition", "a">>,
     <<"FunctionDefinition", "">>, <<"StructDefinition", "a">>, <<"VariableDeclaration", "a">>,
     <<"ModifierDefinition", "a">>, <<"VariableDeclaration", "b">>, <<"VariableDeclarationStatement", "">>,
     <<"Assignment", "">>, <<"FunctionCall", "">>, <<"Identifier", "">>}
MCLibraries == {"lib"}

=============================================================================
