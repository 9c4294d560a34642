----------------------------- MODULE MCControl -----------------------------
EXTENDS ControlProps, TLC

CONSTANTS lexical, dynamic, compiled, var, home, other

MCCode == (lexical :> "lambda") @@ (dynamic :> "lambda") @@ (compiled :> "bytecode")
MCFunEnv == (lexical :> <<>>) @@ (dynamic :> <<>>) @@ (compiled :> <<var>>)
MCFunStructure == (lexical :> other) @@ (dynamic :> home) @@ (compiled :> home)
MCLexParams == (lexical :> <<var>>) @@ (dynamic :> <<>>) @@ (compiled :> <<>>)
MCSpecParams == (lexical :> <<>>) @@ (dynamic :> <<var>>) @@ (compiled :> <<>>)
=============================================================================
