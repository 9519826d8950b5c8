-------------------------- MODULE MCLMStoreProgram --------------------------
(* Instances of LMStoreProgram and CompiledProgram: small programs. *)
EXTENDS CompiledProgram

Block(ref, id, size) == [ref |-> ref, id |-> id, size |-> size]

\* Every block has the same size.
EqualGlobals == Block(0, 100, 4)
EqualMain == Block(1, 1, 4)
EqualFunctions == {Block(ref, id, 4) : ref \in 2..4, id \in 2..4}

\* The block of the globals is larger than that of a function.
LargeGlobals == Block(0, 100, 8)

\* The call graphs of main and three functions, two of which may call each
\* other, and one itself.
AnyGraph == SUBSET {<<1, 2>>, <<1, 3>>, <<1, 4>>, <<2, 3>>, <<2, 4>>, <<3, 2>>, <<3, 4>>, <<4, 4>>}
=============================================================================
