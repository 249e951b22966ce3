----------------------------- MODULE MCFuncInfo -----------------------------
(***************************************************************************)
(* FuncInfo on every call graph of main, f, g, h and the declaration ext   *)
(* in which f, g and h call each other or themselves in any way, h may     *)
(* call ext, g may read or write a global, f may store to a local array,   *)
(* and main calls f.  Every value is a tuple, so that all compare.         *)
(***************************************************************************)
EXTENDS FuncInfo, Sequences

MCMain == <<"main">>
MCDefined == {<<"main">>, <<"f">>, <<"g">>, <<"h">>}
MCFunction == MCDefined \cup {<<"ext">>}
MCOther == {<<"glob">>, <<"const">>}
MCArrayParam == {<<"ext">>}

\* A call is the pair of its caller and callee; other instructions are triples.
MainCall == <<"main", "f">>
Calls == ({"f", "g", "h"} \X {"f", "g", "h"}) \cup {<<"h", "ext">>}
LoadGlobal == <<"g", "load", "">>
StoreGlobal == <<"g", "store", "">>
Alloca == <<"f", "alloca", "">>
Gep == <<"f", "gep", "">>
StoreLocal == <<"f", "store", "">>
LocalArray == {Alloca, Gep, StoreLocal}
MCInstr == Calls \cup LocalArray \cup {MainCall, LoadGlobal, StoreGlobal}

MCFunctionOf == [i \in MCInstr |-> <<i[1]>>]
MCOpcode == [i \in MCInstr |-> IF Len(i) = 2 THEN "call" ELSE i[2]]
MCAddr == [i \in MCInstr |->
    CASE i = StoreLocal -> Gep
      [] i = Gep -> Alloca
      [] i \in {LoadGlobal, StoreGlobal} -> <<"glob">>
      [] OTHER -> <<"const">>]
MCOperands == [i \in MCInstr |-> IF Len(i) = 2 THEN {<<i[2]>>} ELSE {MCAddr[i]}]

\* The bodies of f and g besides their calls.
MCInit ==
    /\ \E C \in SUBSET Calls,
          A \in {{}, {LoadGlobal}, {StoreGlobal}, LocalArray} :
          insts = {MainCall} \cup C \cup A
    /\ operands = MCOperands
    /\ uses = [v \in Value |-> {i \in insts : v \in MCOperands[i]}]
    /\ FIInit

MCSpec ==
    /\ MCInit
    /\ [][FINext]_<<irVars, fiVars>>
    /\ WF_<<irVars, fiVars>>(FINext)
=============================================================================
