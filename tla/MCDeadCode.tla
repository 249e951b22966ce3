----------------------------- MODULE MCDeadCode -----------------------------
(***************************************************************************)
(* Programs for FuncInfo and DeadCode.  One universe of instructions is    *)
(* fixed; the initial states are all the well-formed programs made of some *)
(* of them: f and g may call each other, f may read a global (and then     *)
(* lose that dead load), g may write or read one through a gep or call a   *)
(* declaration, and main holds a cycle of a phi and an increment and a     *)
(* call whose result is or is not used.                                    *)
(***************************************************************************)
EXTENDS DeadCode, TLC

Ops ==
       "m_call_f" :> {"f"}       @@ "m_add"    :> {"m_call_f", "const"}
    @@ "m_phi"    :> {"m_inc"}   @@ "m_inc"    :> {"m_phi", "const"}
    @@ "m_call_x" :> {"ext", "m_add"}          @@ "m_ret" :> {}
    @@ "f_call_g" :> {"g"}       @@ "f_ldglob" :> {"glob"}
    @@ "f_alloca" :> {}          @@ "f_store"  :> {"const", "f_alloca"}
    @@ "f_ret"    :> {}
    @@ "g_call_x" :> {"ext", "const"}
    @@ "g_call_f" :> {"f"}       @@ "g_gep"    :> {"glob", "const"}
    @@ "g_load"   :> {"g_gep"}   @@ "g_store"  :> {"const", "g_gep"}
    @@ "g_ret"    :> {}

MCInstr == DOMAIN Ops
MCFunction == {"main", "f", "g", "ext"}
MCDefined == {"main", "f", "g"}
MCOther == {"glob", "const"}

MCFunctionOf == [i \in MCInstr |->
    CASE i \in {"m_call_f", "m_add", "m_phi", "m_inc", "m_call_x", "m_ret"} -> "main"
      [] i \in {"f_call_g", "f_ldglob", "f_alloca", "f_store", "f_ret"} -> "f"
      [] OTHER -> "g"]

MCOpcode == [i \in MCInstr |->
    CASE i \in {"m_call_f", "m_call_x", "f_call_g", "g_call_f", "g_call_x"} -> "call"
      [] i \in {"m_add", "m_inc"} -> "binary"
      [] i = "m_phi" -> "phi"
      [] i \in {"m_ret", "f_ret", "g_ret"} -> "ret"
      [] i \in {"f_ldglob", "g_load"} -> "load"
      [] i \in {"f_store", "g_store"} -> "store"
      [] i = "f_alloca" -> "alloca"
      [] i = "g_gep" -> "gep"]

MCAddr == [i \in MCInstr |->
    CASE i \in {"g_load", "g_store"} -> "g_gep"
      [] i \in {"f_ldglob", "g_gep"} -> "glob"
      [] i = "f_store" -> "f_alloca"
      [] OTHER -> "const"]

\* Every block ends in its return; the rest of the universe is optional, in
\* the groups that one piece of source code gives rise to.
Returns == {"m_ret", "f_ret", "g_ret"}
Groups == {{"m_call_f"}, {"m_call_f", "m_add"}, {"m_phi", "m_inc"},
           {"m_call_f", "m_add", "m_call_x"}, {"f_call_g"}, {"f_ldglob"},
           {"f_alloca", "f_store"}, {"g_call_f"}, {"g_call_x"}, {"g_gep", "g_load"},
           {"g_gep", "g_store"}}
MCPrograms == {Returns \cup UNION G : G \in SUBSET Groups}

\* The program: any of these, its use lists as the constructors leave them.
MCProgram ==
    /\ insts \in MCPrograms
    /\ operands = Ops
    /\ uses = [v \in Value |-> {i \in insts : v \in Ops[i]}]

MCInit == MCProgram /\ Init
MCSpec == MCInit /\ [][Next]_vars /\ WF_vars(Run)
=============================================================================
