---------------------------- MODULE MCModuleLoader ----------------------------
(***************************************************************************)
(* Instances of ModuleLoader: every program with at most MaxEdges          *)
(* references among the modules and at most one defective module.          *)
(***************************************************************************)
EXTENDS LoaderInvariant

CONSTANT MaxEdges

MCEdges == {e \in Edge : e.src \notin Builtins}

MCDefects ==
  {d \in [Modules -> Defects] :
     /\ \A b \in Builtins : d[b] = "none"
     /\ Cardinality({m \in Modules : d[m] # "none"}) <= 1}

MCPrograms ==
  [edges : {{}} \cup {{f[i] : i \in 1..MaxEdges} : f \in [1..MaxEdges -> MCEdges]},
   defect : MCDefects]
===============================================================================
