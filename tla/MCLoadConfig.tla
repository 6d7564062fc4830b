----------------------------- MODULE MCLoadConfig -----------------------------
(***************************************************************************)
(* All configurations of three sections with up to two entries, where the  *)
(* section names are the classes in order or the first class twice.        *)
(***************************************************************************)
EXTENDS LoadConfig

MCNames == {"k", COPY}

Entry == {[key |-> "k", parent |-> NULL]}
           \cup {[key |-> COPY, parent |-> c] : c \in Classes}

EntryLists == {<< >>} \cup {<<e>> : e \in Entry} \cup {<<e, f>> : e, f \in Entry}

AllConfigs ==
  {<<[name |-> "A", entries |-> x], [name |-> "B", entries |-> y],
     [name |-> last, entries |-> z]>> :
       x, y, z \in EntryLists, last \in {"A", "C"}}

AcyclicConfigs == {cfg \in AllConfigs : Acyclic(cfg)}
=============================================================================
