------------------------------- MODULE Pathcomp -------------------------------
(***************************************************************************)
(* The composer object (src/pathcomp.c) as a value, and the operations on  *)
(* it as functions from composer to composer.  The state machines of this  *)
(* project (Composer, LoadConfig, Standalone) are built from them.         *)
(*                                                                         *)
(* A value is one of                                                       *)
(*   [type |-> "string", text |-> t]      the text t                       *)
(*   [type |-> "int", integer |-> i]      the integer i                    *)
(*   [type |-> "lua", refs |-> <<n...>>]  a Lua block that concatenates    *)
(*                                        the attributes self.n ...        *)
(* A text is a sequence of atoms.  A Lua block that reads one attribute    *)
(* and returns it is the case of one reference.                            *)
(***************************************************************************)
EXTENDS Att, TLC

CONSTANTS Names,        \* the attribute names in use, "root" and "compose" among them
          MaxCalls      \* nested Lua calls before "C stack overflow"

ASSUME MaxCallsAssumption == MaxCalls \in Nat

HasAtt(atts, name) == \E i \in DOMAIN atts : atts[i].name = name

\* The position of the first attribute with the given name.
pathcomp_retrieve_att(atts, name) ==
  CHOOSE i \in DOMAIN atts :
    /\ atts[i].name = name
    /\ \A j \in 1..(i - 1) : atts[j].name # name

Inherited(class, origin) == origin # NULL /\ origin # class

\* Defective: alternatives always accumulate.
AddIf_always(class, att, origin) == "ADD"

\* Defective: own values do not replace inherited ones.
AddIf_no_replace(class, att, origin) ==
  IF Inherited(class, att.origin) = Inherited(class, origin) THEN "ADD" ELSE "NONE"

\* Defective: inherited values replace own ones as well.
AddIf_last(class, att, origin) ==
  IF Inherited(class, att.origin) = Inherited(class, origin) THEN "ADD" ELSE "REPLACE"

\* How PATHCOMP_ACTION_ADD_IF is decided for an attribute that exists.
AddIf(class, att, origin) ==
  LET old == Inherited(class, att.origin)
      new == Inherited(class, origin)
  IN  CASE new /\ ~old -> "NONE"
        [] ~new /\ old -> "REPLACE"
        [] OTHER       -> "ADD"

pathcomp_add_or_replace(class, atts, name, value, origin, action) ==
  IF ~HasAtt(atts, name)
  THEN Append(atts, att_new(name, value, origin))
  ELSE LET i  == pathcomp_retrieve_att(atts, name)
           do == IF action = "ADD_IF" THEN AddIf(class, atts[i], origin) ELSE action
       IN  CASE do = "REPLACE" ->
                  [atts EXCEPT ![i] = att_replace_value(@, value, origin)]
             [] do = "ADD"  -> [atts EXCEPT ![i] = att_add_value(@, value)]
             [] do = "NONE" -> atts

-----------------------------------------------------------------------------
(* Creating, copying and modifying composers *)

\* pathcomp_new after pathcomp_make_from_config has built the attributes.
pathcomp_new(class, atts) ==
  [name |-> class, attributes |-> atts, done |-> FALSE, started |-> FALSE]

pathcomp_clone(comp) ==
  [name       |-> comp.name,
   attributes |-> [i \in DOMAIN comp.attributes |-> att_clone(comp.attributes[i])],
   done       |-> comp.done,
   started    |-> comp.started]

\* pathcomp_set and pathcomp_set_int; the iterator state is not touched.
pathcomp_set(comp, name, value) ==
  [comp EXCEPT !.attributes =
     pathcomp_add_or_replace(comp.name, @, name, value, NULL, "REPLACE")]

\* pathcomp_add and pathcomp_add_int
pathcomp_add(comp, name, value) ==
  [comp EXCEPT !.attributes =
     pathcomp_add_or_replace(comp.name, @, name, value, NULL, "ADD")]

-----------------------------------------------------------------------------
(* Iteration *)

pathcomp_rewind(comp) ==
  [name       |-> comp.name,
   attributes |-> [i \in DOMAIN comp.attributes |-> att_rewind(comp.attributes[i])],
   done       |-> FALSE,
   started    |-> FALSE]

\* The loop reaches attribute i when att_next has failed for all before it.
Reached(atts, i) == \A j \in 1..(i - 1) : ~att_next_ok(atts[j])

Turn(atts) ==
  [i \in DOMAIN atts |->
     IF ~Reached(atts, i) THEN atts[i]
     ELSE IF att_next_ok(atts[i]) THEN att_next(atts[i])
     ELSE att_rewind(att_next(atts[i]))]

\* Defective: done as soon as the first attribute has wrapped around.
pathcomp_next_early(comp) ==
  [comp EXCEPT !.attributes = IF comp.done THEN @ ELSE Turn(@),
               !.done = @ \/ comp.attributes = << >> \/ ~att_next_ok(comp.attributes[1])]

\* Defective: never done.
pathcomp_next_endless(comp) == [comp EXCEPT !.attributes = Turn(@)]

pathcomp_next(comp) ==
  IF comp.done THEN comp
  ELSE [name       |-> comp.name,
        attributes |-> Turn(comp.attributes),
        done       |-> \A i \in DOMAIN comp.attributes : ~att_next_ok(comp.attributes[i]),
        started    |-> comp.started]

\* Defective: leaves the first combination untried.
FindMove_eager(comp) == [pathcomp_next(comp) EXCEPT !.started = TRUE]

\* Defective: stays on the combination that has been tried.
FindMove_idle(comp) == [comp EXCEPT !.started = TRUE]

\* What the loop of pathcomp_find makes of the composer before it looks.
FindMove(comp) ==
  LET next == IF comp.started THEN pathcomp_next(comp) ELSE comp
  IN  [next EXCEPT !.started = TRUE]

-----------------------------------------------------------------------------
(* Evaluation *)

\* The texts one after the other.
Concat(texts) ==
  LET C[k \in 0..Len(texts)] == IF k = 0 THEN << >> ELSE C[k - 1] \o texts[k]
  IN  C[Len(texts)]

\* The text that a Lua block returns; self gives the texts of the attributes it
\* reads.  Concatenating nil is a Lua error, and an error makes the result NULL.
value_eval_lua(val, self) ==
  LET parts == [k \in DOMAIN val.refs |-> self[val.refs[k]]]
  IN  IF \E k \in DOMAIN parts : parts[k] = NULL THEN NULL ELSE Concat(parts)

value_eval_int(val) == <<ToString(val.integer)>>

value_eval(val, self) ==
  CASE val.type = "string" -> val.text
    [] val.type = "int"    -> value_eval_int(val)
    [] val.type = "lua"    -> value_eval_lua(val, self)

\* att_eval: the current alternative, if there is one.
att_eval(att, self) ==
  IF att.current = NoCell THEN NULL
  ELSE value_eval(att.alternatives[att.current], self)

\* The text of every attribute.  With no nested call left, a Lua block fails
\* whatever it reads.
Texts(atts) ==
  LET T[d \in 0..MaxCalls] ==
        [n \in Names |->
           IF ~HasAtt(atts, n) THEN NULL
           ELSE LET att == atts[pathcomp_retrieve_att(atts, n)]
                IN  IF d = 0 /\ att.current # NoCell
                             /\ att.alternatives[att.current].type = "lua"
                    THEN NULL
                    ELSE att_eval(att, IF d = 0 THEN << >> ELSE T[d - 1])]
  IN  T[MaxCalls]

pathcomp_eval(comp, name) == Texts(comp.attributes)[name]

\* The code holds a pointer to the result of root while it evaluates compose.
\* When root is a Lua block with a result and compose reads it, that result is
\* freed in between: that case is in Eval.
pathcomp_yield(comp) ==
  LET Join(root, compose) == (IF root # NULL /\ root # << >> THEN Append(root, "/") ELSE << >>)
                             \o (IF compose # NULL THEN compose ELSE << >>)
      Named(text) == IF text = << >> THEN NULL ELSE text
  IN  Named(Join(pathcomp_eval(comp, "root"), pathcomp_eval(comp, "compose")))
=============================================================================
