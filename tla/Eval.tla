-------------------------------- MODULE Eval --------------------------------
(***************************************************************************)
(* Evaluation with its memory: values that cache their results (value.c),  *)
(* the interpreter with its stack (interpreter.c), and the composers of    *)
(* pathcomp.c that use both.  Pathcomp says what an evaluation returns;    *)
(* here each result is a block of memory that some value owns.             *)
(*                                                                         *)
(* The library's memory is one record m, which the operators map to its    *)
(* successor:                                                              *)
(*   cell    the texts in the allocated blocks;                            *)
(*   comp    the composers behind the client's pointers, or NULL; a value  *)
(*           is as in Pathcomp, with the block of its result, and a Lua    *)
(*           block may be one that does not parse;                         *)
(*   stack   the number of values on the Lua stack, for each C function    *)
(*           that is active: the client's calls, then the callbacks; it is *)
(*           empty when there is no interpreter;                           *)
(*   metas   the classes whose metatables are registered;                  *)
(*   freed   the blocks that have been freed in this call;                 *)
(*   wild    whether freed memory has been read or freed.                  *)
(***************************************************************************)
EXTENDS Pathcomp, FiniteSets, SequencesExt

CONSTANTS Composers, Classes, FromConfig, Values

\* Let(e, LAMBDA x : f(x)) is f(e), with e written and evaluated once.
Let(x, In(_)) == In(x)

\* A block of the value of an attribute; the one it replaces may still exist.
alloc(m, c, name, text) ==
  LET p == CHOOSE p \in {<<c, name, 1>>, <<c, name, 2>>} : p \notin DOMAIN m.cell
  IN  [m |-> [m EXCEPT !.cell = (p :> text) @@ @], p |-> p]

free(m, p) ==
  IF p = NULL THEN m
  ELSE [m EXCEPT !.cell = [q \in DOMAIN @ \ {p} |-> @[q]], !.freed = @ \cup {p},
                 !.wild = @ \/ p \notin DOMAIN m.cell]

interpreter_get_state(m) == IF m.stack = << >> THEN [m EXCEPT !.stack = <<0>>] ELSE m

\* The values pushed, less the values popped, by the active function.
lua_push(m, n) == [m EXCEPT !.stack[Len(m.stack)] = @ + n]

Value(m, c, i) == m.comp[c].attributes[i].alternatives[m.comp[c].attributes[i].current]
SetResult(m, c, i, p) ==
  [m EXCEPT !.comp[c].attributes[i].alternatives[m.comp[c].attributes[i].current].result = p]
Find(m, c, name) ==
  IF HasAtt(m.comp[c].attributes, name) THEN pathcomp_retrieve_att(m.comp[c].attributes, name) ELSE 0

\* free(val->result), and a copy of text, if any, in its place.
Store(m, c, i, text) ==
  Let(free(m, Value(m, c, i).result), LAMBDA m1 :
    IF text = NULL THEN SetResult(m1, c, i, NULL)
    ELSE Let(alloc(m1, c, m.comp[c].attributes[i].name, text), LAMBDA new : SetResult(new.m, c, i, new.p)))

\* What Lua makes of an integer: the text, as for value_eval_int.
value_eval_i(m, c, i) == Store(m, c, i, value_eval_int(Value(m, c, i)))

\* The body of a Lua block reads its attributes one by one through the
\* metatable's callback and concatenates what it gets; depth calls are active.
RECURSIVE value_eval_l(_, _, _, _), Reads(_, _, _, _, _), value_push(_, _, _, _)

\* pathcomp_eval_callback for self.name: its stack holds self and the name.
Callback(m, c, name, depth) ==
  Let(Find(m, c, name), LAMBDA i :
    IF i = 0 THEN [m |-> m, text |-> NULL]
    ELSE Let(value_push([m EXCEPT !.stack = Append(@, 2)], c, i, depth), LAMBDA r :
           [m |-> [r.m EXCEPT !.stack = Front(@)], text |-> r.text]))

Reads(m, c, refs, got, depth) ==
  IF refs = << >> THEN [m |-> m, got |-> got]
  ELSE Let(Callback(m, c, Head(refs), depth), LAMBDA r : Reads(r.m, c, Tail(refs), Append(got, r.text), depth))

Concatenated(got) ==
  IF Len(got) = 1 THEN got[1] ELSE IF NULL \in Range(got) THEN NULL ELSE FlattenSeq(got)

\* lua_pcall of the block: the function and its argument are replaced by the
\* result or, after an error, by the message.
Pcall(m, c, val, depth) ==
  LET fails == depth >= MaxCalls \/ (val.refs # << >> /\ m.comp[c].name \notin m.metas)
  IN  IF fails THEN [m |-> lua_push(m, -1), text |-> NULL]
      ELSE Let(Reads(m, c, val.refs, << >>, depth + 1), LAMBDA r :
             [m |-> lua_push(r.m, -1), text |-> Concatenated(r.got)])

\* luaL_loadstring pushes the function or a message.
Loaded(m) == lua_push(interpreter_get_state(m), 1)

\* Defective: a message about a block that does not parse stays on the stack.
value_eval_l_keep(m, c, i, depth) ==
  IF ~Value(m, c, i).parses THEN Store(Loaded(m), c, i, NULL)
  ELSE Let(Pcall(lua_push(Loaded(m), 1), c, Value(m, c, i), depth), LAMBDA call :
         Store(lua_push(call.m, -1), c, i, call.text))

\* Defective: a failed call keeps the result of an earlier one.
value_eval_l_stale(m, c, i, depth) ==
  IF ~Value(m, c, i).parses THEN Store(lua_push(Loaded(m), -1), c, i, NULL)
  ELSE Let(Pcall(lua_push(Loaded(m), 1), c, Value(m, c, i), depth), LAMBDA call :
         IF call.text = NULL THEN lua_push(call.m, -1) ELSE lua_push(Store(call.m, c, i, call.text), -1))

\* value_eval_lua: after the function come the userdata and its metatable,
\* which lua_setmetatable takes off again.
value_eval_l(m, c, i, depth) ==
  IF ~Value(m, c, i).parses THEN Store(lua_push(Loaded(m), -1), c, i, NULL)
  ELSE Let(Pcall(lua_push(lua_push(lua_push(Loaded(m), 1), 1), -1), c, Value(m, c, i), depth), LAMBDA call :
         lua_push(Store(call.m, c, i, call.text), -1))

Text(m, p) == IF p = NULL THEN NULL ELSE m.cell[p]

\* att_push and value_push: what is pushed, as a text.
value_push(m, c, i, depth) ==
  LET val == Value(m, c, i)
  IN  CASE val.type = "string" -> [m |-> lua_push(m, 1), text |-> Text(m, val.result)]
        [] val.type = "int"    -> [m |-> lua_push(m, 1), text |-> value_eval_int(val)]
        [] val.type = "lua"    -> Let(value_eval_l(m, c, i, depth), LAMBDA ev :
                                    [m |-> lua_push(ev, 1), text |-> Text(ev, Value(ev, c, i).result)])

\* pathcomp_eval_nocopy: the block of the result is p.
pathcomp_eval_nocopy(m, c, name) ==
  LET evaluated(i) == CASE Value(m, c, i).type = "string" -> m
                        [] Value(m, c, i).type = "int"    -> value_eval_i(m, c, i)
                        [] Value(m, c, i).type = "lua"    -> value_eval_l(m, c, i, 0)
  IN  Let(Find(m, c, name), LAMBDA i :
        IF i = 0 THEN [m |-> m, p |-> NULL]
        ELSE Let(evaluated(i), LAMBDA ev : [m |-> ev, p |-> Value(ev, c, i).result]))

\* At the end of a call no pointer into freed memory is left.
Returns(m) == [m EXCEPT !.freed = {}]

\* Without a compose the root keeps its slash, as pathcomp.h:135-137 says; for
\* README.md:525 "the `root` attribute is returned".
Joined(r, s) == (IF r # NULL /\ r # << >> THEN Append(r, "/") ELSE << >>) \o (IF s # NULL THEN s ELSE << >>)

\* pathcomp_yield evaluates root first, and reads it after it has evaluated
\* compose; garbage is what it finds in a block that is freed by then.
yield_path(m, c, garbage) ==
  Let(pathcomp_eval_nocopy(m, c, "root"), LAMBDA root :
  Let(pathcomp_eval_nocopy(Returns(root.m), c, "compose"), LAMBDA compose :
  Let(Joined(IF root.p \in compose.m.freed THEN garbage ELSE Text(compose.m, root.p), Text(compose.m, compose.p)), LAMBDA path :
    [m |-> compose.m, path |-> IF path = << >> THEN NULL ELSE path])))

-----------------------------------------------------------------------------
(***************************************************************************)
(* Making and destroying values and composers.                             *)
(***************************************************************************)
\* value_new_auto and value_new_int; only strings have a result at once.
value_new(m, c, name, val) ==
  IF val.type # "string" THEN [m |-> m, val |-> val @@ [result |-> NULL]]
  ELSE Let(alloc(m, c, name, val.text), LAMBDA new : [m |-> new.m, val |-> val @@ [result |-> new.p]])

value_clone(m, c, name, val) ==
  IF val.result = NULL THEN [m |-> m, val |-> val]
  ELSE Let(alloc(m, c, name, m.cell[val.result]), LAMBDA new : [m |-> new.m, val |-> [val EXCEPT !.result = new.p]])

value_free(m, val) == free(m, val.result)

\* list_transform: the values of the attributes, each with one alternative, are
\* made anew or cloned.
list_transform(clone, m, c, atts) ==
  LET made(r, att) == IF clone THEN value_clone(r.m, c, att.name, att.alternatives[1])
                      ELSE value_new(r.m, c, att.name, att.alternatives[1])
  IN  FoldLeft(LAMBDA r, att : Let(made(r, att), LAMBDA n :
                 [m |-> n.m, atts |-> Append(r.atts, [att EXCEPT !.alternatives = <<n.val>>])]),
               [m |-> m, atts |-> << >>], atts)

att_free(m, att) == FoldLeft(value_free, m, att.alternatives)

\* pathcomp_new; the metatable is left in the registry.
new_composer(m, c, class, atts) ==
  Let(list_transform(FALSE, interpreter_get_state(m), c, atts), LAMBDA r :
    [lua_push(lua_push(lua_push(lua_push(r.m, 1), 1), -1), -1) EXCEPT
       !.comp[c] = pathcomp_new(class, r.atts), !.metas = @ \cup {class}])

clone_composer(m, c, d) ==
  Let(list_transform(TRUE, m, d, m.comp[c].attributes), LAMBDA r :
    [r.m EXCEPT !.comp[d] = [pathcomp_clone(m.comp[c]) EXCEPT !.attributes = r.atts]])

free_composer(m, c) == [FoldLeft(att_free, m, m.comp[c].attributes) EXCEPT !.comp[c] = NULL]

\* pathcomp_set: the values that are replaced are freed.
set_value(m, c, name, val) ==
  Let(value_new(m, c, name, val), LAMBDA v :
  Let(Find(m, c, name), LAMBDA i :
    [(IF i = 0 THEN v.m ELSE att_free(v.m, m.comp[c].attributes[i])) EXCEPT !.comp[c] = pathcomp_set(m.comp[c], name, v.val)]))

\* pathcomp_cleanup without the configuration; interpreter_cleanup asserts that
\* the stack is empty.
interpreter_cleanup(m) == [m EXCEPT !.stack = << >>, !.metas = {}]
=============================================================================
