--------------------------------- MODULE Att ---------------------------------
(***************************************************************************)
(* Attributes (src/att.c).  An attribute has a name, a list of alternative *)
(* values, a cursor into that list and the name of the configuration       *)
(* section it came from.                                                   *)
(*                                                                         *)
(* The list is a sequence.  The cursor, a pointer to a list cell in the    *)
(* code, is the position of that cell; NoCell is the null pointer, which   *)
(* att_next leaves behind when it runs off the end of the list.            *)
(***************************************************************************)
EXTENDS Integers, Sequences

CONSTANT NULL           \* the null pointer, as an origin or a result

NoCell == 0

att_new(name, value, origin) ==
  [name |-> name, alternatives |-> <<value>>, current |-> 1, origin |-> origin]

\* Defective: the copy's cursor is on the first cell.
att_clone_rewound(att) == [att EXCEPT !.current = 1]

\* The copy's cursor is found by counting cells up to the original's, so it
\* stands at the same position (NoCell included).
att_clone(att) ==
  [name |-> att.name, alternatives |-> att.alternatives,
   current |-> att.current, origin |-> att.origin]

att_replace_value(att, value, origin) ==
  [name |-> att.name, alternatives |-> <<value>>, current |-> 1, origin |-> origin]

\* The cursor and the origin stay as they are.
att_add_value(att, value) ==
  [att EXCEPT !.alternatives = Append(@, value)]

\* Defective: the cursor stays.
att_rewind_not(att) == att

att_rewind(att) == [att EXCEPT !.current = 1]

att_next(att) ==
  [att EXCEPT !.current = IF @ = NoCell \/ @ = Len(att.alternatives)
                          THEN NoCell ELSE @ + 1]

\* What att_next returns.
att_next_ok(att) == att_next(att).current # NoCell
=============================================================================
