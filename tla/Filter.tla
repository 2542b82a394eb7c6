------------------------------- MODULE Filter -------------------------------
(***************************************************************************)
(* Event filters (lttv/filter.c): one loop over the text of a filter       *)
(* builds a binary tree of comparisons, which the readers then evaluate    *)
(* for each event.  A text is a sequence of tokens: a name, a value, a     *)
(* bracket, an operator, a dot or a quote.  Trees are numbered in the      *)
(* order in which they are allocated.                                      *)
(***************************************************************************)
EXTENDS Integers, Sequences, SequencesExt

CONSTANT Number(_)  \* atoi

(* ------------------------- simple expressions ---------------------------- *)

NULL == "NULL"
UNDEFINED == <<>>  \* LTTV_FILTER_UNDEFINED

\* lttv_simple_expression_new, of which the value is not initialized.
SimpleExpression == [field |-> UNDEFINED, op |-> NULL, value |-> NULL]

StateFields == {"pid", "ppid", "creation_time", "insertion_time", "process_name", "thread_brand",
                "execution_mode", "execution_submode", "process_status", "cpu"}
EventFields == {"name", "subname", "category", "time", "tsc", "target_pid", "field"}

\* The name that a component of a path is; none is of several tokens.
Name(component) == IF Len(component) = 1 THEN component[1] ELSE ""

IsField(path) ==
  \/ path[1] \in {"trace", "tracefile", "channel"} /\ path[2] = "name"
  \/ path[1] = "state" /\ path[2] \in StateFields
  \/ path[1] = "event" /\ path[2] \in EventFields

\* How many components of a path are removed from it.
Consumed(path) ==
  CASE Len(path) < 2 -> 0
    [] Len(path) >= 2 /\ path[1] = "traceset" -> 1
    [] Len(path) > 2 /\ path[1] = "event" /\ path[2] = "field" -> 3
    [] OTHER -> 2

\* How a field is compared.
Kind(field) ==
  CASE field = UNDEFINED -> NULL
    [] field[2] \in {"pid", "ppid", "cpu", "target_pid"} -> "uint"
    [] field[2] \in {"creation_time", "insertion_time", "time"} -> "ltttime"
    [] field[2] = "tsc" -> "uint64"
    [] field[2] \in {"category", "field"} -> NULL
    [] field = <<"event", "name">> -> "quarks"
    [] OTHER -> "quark"

Comparators == {"=", "!=", "<", "<=", ">", ">="}
Known(field) ==
  CASE Kind(field) = NULL -> {} [] Kind(field) \in {"quark", "quarks"} -> {"=", "!="} [] OTHER -> Comparators

\* An unknown field or operator leaves the expression as it is.
lttv_simple_expression_assign_field(path, se) ==
  IF Len(path) >= 2 /\ IsField(path) THEN [se EXCEPT !.field = SubSeq(path, 1, 2)] ELSE se

lttv_simple_expression_assign_operator(se, op) ==
  IF op \in Known(se.field) THEN [se EXCEPT !.op = op] ELSE se

\* `value' is the tokens of the value.  The parts of a name are on the sides of
\* its first dot, those of a time on the sides of its only one.
NoQuark == <<>>
Before(value) == SelectInSeq(value, LAMBDA token : token = ".") - 1
AfterDot(value) == SubSeq(value, Before(value) + 2, Len(value))
BeforeDot(value) == SubSeq(value, 1, Before(value))
HasDot(value) == Contains(value, ".")

lttv_simple_expression_assign_value(se, value) ==
  CASE Kind(se.field) = "quark" -> [se EXCEPT !.value = value]
    [] Kind(se.field) = "quarks" ->
         [se EXCEPT !.value = IF HasDot(value) THEN <<BeforeDot(value), AfterDot(value)>> ELSE <<NoQuark, value>>]
    [] Kind(se.field) = "uint64" -> [se EXCEPT !.value = Number(value)]
    [] Kind(se.field) = "uint" -> [se EXCEPT !.value = Number(value) % (2 ^ 16)]
    [] Kind(se.field) = "ltttime" /\ ~HasDot(AfterDot(value)) ->
         [se EXCEPT !.value = IF HasDot(value)
                              THEN [sec |-> Number(BeforeDot(value)), nsec |-> Number(AfterDot(value))]
                              ELSE [sec |-> Number(value), nsec |-> 0]]
    [] OTHER -> se

\* lttv_apply_op_*, of a datum and a value.
Compared(kind, r, v) ==
  IF kind # "ltttime" THEN r - v ELSE IF r.sec # v.sec THEN r.sec - v.sec ELSE r.nsec - v.nsec
lttv_apply_op_eq(kind, r, v) == IF kind = "quarks" THEN r[1] \in {NoQuark, v[1]} /\ r[2] = v[2] ELSE r = v
lttv_apply_op_ne(kind, r, v) == IF kind = "quarks" THEN ~(r[1] \in {NoQuark, v[1]} /\ r[2] = v[2]) ELSE r # v
lttv_apply_op_lt(kind, r, v) == Compared(kind, r, v) < 0
lttv_apply_op_le(kind, r, v) == Compared(kind, r, v) <= 0
lttv_apply_op_gt(kind, r, v) == Compared(kind, r, v) > 0
lttv_apply_op_ge(kind, r, v) == Compared(kind, r, v) >= 0
Apply(op, kind, r, v) ==
  CASE op = "=" -> lttv_apply_op_eq(kind, r, v) [] op = "!=" -> lttv_apply_op_ne(kind, r, v)
    [] op = "<" -> lttv_apply_op_lt(kind, r, v) [] op = "<=" -> lttv_apply_op_le(kind, r, v)
    [] op = ">" -> lttv_apply_op_gt(kind, r, v) [] op = ">=" -> lttv_apply_op_ge(kind, r, v)

(* -------------------------------- trees ---------------------------------- *)

NoTree == 0

\* lttv_filter_tree_new, with the operator it is given.
Tree(node) == [node |-> node, left |-> "idle", right |-> "idle", l_child |-> NULL, r_child |-> NULL]

Left(trees, t, element, child) == [trees EXCEPT ![t].left = element, ![t].l_child = child]
Right(trees, t, element, child) == [trees EXCEPT ![t].right = element, ![t].r_child = child]
Put(trees, side, t, element, child) ==
  IF side = "left" THEN Left(trees, t, element, child) ELSE Right(trees, t, element, child)

RECURSIVE Rightmost(_, _)
Rightmost(trees, t) == IF trees[t].right = "idle" THEN t ELSE Rightmost(trees, trees[t].r_child)

(* ------------------------- lttv_filter_update ---------------------------- *)

\* The local variables; nest_quotes is "closed" when the character after the
\* closing quote has still to be taken.
Start ==
  [trees |-> <<Tree("")>>, tree_stack |-> <<1>>, subtree |-> NoTree, not |-> FALSE, p_nesting |-> 0,
   a_field_path |-> <<>>, a_field_component |-> <<>>, a_simple_expression |-> SimpleExpression,
   nest_quotes |-> "no", ret |-> NULL]

\* Mutant: the `!' is not forgotten once its tree is made.
NegateAgain(l, side, t) ==
  IF l.not
  THEN [l EXCEPT !.trees = Put(Append(@, Tree("!")), side, t, "node", Len(@) + 1)]
  ELSE l

\* A tree for the `!' that was read, if one was, at a side of tree t; and the tree
\* whose side is then free.
Negate(l, side, t) ==
  IF l.not
  THEN [l EXCEPT !.trees = Put(Append(@, Tree("!")), side, t, "node", Len(@) + 1), !.not = FALSE]
  ELSE l
Negated(l, t) == IF l.not THEN Len(l.trees) + 1 ELSE t

\* Puts the group that was read, or else the comparison, at a side of tree t.
PutOperand(l, side, t) ==
  IF l.subtree # NoTree
  THEN [l EXCEPT !.trees = Put(@, side, t, "node", l.subtree), !.subtree = NoTree]
  ELSE [l EXCEPT !.trees = Put(@, side, t, "leaf",
                               lttv_simple_expression_assign_value(l.a_simple_expression, l.a_field_component)),
                 !.a_field_component = <<>>, !.a_simple_expression = SimpleExpression]
PutNegatedOperand(l, side, t) == PutOperand(Negate(l, side, t), side, Negated(l, t))

LogicalOperator(l, op) ==
  LET t1 == Rightmost(l.trees, Last(l.tree_stack))
      t2 == Len(l.trees) + 1
  IN  PutNegatedOperand([l EXCEPT !.trees = Right(Append(@, Tree(op)), t1, "node", t2)], "left", t2)

Not(l) == [l EXCEPT !.not = TRUE]

OpenGroup(l) ==
  LET t1 == Len(l.trees) + 1
  IN  Negate([l EXCEPT !.p_nesting = @ + 1, !.trees = Append(@, Tree("")), !.tree_stack = Append(@, t1)],
             "right", t1)

CloseGroup(l) ==
  LET top == Last(l.tree_stack)
  IN  IF l.p_nesting = 0 \/ Len(l.tree_stack) < 2 THEN [l EXCEPT !.ret = "FALSE"]
      ELSE [PutNegatedOperand(l, "right", Rightmost(l.trees, top)) EXCEPT
              !.p_nesting = @ - 1, !.subtree = top, !.tree_stack = Front(@)]

\* The assertion that the path is empty fails if components are left.
Compare(l, op) ==
  LET path == Append(l.a_field_path, Name(l.a_field_component))
      se == lttv_simple_expression_assign_field(path, l.a_simple_expression)
  IN  IF Consumed(path) \notin {0, Len(path)} THEN [l EXCEPT !.ret = "abort"]
      ELSE [l EXCEPT !.a_field_path = IF Consumed(path) = 0 THEN path ELSE <<>>, !.a_field_component = <<>>,
                     !.a_simple_expression = lttv_simple_expression_assign_operator(se, op)]

Dot(l) ==
  IF l.a_simple_expression.field = UNDEFINED
  THEN [l EXCEPT !.a_field_path = Append(@, Name(l.a_field_component)), !.a_field_component = <<>>]
  ELSE [l EXCEPT !.a_field_component = Append(@, ".")]

Concatenate(l, token) == [l EXCEPT !.a_field_component = Append(@, token)]

\* The loop's body.
Read(l, token) ==
  CASE l.nest_quotes = "closed" -> [Concatenate(l, token) EXCEPT !.nest_quotes = "no"]
    [] token = "\"" -> [l EXCEPT !.nest_quotes = IF @ = "no" THEN "open" ELSE "closed"]
    [] l.nest_quotes = "open" -> Concatenate(l, token)
    [] token \in {"&", "|", "^"} -> LogicalOperator(l, token)
    [] token = "!" -> Not(l)
    [] token = "(" -> OpenGroup(l)
    [] token = ")" -> CloseGroup(l)
    [] token \in Comparators -> Compare(l, token)
    [] token = "." -> Dot(l)
    [] OTHER -> Concatenate(l, token)

\* The last operand, and the assertion that no component is left.
Finish(l) ==
  LET root == l.tree_stack[1]
  IN  IF l.p_nesting > 0 \/ Len(l.tree_stack) # 1 THEN [l EXCEPT !.ret = "FALSE"]
      ELSE [PutNegatedOperand(l, "right", Rightmost(l.trees, root)) EXCEPT
              !.ret = IF l.a_field_path = <<>> THEN "TRUE" ELSE "abort"]

(* ------------------------------ evaluation ------------------------------- *)

\* `e' is what an event and the state around it have for each field.
lttv_filter_tree_parse_branch(se, e) ==
  IF Kind(se.field) = NULL THEN TRUE
  ELSE Apply(se.op, Kind(se.field), e[se.field], se.value)

RECURSIVE lttv_filter_tree_parse(_, _, _)
lttv_filter_tree_parse(trees, t, e) ==
  LET Result(element, child) ==
        CASE element = "node" -> lttv_filter_tree_parse(trees, child, e)
          [] element = "leaf" -> lttv_filter_tree_parse_branch(child, e)
          [] element = "idle" -> FALSE
      tree == trees[t]
      lresult == Result(tree.left, tree.l_child)
      rresult == Result(tree.right, tree.r_child)
  IN  CASE tree.node = "|" -> lresult \/ rresult
        [] tree.node = "&" -> lresult /\ rresult
        [] tree.node = "^" -> lresult # rresult
        [] tree.node = "!" -> IF tree.left = "leaf" THEN ~lresult
                              ELSE IF tree.right = "leaf" THEN ~rresult ELSE TRUE
        [] tree.node = "" -> rresult
=============================================================================
