------------------------------ MODULE Filtering ------------------------------
(***************************************************************************)
(* The filter of a text session: each option -e or -f of the command line  *)
(* adds an expression to the filter's text (modules/text/textFilter.c), of *)
(* which a filter is made when the traces are read (batchAnalysis.c) and   *)
(* which selects the events that are dumped (textDump.c).  The user writes *)
(* what the option -l lists, but may get the brackets wrong.  The loop     *)
(* over the text never goes back: what is written is read at once.         *)
(***************************************************************************)
EXTENDS Filter, FiniteSets, FiniteSetsExt

CONSTANTS Comparisons,  \* what is written: the tokens, and the events it is true of
          Events,       \* what each event and the state around it have for each field
          MaxLength, MaxComparisons, MaxOptions  \* bounds on what is written

VARIABLES written,  \* the text, with each comparison as one symbol
          options,  \* where in it each option's expression begins and ends
          l,        \* the local variables of lttv_filter_update
          head      \* of the filter

vars == <<written, options, l, head>>

IsComparison(symbol) == symbol \in DOMAIN Comparisons
Occurrences(symbol, text) == Len(SelectSeq(text, LAMBDA s : s = symbol))
Depth(text) == Occurrences("(", text) - Occurrences(")", text)
IsOpen(option) == option.last = 0
InOption == options # <<>> /\ IsOpen(Last(options))

Init ==
  /\ written = <<>> /\ options = <<>>
  /\ l = Start /\ head = NoTree

ReadAll(tokens) == FoldLeft(Read, l, tokens)

Write(symbols) ==
  /\ l.ret = NULL /\ Len(written) < MaxLength
  /\ written' = written \o symbols
  /\ l' = ReadAll(symbols)
  /\ UNCHANGED head

\* filter_analyze_string and filter_analyze_file, before the option's text.
Opening(text) == IF text = <<>> THEN <<"(">> ELSE <<"&", "(">>
Closing == <<")">>
StartOption ==
  /\ ~InOption /\ Len(options) < MaxOptions
  /\ Write(Opening(written))
  /\ options' = Append(options, [first |-> Len(written') + 1, last |-> 0])

AfterOperand == InOption /\ (IsComparison(Last(written)) \/ Last(written) = ")")
BeforeOperand == InOption /\ ~AfterOperand
NumComparisons == Len(SelectSeq(written, IsComparison))

WriteOperator(op) ==
  /\ AfterOperand /\ NumComparisons < MaxComparisons
  /\ Write(<<op>>)
  /\ UNCHANGED options

WriteNot ==
  /\ BeforeOperand /\ Last(written) # "!"
  /\ Write(<<"!">>)
  /\ UNCHANGED options

WriteOpen ==
  /\ BeforeOperand
  /\ Write(<<"(">>)
  /\ UNCHANGED options

\* Also the bracket that the option adds can be closed.
WriteClose ==
  /\ AfterOperand
  /\ Write(<<")">>)
  /\ UNCHANGED options

WriteComparison(c) ==
  /\ BeforeOperand /\ l.ret = NULL /\ Len(written) < MaxLength
  /\ written' = Append(written, c)
  /\ l' = ReadAll(Comparisons[c].tokens)
  /\ UNCHANGED <<options, head>>

\* Groups can be left open.
EndOption ==
  /\ AfterOperand
  /\ Write(Closing)
  /\ options' = [options EXCEPT ![Len(options)].last = Len(written)]

\* lttv_filter_append_expression for the whole text, at the end of which
\* lttv_filter_update keeps the tree.
Update ==
  /\ ~InOption /\ options # <<>> /\ l.ret = NULL
  /\ l' = Finish(l)
  /\ head' = IF l'.ret = "TRUE" THEN 1 ELSE NoTree
  /\ UNCHANGED <<written, options>>

Next ==
  \/ StartOption \/ WriteNot \/ WriteOpen \/ WriteClose \/ EndOption \/ Update
  \/ \E op \in {"&", "|", "^"} : WriteOperator(op)
  \/ \E c \in DOMAIN Comparisons : WriteComparison(c)

Spec == Init /\ [][Next]_vars

\* write_event_content: without a filter every event is dumped.
IsDumped(e) == head # NoTree => lttv_filter_tree_parse(l.trees, head, Events[e])

(* ------------------------------ properties ------------------------------- *)

\* What an expression means: the comparisons and groups are taken from the left,
\* and the operators from the right.
RECURSIVE Meaning(_, _)
Meaning(text, e) ==
  LET operators == {i \in DOMAIN text : text[i] \in {"&", "|", "^"} /\ Depth(SubSeq(text, 1, i)) = 0}
      i == Min(operators)
      left == Meaning(SubSeq(text, 1, i - 1), e)
      right == Meaning(SubSeq(text, i + 1, Len(text)), e)
  IN  IF operators = {}
      THEN CASE text[1] = "!" -> ~Meaning(Tail(text), e)
             [] text[1] = "(" -> Meaning(SubSeq(text, 2, Len(text) - 1), e)
             [] OTHER -> e \in Comparisons[text[1]].holds
      ELSE CASE text[i] = "&" -> left /\ right [] text[i] = "|" -> left \/ right [] text[i] = "^" -> left # right

IsBalanced(text) ==
  Depth(text) = 0 /\ \A i \in DOMAIN text : Depth(SubSeq(text, 1, i)) >= 0

\* The code negates a comparison, bare or alone in brackets, and no other group.
IsUnderstood(text) ==
  /\ \A i \in DOMAIN text : IsComparison(text[i]) => Comparisons[text[i]].plain
  /\ \A i \in 1 .. Len(text) - 1 : text[i] = "!" =>
       \/ IsComparison(text[i + 1])
       \/ text[i + 1] = "(" /\ IsComparison(text[i + 2]) /\ i + 3 \in DOMAIN text /\ text[i + 3] = ")"

\* A filter is made of every text with its brackets in pairs, and keeps the
\* events that the text describes.
TextHolds ==
  /\ (head # NoTree) <=> IsBalanced(written)
  /\ IsBalanced(written) => \A e \in DOMAIN Events : IsDumped(e) = Meaning(written, e)

\* An event is dumped if it is described by every option.
OptionsHold ==
  LET Expression(o) == SubSeq(written, o.first, o.last)
      expressions == {Expression(options[i]) : i \in DOMAIN options}
  IN  ~InOption /\ (\A text \in expressions : IsBalanced(text)) =>
        \A e \in DOMAIN Events : IsDumped(e) <=> \A text \in expressions : Meaning(text, e)

\* What is dumped is what the whole text, and each of the options it is put
\* together from, describe (lttv_filter_update, lttv_filter_tree_parse,
\* filter_analyze_string, filter_analyze_file).
FilterKeepsDescribed ==
  l.ret # NULL /\ IsUnderstood(written) => TextHolds /\ OptionsHold
=============================================================================
