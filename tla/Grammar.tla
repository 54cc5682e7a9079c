-------------------------------- MODULE Grammar --------------------------------
(***************************************************************************)
(* A source as its words, the way docs/grammar.md writes it: with the      *)
(* parentheses that the levels of expressions call for and no others.      *)
(* Where the grammar leaves a choice the right side of a dot goes as far   *)
(* as it can: it is a <call>, which may have a dot of its own.             *)
(***************************************************************************)
EXTENDS Integers, Sequences
LOCAL INSTANCE SequencesExt

Listed(parts, separator) ==
  FlattenSeq([k \in DOMAIN parts |-> IF k = 1 THEN parts[k] ELSE <<separator>> \o parts[k]])

\* <compare>, <equality>, <term>, <factor>, <unary>, <call>, <lhs>, <primary>
Symbol ==
  [lt |-> "<", gt |-> ">", lte |-> "<=", gte |-> ">=", equ |-> "==", neq |-> "!=",
   add |-> "+", sub |-> "-", mul |-> "*", div |-> "/", mod |-> "%", access |-> "."]
Level ==
  [lt |-> 1, gt |-> 1, lte |-> 1, gte |-> 1, equ |-> 2, neq |-> 2, add |-> 3, sub |-> 3,
   mul |-> 4, div |-> 4, mod |-> 4, access |-> 7]
LevelOf(e) ==
  CASE e.node = "binary" -> Level[e.op]
    [] e.node = "unary" -> 5
    [] e.node = "call" -> 6
    [] OTHER -> 8

RECURSIVE WordsAt(_, _), BodyWords(_)

ItemWords(items, level) == Listed([k \in DOMAIN items |-> WordsAt(level, items[k])], ",")
NameWords(names) == <<"[">> \o Listed([k \in DOMAIN names |-> <<names[k]>>], ",") \o <<"]">>

ExprWords(e) ==
  CASE e.node = "literal" /\ e.type = "string" -> <<"\"" \o e.text \o "\"">>
    [] e.node = "literal" /\ e.type # "string" -> <<e.text>>
    [] e.node = "sequence" /\ e.is_tuple -> <<"[">> \o ItemWords(e.items, 8) \o <<"]">>
    [] e.node = "sequence" /\ ~e.is_tuple -> <<"{">> \o ItemWords(e.items, 8) \o <<"}">>
    [] e.node = "lambda" -> <<"fn">> \o NameWords(e.params) \o <<"=>">> \o BodyWords(e.body)
    [] e.node = "call" -> WordsAt(8, e.callee) \o <<"(">> \o ItemWords(e.args, 1) \o <<")">>
    [] e.node = "unary" -> <<"-">> \o WordsAt(6, e.inner)
    [] e.node = "binary" /\ e.op = "access" ->
         WordsAt(8, e.left) \o <<".">> \o WordsAt(6, e.right)
    [] e.node = "binary" /\ e.op # "access" ->
         WordsAt(LevelOf(e), e.left) \o <<Symbol[e.op]>> \o WordsAt(LevelOf(e) + 1, e.right)
    [] e.node = "assign" -> WordsAt(5, e.left) \o <<"=">> \o WordsAt(1, e.value)
Wrapped(words, needed) == IF needed THEN <<"(">> \o words \o <<")">> ELSE words
WordsAt(level, e) == Wrapped(ExprWords(e), LevelOf(e) < level)

StmtWords(s) ==
  CASE s.node = "expr" -> WordsAt(1, s.expr)
    [] s.node = "def" -> <<"def", s.name, "=">> \o WordsAt(1, s.init_expr)
    [] s.node = "return" -> <<"return">> \o WordsAt(1, s.result)
    [] s.node = "break" -> <<"break">>
    [] s.node = "while" -> <<"while">> \o WordsAt(1, s.check) \o BodyWords(s.body)
    [] s.node = "if" ->
         <<"if">> \o WordsAt(1, s.cond_expr) \o BodyWords(s.if_body)
         \o IF s.has_else THEN <<"else">> \o BodyWords(s.else_body) ELSE << >>
BodyWords(stmts) ==
  <<"{">> \o FlattenSeq([k \in DOMAIN stmts |-> StmtWords(stmts[k])]) \o <<"}">>

DeclWords(d) ==
  CASE d.node = "import" -> <<"import", "\"" \o d.target \o "\"">>
    [] d.node = "native_stub" -> <<"native", "fun", d.name, ":">> \o NameWords(d.params)
    [] d.node = "function" ->
         <<"fun", d.name, ":">> \o NameWords(d.params) \o <<"=>">> \o BodyWords(d.body)

SourceWords(decls) == FlattenSeq([k \in DOMAIN decls |-> DeclWords(decls[k])])

\* Words as a text, one line of them
Spaced(words) == IF words = << >> THEN "" ELSE FlattenSeq([k \in DOMAIN words |-> words[k] \o " "])

================================================================================
