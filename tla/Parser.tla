--------------------------------- MODULE Parser ---------------------------------
(***************************************************************************)
(* From the text of one source to its declarations (class Parser): a       *)
(* recursive descent over the tokens with one token of lookahead.          *)
(*                                                                         *)
(* The first error in a declaration is thrown, and caught in parse_program.*)
(* Here a parser that has thrown is marked so: it consumes nothing more    *)
(* and no token of it matches, which takes every method to its end.        *)
(***************************************************************************)
EXTENDS Lexer, Syntax

NewParser(text) ==
  [tokens |-> Tokens(text), next |-> 1, previous |-> Eof, current |-> Eof, thrown |-> FALSE]

Upcoming(ps) == IF ps.next <= Len(ps.tokens) THEN ps.tokens[ps.next] ELSE Eof

Matches(ps, types) == ~ps.thrown /\ ps.current.type \in types
Throw(ps) == [ps EXCEPT !.thrown = TRUE]

\* An unknown token throws before it becomes the current one, and has been read by then.
Consume(ps) ==
  CASE ps.thrown -> ps
    [] ~ps.thrown /\ Upcoming(ps).type = "unknown" ->
         [Throw(ps) EXCEPT !.previous = ps.current, !.next = @ + 1]
    [] OTHER -> [ps EXCEPT !.previous = ps.current, !.current = Upcoming(ps), !.next = @ + 1]
ConsumeOne(ps, type) == IF Matches(ps, {type}) THEN Consume(ps) ELSE Throw(ps)

\* What a method returns, and what another does with it
Parsed(ps, tree) == [ps |-> ps, tree |-> tree]
Then(parsed, Rest(_, _)) == Rest(parsed.ps, parsed.tree)

--------------------------------------------------------------------------------
\* Literals: what stoi and stod make of a lexeme, which is a digit or a minus and a digit
\* and then digits, a dot and a minus anywhere

DigitValue == [d \in Digits |-> CHOOSE n \in 0 .. 9 : ToString(n) = d]

RECURSIVE Decimal(_, _, _)
Decimal(lexeme, here, n) ==
  IF here > Len(lexeme) \/ At(lexeme, here) \notin Digits THEN n
  ELSE Decimal(lexeme, here + 1, 10 * n + DigitValue[At(lexeme, here)])
Stoi(lexeme) == IF At(lexeme, 1) = "-" THEN -Decimal(lexeme, 2, 0) ELSE Decimal(lexeme, 1, 0)

Stod(lexeme) ==
  LET read == 2 .. EndOfRun(lexeme, 2, Digits \cup {"."}) - 1
  IN  IF \E k \in {1} \cup read : At(lexeme, k) \in Digits \ {"0"} THEN "nonzero" ELSE "zero"

LiteralTypes ==
  [identifier |-> "identifier", literal_string |-> "string", literal_double |-> "double",
   literal_int |-> "int", literal_true |-> "bool", literal_false |-> "bool"]
LiteralValue(token) ==
  CASE token.type = "literal_int" -> Int32(Stoi(token.lexeme))
    [] token.type = "literal_double" -> Flt64(Stod(token.lexeme))
    [] token.type \in {"literal_true", "literal_false"} -> Bool(token.type = "literal_true")
    [] OTHER -> Dud
Literal(token) ==
  [node |-> "literal", type |-> LiteralTypes[token.type], text |-> token.lexeme,
   value |-> LiteralValue(token)]

--------------------------------------------------------------------------------
\* The method for a part of the grammar: the methods call each other by these names.
RECURSIVE Parse(_, _)

\* What is between two brackets, with commas: items (primary), arguments (compare) or
\* parameters
RECURSIVE MoreElements(_, _, _)
MoreElements(ps, part, elements) ==
  IF ~Matches(ps, {"comma"}) THEN Parsed(ps, elements)
  ELSE Then(Parse(Consume(ps), part),
            LAMBDA after, e : MoreElements(after, part, Append(elements, e)))
Elements(ps, part, close) ==
  IF Matches(ps, {close}) THEN MoreElements(ps, part, << >>)
  ELSE Then(Parse(ps, part), LAMBDA after, e : MoreElements(after, part, <<e>>))
Enclosed(ps, part, close) ==
  Then(Elements(ps, part, close), LAMBDA after, elements : Parsed(ConsumeOne(after, close), elements))

--------------------------------------------------------------------------------
\* Expressions

ParseParam(ps) ==
  LET taken == ConsumeOne(ps, "identifier") IN Parsed(taken, taken.previous.lexeme)

ParseSequence(ps) ==
  IF Matches(ps, {"open_bracket"})
  THEN Then(Enclosed(Consume(ps), "primary", "close_bracket"),
            LAMBDA after, items : Parsed(after, tuple(items)))
  ELSE Then(Enclosed(Consume(ps), "primary", "close_brace"),
            LAMBDA after, items : Parsed(after, list(items)))

ParseLambda(ps) ==
  Then(Enclosed(ConsumeOne(Consume(ps), "open_bracket"), "param", "close_bracket"),
       LAMBDA params_end, params :
         Then(Parse(ConsumeOne(params_end, "=>"), "block"),
              LAMBDA after, body : Parsed(after, lambda(params, body))))

ParseWrapped(ps) ==
  Then(Parse(Consume(ps), "compare"),
       LAMBDA after, e : Parsed(ConsumeOne(after, "close_paren"), e))

ParsePrimary(ps) ==
  CASE Matches(ps, DOMAIN LiteralTypes) -> Parsed(Consume(ps), Literal(ps.current))
    [] Matches(ps, {"keyword_fn"}) -> ParseLambda(ps)
    [] Matches(ps, {"open_paren"}) -> ParseWrapped(ps)
    [] Matches(ps, {"open_bracket", "open_brace"}) -> ParseSequence(ps)
    [] OTHER -> Parsed(Throw(ps), Dud)

\* The right side of a dot may have dots of its own.
RECURSIVE Accesses(_, _)
Accesses(ps, left) ==
  IF ~Matches(ps, {"dot"}) THEN Parsed(ps, left)
  ELSE Then(Parse(Consume(ps), "call"),
            LAMBDA after, right : Accesses(after, op2(left, "access", right)))
ParseLhs(ps) == Then(Parse(ps, "primary"), Accesses)

Call(callee, args) == [node |-> "call", callee |-> callee, args |-> args]
ParseCall(ps) ==
  Then(ParseLhs(ps), LAMBDA after, callee :
    IF ~Matches(after, {"open_paren"}) THEN Parsed(after, callee)
    ELSE Then(Enclosed(Consume(after), "compare", "close_paren"),
              LAMBDA end, args : Parsed(end, Call(callee, args))))

ParseUnary(ps) ==
  IF Matches(ps, {"-"})
  THEN Then(Parse(Consume(ps), "call"), LAMBDA after, inner : Parsed(after, minus(inner)))
  ELSE Parse(ps, "call")

\* The binary operators, from parse_compare down to parse_factor
Levels == << {"<", ">", "<=", ">="}, {"==", "!="}, {"+", "-"}, {"*", "/", "%"} >>
OperatorName ==
  "<" :> "lt" @@ ">" :> "gt" @@ "<=" :> "lte" @@ ">=" :> "gte" @@ "==" :> "equ" @@
  "!=" :> "neq" @@ "+" :> "add" @@ "-" :> "sub" @@ "*" :> "mul" @@ "/" :> "div" @@ "%" :> "mod"

RECURSIVE ParseLevel(_, _), Operands(_, _, _)

OperandsFromRight(ps, level, left) ==    \* a slip: the operators of a level take what follows
  IF ~Matches(ps, Levels[level]) THEN Parsed(ps, left)
  ELSE Then(ParseLevel(Consume(ps), level), LAMBDA after, right :
         Parsed(after, op2(left, OperatorName[ps.current.type], right)))

Operands(ps, level, left) ==
  IF ~Matches(ps, Levels[level]) THEN Parsed(ps, left)
  ELSE Then(ParseLevel(Consume(ps), level + 1), LAMBDA after, right :
         Operands(after, level, op2(left, OperatorName[ps.current.type], right)))
ParseLevel(ps, level) ==
  IF level > Len(Levels) THEN ParseUnary(ps)
  ELSE Then(ParseLevel(ps, level + 1), LAMBDA after, left : Operands(after, level, left))
ParseCompare(ps) == ParseLevel(ps, 1)

--------------------------------------------------------------------------------
\* Statements

ParseExprStmt(ps) ==
  Then(ParseUnary(ps), LAMBDA after, left :
    IF ~Matches(after, {"="}) THEN Parsed(after, do(left))
    ELSE Then(Parse(Consume(after), "compare"), LAMBDA end, e : Parsed(end, assign(left, e))))

ParseDefinition(ps) ==
  LET named == ConsumeOne(Consume(ps), "identifier")
  IN  Then(Parse(ConsumeOne(named, "="), "compare"),
           LAMBDA after, e : Parsed(after, def(named.previous.lexeme, e)))

ParseIf(ps) ==
  Then(Parse(Consume(ps), "compare"), LAMBDA cond_end, cond :
    Then(Parse(cond_end, "block"), LAMBDA after, body :
      IF ~Matches(after, {"keyword_else"}) THEN Parsed(after, if(cond, body))
      ELSE Then(Parse(Consume(after), "block"),
                LAMBDA end, other : Parsed(end, if_else(cond, body, other)))))

ParseReturn(ps) == Then(Parse(Consume(ps), "compare"), LAMBDA after, e : Parsed(after, return(e)))

ParseWhile(ps) ==
  Then(Parse(Consume(ps), "compare"), LAMBDA check_end, check :
    Then(Parse(check_end, "block"), LAMBDA after, body : Parsed(after, while(check, body))))

ParseStmt(ps) ==
  CASE Matches(ps, {"keyword_def"}) -> ParseDefinition(ps)
    [] Matches(ps, {"keyword_if"}) -> ParseIf(ps)
    [] Matches(ps, {"keyword_return"}) -> ParseReturn(ps)
    [] Matches(ps, {"keyword_while"}) -> ParseWhile(ps)
    [] Matches(ps, {"keyword_break"}) -> Parsed(Consume(ps), break)
    [] OTHER -> ParseExprStmt(ps)

\* A block ends at its brace, or where the source ends.
RECURSIVE Stmts(_, _)
Stmts(ps, stmts) ==
  CASE ps.thrown \/ Matches(ps, {"eof"}) -> Parsed(ps, stmts)
    [] Matches(ps, {"close_brace"}) -> Parsed(Consume(ps), stmts)
    [] OTHER -> Then(ParseStmt(ps), LAMBDA after, s : Stmts(after, Append(stmts, s)))
ParseBlock(ps) == Stmts(ConsumeOne(ps, "open_brace"), << >>)

--------------------------------------------------------------------------------
\* Declarations

\* A name and its parameters
ParseSignature(ps, Declare(_, _, _)) ==
  LET named == ConsumeOne(ps, "identifier")
      opened == ConsumeOne(ConsumeOne(named, "colon"), "open_bracket")
  IN  Then(Enclosed(opened, "param", "close_bracket"),
           LAMBDA after, params : Declare(after, named.previous.lexeme, params))

ParseFunction(ps) ==
  ParseSignature(Consume(ps), LAMBDA params_end, f, params :
    Then(Parse(ConsumeOne(params_end, "=>"), "block"),
         LAMBDA after, body : Parsed(after, fun(f, params, body))))

ParseNativeStub(ps) ==
  ParseSignature(ConsumeOne(Consume(ps), "keyword_fun"),
    LAMBDA after, f, params : Parsed(after, native_stub(f, params)))

ParseImport(ps) ==
  LET target == ConsumeOne(Consume(ps), "literal_string")
  IN  Parsed(target, import(target.previous.lexeme))

ParseDecl(ps) ==
  CASE Matches(ps, {"keyword_import"}) -> ParseImport(ps)
    [] Matches(ps, {"keyword_native"}) -> ParseNativeStub(ps)
    [] Matches(ps, {"keyword_fun"}) -> ParseFunction(ps)
    [] OTHER -> Parsed(Throw(ps), Dud)

Parse(ps, part) ==
  CASE part = "param" -> ParseParam(ps)
    [] part = "primary" -> ParsePrimary(ps)
    [] part = "call" -> ParseCall(ps)
    [] part = "compare" -> ParseCompare(ps)
    [] part = "block" -> ParseBlock(ps)
    [] part = "decl" -> ParseDecl(ps)

RECURSIVE Recover(_), ParseDecls(_, _, _)

\* Skips to the next function.
Recover(ps) ==
  IF ps.thrown \/ Matches(ps, {"eof", "keyword_fun"}) THEN ps ELSE Recover(Consume(ps))

AfterDeclForgiving(decl, decls, failed) ==    \* a slip: an error that was recovered from is forgotten
  IF decl.ps.thrown THEN ParseDecls(Recover([decl.ps EXCEPT !.thrown = FALSE]), decls, failed)
  ELSE ParseDecls(decl.ps, Append(decls, decl.tree), failed)

AfterDecl(decl, decls, failed) ==
  IF decl.ps.thrown THEN ParseDecls(Recover([decl.ps EXCEPT !.thrown = FALSE]), decls, TRUE)
  ELSE ParseDecls(decl.ps, Append(decls, decl.tree), failed)

\* What the parser returned, and the paths that it pushed
Unparsed(outcome) == [outcome |-> outcome, decls |-> << >>, imports |-> << >>]
Targets(decls) ==
  LET imports == SelectSeq(decls, LAMBDA d : d.node = "import")
  IN  [k \in DOMAIN imports |-> imports[k].target]

\* What is thrown at the first token or by the recovery is caught by nobody.
ParseDecls(ps, decls, failed) ==
  CASE ps.thrown -> Unparsed("terminated")
    [] Matches(ps, {"eof"}) /\ failed -> Unparsed("refused")
    [] Matches(ps, {"eof"}) /\ ~failed ->
         [outcome |-> "parsed", decls |-> decls, imports |-> Targets(decls)]
    [] OTHER -> AfterDecl(Parse(ps, "decl"), decls, failed)

ParseUnit(text) == ParseDecls(Consume(NewParser(text)), << >>, FALSE)

================================================================================
