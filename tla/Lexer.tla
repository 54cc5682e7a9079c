--------------------------------- MODULE Lexer ---------------------------------
(***************************************************************************)
(* From the text of a source to its tokens (class Lexer, with the words    *)
(* and operators that Driver::Driver registers).  A token is its type and  *)
(* its lexeme; lines and columns, which only errors show, are left out.    *)
(* The lexer keeps a position and nothing else between two calls, so all   *)
(* tokens of a text are a function of the text.                            *)
(***************************************************************************)
EXTENDS Integers, Sequences, TLC

Chars(text) == {SubSeq(text, n, n) : n \in 1 .. Len(text)}

Spaces == {" ", "\t", "\r", "\n"}
Alpha == Chars("ABCDEFGHIJKLMNOPQRSTUVWXYZabcdefghijklmnopqrstuvwxyz_")
Digits == Chars("0123456789")
OperatorChars == Chars("*/%+-!:=<>")

Singles ==
  [c \in Chars("[]{}(),:.") |->
     CASE c = "[" -> "open_bracket" [] c = "]" -> "close_bracket"
       [] c = "{" -> "open_brace" [] c = "}" -> "close_brace"
       [] c = "(" -> "open_paren" [] c = ")" -> "close_paren"
       [] c = "," -> "comma" [] c = ":" -> "colon" [] c = "." -> "dot"]

Words ==
  "_" :> "keyword_discard" @@
  [true |-> "literal_true", false |-> "literal_false", fn |-> "keyword_fn",
   import |-> "keyword_import", fun |-> "keyword_fun", native |-> "keyword_native",
   def |-> "keyword_def", if |-> "keyword_if", else |-> "keyword_else",
   match |-> "keyword_match", pat |-> "keyword_pat",
   return |-> "keyword_return", while |-> "keyword_while", break |-> "keyword_break"]

\* The type of an operator is its text.
Operators ==
  {"*", "/", "%", "+", "-", "==", "!=", "<", ">", "<=", ">=", "=", "=>"}

--------------------------------------------------------------------------------
Token(type, lexeme) == [type |-> type, lexeme |-> lexeme]
Eof == Token("eof", "")

At(text, here) == SubSeq(text, here, here)

\* The first position from here on that is not one of the characters
RECURSIVE EndOfRun(_, _, _)
EndOfRun(text, here, chars) ==
  IF here > Len(text) \/ At(text, here) \notin chars THEN here
  ELSE EndOfRun(text, here + 1, chars)

\* The first position from here on that is the character, or the end
RECURSIVE NextOf(_, _, _)
NextOf(text, here, c) ==
  IF here > Len(text) \/ At(text, here) = c THEN here ELSE NextOf(text, here + 1, c)

Lexed(token, next) == [token |-> token, next |-> next]

LexSingle(text, here, type) == Lexed(Token(type, At(text, here)), here + 1)

\* What is between two delimiters; without the second one it is nothing known.
Between(text, here, close, type) ==
  Lexed(Token(IF close <= Len(text) THEN type ELSE "unknown", SubSeq(text, here + 1, close - 1)),
        close + 1)
LexBetween(text, here, delim, type) == Between(text, here, NextOf(text, here + 1, delim), type)

Run(text, here, next, TypeOf(_)) ==
  LET lexeme == SubSeq(text, here, next - 1) IN Lexed(Token(TypeOf(lexeme), lexeme), next)

Count(c, text) == Len(SelectSeq([n \in 1 .. Len(text) |-> At(text, n)], LAMBDA d : d = c))

\* A minus is part of a number wherever it stands in the run, and there may be one.
NumericType(lexeme) ==
  CASE Count("-", lexeme) > 1 \/ Count(".", lexeme) > 1 -> "unknown"
    [] Count("-", lexeme) <= 1 /\ Count(".", lexeme) = 0 -> "literal_int"
    [] OTHER -> "literal_double"
WordType(lexeme) == IF lexeme \in DOMAIN Words THEN Words[lexeme] ELSE "identifier"
OperatorType(lexeme) == IF lexeme \in Operators THEN lexeme ELSE "unknown"

LexSpaces(text, here) == Run(text, here, EndOfRun(text, here, Spaces), LAMBDA lexeme : "spaces")
LexWord(text, here) == Run(text, here, EndOfRun(text, here, Alpha \cup Digits), WordType)
LexNumeric(text, here) ==
  Run(text, here, EndOfRun(text, here, Digits \cup {".", "-"}), NumericType)
LexOperator(text, here) == Run(text, here, EndOfRun(text, here, OperatorChars), OperatorType)

StartsNumber(text, here) ==
  \/ At(text, here) \in Digits
  \/ At(text, here) = "-" /\ here < Len(text) /\ At(text, here + 1) \in Digits

\* Lexer::operator() at a position before the end
Lex(text, here) ==
  LET c == At(text, here)
  IN  CASE c \in Spaces -> LexSpaces(text, here)
        [] c = "#" -> LexBetween(text, here, c, "comment")
        [] c = "\"" -> LexBetween(text, here, c, "literal_string")
        [] c \in DOMAIN Singles -> LexSingle(text, here, Singles[c])
        [] c \in Alpha -> LexWord(text, here)
        [] StartsNumber(text, here) -> LexNumeric(text, here)
        [] c \in OperatorChars \ {":"} /\ ~StartsNumber(text, here) -> LexOperator(text, here)
        [] OTHER -> LexSingle(text, here, "unknown")

\* The tokens that Parser::advance asks for: all but spaces and comments
RECURSIVE TokensFrom(_, _)
FollowedBy(text, lexed) ==
  IF lexed.token.type \in {"spaces", "comment"} THEN TokensFrom(text, lexed.next)
  ELSE <<lexed.token>> \o TokensFrom(text, lexed.next)
TokensFrom(text, here) == IF here > Len(text) THEN << >> ELSE FollowedBy(text, Lex(text, here))

Tokens(text) == TokensFrom(text, 1)

================================================================================
