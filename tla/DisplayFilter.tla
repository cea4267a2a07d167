---------------------------- MODULE DisplayFilter ----------------------------
(***************************************************************************)
(* The display-filter language of the analyzer (internal/dfilter): a       *)
(* recursive-descent parser of the text in the filter box, and the         *)
(* evaluation of what it yields against one packet.                        *)
(*                                                                         *)
(* A text is a sequence of tokens [kind, text]; cutting characters into    *)
(* tokens is left out. A node is what it says of each sample packet, which *)
(* is all its Eval gives away. Values are names whose number, place in the *)
(* order of strings, network and matches are given by the constants.       *)
(***************************************************************************)
EXTENDS Integers, Sequences, FiniteSets

CONSTANTS
  Chunks,       \* what is typed at once: sequences of tokens
  MaxTokens,    \* bound: tokens of a text
  Samples,      \* packets it is evaluated against: [protocols, fields]
  NumberOf,     \* values that are numbers, with the number
  NetworkOf,    \* values that are networks, with the addresses in them
  TextRank,     \* place of each value in the order of strings
  PartOf,       \* pairs of values, the first containing the second
  MatchedBy,    \* pairs of a value and a regular expression it matches
  BadRegexps    \* values that do not compile as one

Token == [kind : STRING, text : STRING]

ASSUME FilterAssumption == Chunks \subseteq Seq(Token) /\ MaxTokens \in Nat

VARIABLE text

Compared == {"==", "!=", ">", "<", ">=", "<="}
-----------------------------------------------------------------------------
(* Evaluation.                                                             *)
Values(p, field) == IF field \in DOMAIN p.fields THEN p.fields[field] ELSE {}

Related(op, a, b) ==
  CASE op \in {"==", "!="} -> a = b
    [] op = ">" -> a > b
    [] op = "<" -> a < b
    [] op = ">=" -> a >= b
    [] OTHER -> a <= b

(* A network is a matter of membership, whatever the comparison; numbers   *)
(* are compared as numbers only if both sides are.                         *)
MatchOne(c, v) ==
  CASE c.op = "contains" -> <<v, c.value>> \in PartOf
    [] c.op = "matches" -> <<v, c.value>> \in MatchedBy
    [] c.op \in Compared /\ c.value \in DOMAIN NetworkOf -> v \in NetworkOf[c.value]
    [] OTHER -> IF {v, c.value} \subseteq DOMAIN NumberOf
                THEN Related(c.op, NumberOf[v], NumberOf[c.value])
                ELSE Related(c.op, TextRank[v], TextRank[c.value])

(* No value satisfies a comparison with an absent field.                   *)
EvalCompare(c, p) ==
  LET some == \E v \in Values(p, c.field) : MatchOne(c, v)
  IN Values(p, c.field) # {} /\ (IF c.op = "!=" THEN ~ some ELSE some)

Present(name, p) == name \in p.protocols \/ Values(p, name) # {}

(* Nodes.                                                                  *)
Says == [Samples -> BOOLEAN]
Everything == [p \in Samples |-> TRUE]
OrNode(l, r) == [p \in Samples |-> l[p] \/ r[p]]
AndNode(l, r) == [p \in Samples |-> l[p] /\ r[p]]
NotNode(x) == [p \in Samples |-> ~ x[p]]
PresenceNode(name) == [p \in Samples |-> Present(name, p)]
CompareNode(field, op, value) ==
  [p \in Samples |-> EvalCompare([field |-> field, op |-> op, value |-> value], p)]

-----------------------------------------------------------------------------
(* Parsing. The functions call each other; run is what each yields called  *)
(* at an index, and for the loops of parseOr and parseAnd with the node to *)
(* the left of it: a node with the index it stops at, or where it gives up. *)
Parsed(says, i) == [ok |-> TRUE, says |-> says, i |-> i]
Refused(i) == [ok |-> FALSE, i |-> i]

Calls(toks) ==
  [op : {"or", "moreOr", "and", "moreAnd", "not", "primary"}, i : 1 .. Len(toks) + 1, left : Says]
Call(op, i) == [op |-> op, i |-> i, left |-> Everything]
Loop(op, i, left) == [op |-> op, i |-> i, left |-> left]

Accepts(toks, i, names) == i <= Len(toks) /\ toks[i].kind \in {"op", "ident"} /\ toks[i].text \in names

IsComparison(toks, i) ==
  /\ i <= Len(toks)
  /\ \/ toks[i].kind = "op" /\ toks[i].text \in Compared
     \/ toks[i].kind = "ident" /\ toks[i].text \in {"contains", "matches"}

(* What may stand to the right of a comparison.                            *)
IsValue(toks, i) ==
  /\ i <= Len(toks) /\ toks[i].kind \in {"ident", "string"}
  /\ toks[i - 1].text = "matches" => toks[i].text \notin BadRegexps

(* A field name alone is a presence test; followed by a comparison it      *)
(* needs a value.                                                          *)
ParseField(toks, i) ==
  IF ~ IsComparison(toks, i + 1) THEN Parsed(PresenceNode(toks[i].text), i + 1)
  ELSE IF IsValue(toks, i + 2) THEN Parsed(CompareNode(toks[i].text, toks[i + 1].text, toks[i + 2].text), i + 3)
  ELSE Refused(i + 2)

ParsePrimary(toks, run, i) ==
  IF i > Len(toks) THEN Refused(i)
  ELSE IF toks[i].kind = "("
  THEN LET inner == run[Call("or", i + 1)]
       IN IF ~ inner.ok THEN inner
          ELSE IF inner.i > Len(toks) \/ toks[inner.i].kind # ")" THEN Refused(inner.i)
          ELSE Parsed(inner.says, inner.i + 1)
  ELSE IF toks[i].kind # "ident" THEN Refused(i)
  ELSE ParseField(toks, i)

ParseNot(toks, run, i) ==
  IF ~ Accepts(toks, i, {"!", "not"}) THEN run[Call("primary", i)]
  ELSE LET x == run[Call("not", i + 1)]
       IN IF x.ok THEN Parsed(NotNode(x.says), x.i) ELSE x

(* Mutant: "and" takes what follows it whole, with any "or" in it.         *)
ReachesTooFar(toks, run, i, left) ==
  IF ~ Accepts(toks, i, {"&&", "and"}) THEN Parsed(left, i)
  ELSE LET right == run[Call("or", i + 1)]
       IN IF right.ok THEN Parsed(AndNode(left, right.says), right.i) ELSE right

MoreAnd(toks, run, i, left) ==
  IF ~ Accepts(toks, i, {"&&", "and"}) THEN Parsed(left, i)
  ELSE LET right == run[Call("not", i + 1)]
       IN IF right.ok THEN run[Loop("moreAnd", right.i, AndNode(left, right.says))] ELSE right

ParseAnd(run, i) ==
  LET left == run[Call("not", i)]
  IN IF left.ok THEN run[Loop("moreAnd", left.i, left.says)] ELSE left

MoreOr(toks, run, i, left) ==
  IF ~ Accepts(toks, i, {"||", "or"}) THEN Parsed(left, i)
  ELSE LET right == run[Call("and", i + 1)]
       IN IF right.ok THEN run[Loop("moreOr", right.i, OrNode(left, right.says))] ELSE right

ParseOr(run, i) ==
  LET left == run[Call("and", i)]
  IN IF left.ok THEN run[Loop("moreOr", left.i, left.says)] ELSE left

Run(toks, run, c) ==
  CASE c.op = "or" -> ParseOr(run, c.i)
    [] c.op = "moreOr" -> MoreOr(toks, run, c.i, c.left)
    [] c.op = "and" -> ParseAnd(run, c.i)
    [] c.op = "moreAnd" -> MoreAnd(toks, run, c.i, c.left)
    [] c.op = "not" -> ParseNot(toks, run, c.i)
    [] OTHER -> ParsePrimary(toks, run, c.i)

Parser(toks) == LET run[c \in Calls(toks)] == Run(toks, run, c) IN run

(* Nothing typed matches every packet; what is left over is an error.      *)
Compile(toks) ==
  IF toks = <<>> THEN Parsed(Everything, 1)
  ELSE LET root == Parser(toks)[Call("or", 1)]
       IN IF root.ok /\ root.i <= Len(toks) THEN Refused(root.i) ELSE root

-----------------------------------------------------------------------------
(* The user types on as long as more could still make it a filter.         *)
Mendable == LET c == Compile(text) IN c.ok \/ c.i > Len(text)

FilterInit == text = <<>>

TypeChunk(c) ==
  /\ Mendable /\ Len(text) + Len(c) <= MaxTokens
  /\ text' = text \o c

ClearFilter == text # <<>> /\ text' = <<>>

FilterNext == ClearFilter \/ \E c \in Chunks : TypeChunk(c)

FilterSpec == FilterInit /\ [][FilterNext]_text
-----------------------------------------------------------------------------
FilterTypeOK == text \in Seq(Token) /\ Len(text) <= MaxTokens

(* What the grammar lets the tokens from one index up to another say: all  *)
(* that is derived in any way, by the largest of its operators or any.     *)
Phrases(toks) ==
  {s \in [is : {"or", "and", "not", "simple"}, from : 1 .. Len(toks), to : 2 .. Len(toks) + 1] : s.from < s.to}
Phrase(is, i, j) == [is |-> is, from |-> i, to |-> j]

IsName(toks, i) == toks[i].kind = "ident" /\ toks[i].text \notin {"!", "not"}

Simple(toks, of, i, j) ==
  UNION {IF j > i + 2 /\ toks[i].kind = "(" /\ toks[j - 1].kind = ")" THEN of[Phrase("or", i + 1, j - 1)] ELSE {},
         IF j = i + 1 /\ IsName(toks, i) THEN {PresenceNode(toks[i].text)} ELSE {},
         IF j = i + 3 /\ IsName(toks, i) /\ IsComparison(toks, i + 1) /\ IsValue(toks, i + 2)
         THEN {CompareNode(toks[i].text, toks[i + 1].text, toks[i + 2].text)} ELSE {}}

Negation(toks, of, i, j) ==
  of[Phrase("simple", i, j)] \cup
    (IF j > i + 1 /\ Accepts(toks, i, {"!", "not"}) THEN {NotNode(x) : x \in of[Phrase("not", i + 1, j)]} ELSE {})

Cuts(toks, i, j, names) == {k \in i + 1 .. j - 2 : Accepts(toks, k, names)}

Conjunction(toks, of, i, j) ==
  of[Phrase("not", i, j)] \cup
    UNION {{AndNode(x[1], x[2]) : x \in of[Phrase("and", i, k)] \X of[Phrase("not", k + 1, j)]} :
             k \in Cuts(toks, i, j, {"&&", "and"})}

Disjunction(toks, of, i, j) ==
  of[Phrase("and", i, j)] \cup
    UNION {{OrNode(x[1], x[2]) : x \in of[Phrase("or", i, k)] \X of[Phrase("and", k + 1, j)]} :
             k \in Cuts(toks, i, j, {"||", "or"})}

Derive(toks, of, s) ==
  CASE s.is = "or" -> Disjunction(toks, of, s.from, s.to)
    [] s.is = "and" -> Conjunction(toks, of, s.from, s.to)
    [] s.is = "not" -> Negation(toks, of, s.from, s.to)
    [] OTHER -> Simple(toks, of, s.from, s.to)

Grammar(toks) == LET of[s \in Phrases(toks)] == Derive(toks, of, s) IN of
Readings(toks) == Grammar(toks)[Phrase("or", 1, Len(toks) + 1)]

(* The parser accepts exactly the filters the grammar derives, and a       *)
(* filter says of the packets the one thing the grammar lets it say: "not" *)
(* binds tighter than "and", "and" tighter than "or", a parenthesis        *)
(* tighter than all. An empty box lets every packet pass.                  *)
FilterMeaning ==
  IF text = <<>> THEN Compile(text) = Parsed(Everything, 1)
  ELSE Readings(text) = IF Compile(text).ok THEN {Compile(text).says} ELSE {}

=============================================================================
