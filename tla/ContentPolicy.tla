---------------------------- MODULE ContentPolicy ----------------------------
(***************************************************************************)
(* The whole-response filter (OutputFilter in output_filter.rs).  A text   *)
(* is a sequence of characters.  A rule is a record: its kind, its action, *)
(* the words it looks for, in order, the mark that replaces a redacted     *)
(* match and its bound.  A regular expression is the list of the words it  *)
(* accepts, tried in that order at each position; keywords have no case.   *)
(***************************************************************************)
EXTENDS Integers, Sequences, FiniteSets, FiniteSetsExt

Kinds == {"length", "tokens", "topic", "pattern"}
Actions == {"error", "redact", "truncate", "log"}

\* What filter returns: the text, the rules that fired, whether it is blocked.
Unfiltered(text) == [text |-> text, matched |-> {}, blocked |-> FALSE]

At(word, text, i) ==
  i + Len(word) - 1 <= Len(text) /\ SubSeq(text, i, i + Len(word) - 1) = word

\* The positions of the text where one of the words starts.
Starts(words, text) ==
  {i \in DOMAIN text : \E w \in DOMAIN words : At(words[w], text, i)}

WordAt(words, text, i) ==
  words[Min({w \in DOMAIN words : At(words[w], text, i)})]

\* replace and replace_all: every match, left to right and without overlap.
Redacted(words, mark, text) ==
  LET rest[i \in 1 .. Len(text) + 1] ==
        IF i > Len(text) THEN <<>>
        ELSE IF i \in Starts(words, text)
             THEN mark \o rest[i + Len(WordAt(words, text, i))]
             ELSE <<text[i]>> \o rest[i + 1]
  IN rest[1]

\* What a rule that looks for words does to a text that holds one of them.
Acted(rule, words, id, res) ==
  [text |->
     CASE rule.action = "redact" -> Redacted(words, rule.mark, res.text)
       [] rule.action = "truncate" ->
            SubSeq(res.text, 1, Min(Starts(words, res.text)) - 1)
       [] OTHER -> res.text,
   matched |-> res.matched \cup {id},
   blocked |-> res.blocked \/ rule.action = "error"]

PatternRule(rule, id, res) ==
  IF Starts(rule.words, res.text) = {} THEN res
  ELSE Acted(rule, rule.words, id, res)

\* A block list looks for its tokens one after the other; a token that blocks
\* or truncates is the last one.
TokenRule(rule, id, res) ==
  LET after[n \in 0 .. Len(rule.words)] ==
        IF n = 0 THEN [res |-> res, over |-> FALSE]
        ELSE LET before == after[n - 1]
                 token == <<rule.words[n]>>
             IN IF before.over \/ Starts(token, before.res.text) = {}
                THEN before
                ELSE [res |-> Acted(rule, token, id, before.res),
                      over |-> rule.action \in {"error", "truncate"}]
  IN after[Len(rule.words)].res

LengthRule(rule, id, res) ==
  IF Len(res.text) <= rule.bound THEN res
  ELSE [text |-> IF rule.action = "truncate"
                 THEN SubSeq(res.text, 1, rule.bound) ELSE res.text,
        matched |-> res.matched \cup {id},
        blocked |-> rule.action = "error"]

\* A topic is a number of different keywords; truncating clears the text.
TopicRule(rule, id, res) ==
  LET hits == {w \in DOMAIN rule.words :
                 Starts(<<rule.words[w]>>, res.text) # {}}
  IN IF rule.bound = 0 \/ Cardinality(hits) < rule.bound THEN res
     ELSE [text |-> IF rule.action = "truncate" THEN <<>> ELSE res.text,
           matched |-> res.matched \cup {id},
           blocked |-> rule.action = "error"]

Applied(rule, id, res) ==
  CASE rule.kind = "length" -> LengthRule(rule, id, res)
    [] rule.kind = "tokens" -> TokenRule(rule, id, res)
    [] rule.kind = "topic" -> TopicRule(rule, id, res)
    [] rule.kind = "pattern" -> PatternRule(rule, id, res)

\* OutputFilter::filter: the rules in order, up to the first that blocks.
Filter(policy, text) ==
  LET after[n \in 0 .. Len(policy)] ==
        IF n = 0 THEN Unfiltered(text)
        ELSE IF after[n - 1].blocked THEN after[n - 1]
        ELSE Applied(policy[n], n, after[n - 1])
  IN after[Len(policy)]

=============================================================================
