----------------------------- MODULE MCStreaming -----------------------------
(* Small instances of Streaming for TLC. *)
EXTENDS Streaming, TLC

Rule(kind, action, words, mark, bound) ==
  [kind |-> kind, action |-> action, words |-> words, mark |-> mark,
   bound |-> bound]

AB == <<"a", "b">>
Marks == <<"mark", "mark", "mark">>

\* Policies whose words fit in the holdback: a redaction that lengthens the
\* text, one that shortens it before a rule that blocks, a truncation, a
\* block list of two tokens, length limits and topics.
MCPolicies ==
  {<<Rule("tokens", "redact", <<AB>>, Marks, 0)>>,
   <<Rule("pattern", "redact", <<AB>>, <<>>, 0),
     Rule("tokens", "error", <<<<"a", "a">>>>, <<>>, 0)>>,
   <<Rule("tokens", "log", <<<<"b">>>>, <<>>, 0),
     Rule("tokens", "truncate", <<<<"b", "b">>, <<"b", "a">>>>, <<>>, 0)>>,
   <<Rule("length", "truncate", <<>>, <<>>, 4),
     Rule("topic", "error", <<<<"a">>, <<"wide">>>>, <<>>, 2)>>,
   <<Rule("length", "error", <<>>, <<>>, 4)>>}

CONSTANTS MaxText, MaxWide

\* Longer texts of one-byte characters, shorter ones with wide characters.
Texts == UNION {[1 .. k -> {"a", "b"}] : k \in 1 .. MaxText}
           \cup UNION {[1 .. k -> {"a", "b", "wide"}] : k \in 1 .. MaxWide}

\* A text in deltas of one character or of two.
InOnes(text) == [i \in DOMAIN text |-> <<text[i]>>]
InTwos(text) ==
  [i \in 1 .. (Len(text) + 1) \div 2 |->
     SubSeq(text, 2 * i - 1, Min({2 * i, Len(text)}))]

MCReplies == {InOnes(t) : t \in Texts} \cup {InTwos(t) : t \in Texts}
               \cup {<<<<"a">>, <<>>, <<"junk">>, <<"bad", "b">>>>}
=============================================================================
