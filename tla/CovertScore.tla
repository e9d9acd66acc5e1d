----------------------------- MODULE CovertScore -----------------------------
(***************************************************************************)
(* The covert-channel analyser (covert_channel.rs).  A text is the record  *)
(* of what the analyser measures of it, in thousandths: the entropy of its *)
(* bytes in bits, the longest base64-like and hexadecimal runs, the shares *)
(* of digits, of delimiters and of odd white space.  The floating-point    *)
(* arithmetic of the code is integer arithmetic in thousandths here.       *)
(***************************************************************************)
EXTENDS Integers, FiniteSetsExt

\* What the analyser measures of a text.  Delimiters count from 40 bytes on.
Text == [entropy : 0 .. 8000, run : 0 .. 1000, hex : 0 .. 1000,
         digits : 0 .. 1000, delims : 0 .. 1000, odd : 0 .. 1000]

\* CovertChannelConfig::default (the threshold comes from the configuration).
NormalMin == 3500
NormalMax == 5500

ScoreEntropy(e) ==
  IF e > NormalMax THEN Min({(e - NormalMax) \div 2, 1000})
  ELSE IF e < NormalMin THEN Min({(NormalMin - e) \div 2, 500})
  ELSE 0

\* score_patterns: the strongest of the structural signs past its threshold.
Past(share, threshold) == IF share > threshold THEN share ELSE 0
ScorePatterns(t) ==
  Min({1000, Max({Past(t.run, 250), Past(t.hex, 200), 3 * (t.digits - 300),
                  IF t.delims > 150 THEN 600 ELSE 0})})

ScoreWhitespace(t) == IF t.odd > 150 THEN Min({5 * t.odd, 1000}) ELSE 0

\* analyze: the weighted sum.  The length score is 0: no caller sets it.
AnomalyScore(t) ==
  (35 * ScoreEntropy(t.entropy) + 40 * ScorePatterns(t)
     + 10 * ScoreWhitespace(t)) \div 100

=============================================================================
