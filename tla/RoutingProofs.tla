--------------------------- MODULE RoutingProofs ---------------------------
(***************************************************************************)
(* For commands, argvs and calls of any length: what strict_shell_tokens   *)
(* makes an argv of means the same to a shell, and the calls of an agent   *)
(* are carried out where, and as what, the hooks judged them.              *)
(*                                                                         *)
(* The scanner, shlex and the shell are in corresponding states as long as *)
(* nothing was flagged and nothing was met that they split differently.    *)
(* Then shlex and the shell have the same words, but for an escaped dollar *)
(* between double quotes, and the shell is inactive, but for an assignment *)
(* before the command; both leave a trace in the words of shlex, for which *)
(* strict_shell_tokens refuses them (ShellInv).  A reserved word, or an    *)
(* assignment that appends, makes the shell do more too, and leaves the    *)
(* words as they are: what it leads is left out of what is proved (Leads). *)
(*                                                                         *)
(* Files may come and go between the hook and the call.  So what is kept   *)
(* of an approval (CallInv) is what does not depend on them: what a        *)
(* general classification made of the words, and how they were parsed.     *)
(* What argparse accepts in the client the router parses alike, or its     *)
(* words are Irregular: this is shown for every end of the command line,   *)
(* from the last word to the first (Agreed, AllNumbers).                   *)
(***************************************************************************)
EXTENDS Routing, SequenceTheorems, WellFoundedInduction, TLAPS

Splits == [at : {"between", "word", "sq", "dq", "bs"}, back : {"word", "dq"},
           words : Seq(Seq(Chars)), word : Seq(Chars)]
Scans  == [quote : {"no", "sq", "dq"}, escaped : BOOLEAN, start : BOOLEAN, flagged : BOOLEAN]

Typed == scan \in Scans /\ lex \in Splits /\ shell \in Splits
         /\ active \in BOOLEAN /\ plain \in BOOLEAN /\ apart \in BOOLEAN

\* The states of scanner and shlex that correspond
Corresponding ==
  /\ scan.escaped <=> lex.at = "bs"
  /\ Bare(lex) => scan.quote = "no"
  /\ lex.at \in {"sq", "dq"} => scan.quote = lex.at
  /\ lex.at = "bs" => scan.quote = IF lex.back = "dq" THEN "dq" ELSE "no"
  /\ lex.at = "between" => scan.start

Between(s) == s.at = "between" => s.word = <<>>

HasDollar(word) == \E i \in 1..Len(word) : word[i] = "$"
Dollar(s) == HasDollar(s.word) \/ \E i \in 1..Len(s.words) : HasDollar(s.words[i])

FirstWord(s) == IF s.words = <<>> THEN s.word ELSE s.words[1]

Together == lex.at = shell.at /\ lex.back = shell.back
SameWords == lex.words = shell.words /\ lex.word = shell.word

ShellInv ==
  /\ Typed
  /\ Between(lex) /\ Between(shell)
  /\ ~apart /\ ~scan.flagged =>
       /\ Corresponding
       /\ Together
       /\ Dollar(lex) \/ SameWords
       /\ active => Dollar(lex) \/ Assignment(FirstWord(lex))

-----------------------------------------------------------------------------
\* What a character does to a splitter, case by case.
Kept(s, t)  == t.words = s.words /\ t.word = s.word
Taken(s, t) == t.words = s.words /\ \E chars \in Seq(Chars) : t.word = s.word \o chars
Closed(s, t) == IF s.at = "between" THEN Kept(s, t)
                ELSE t.words = Append(s.words, s.word) /\ t.word = <<>>

Consumed(s, c, t, blanks, escapable) ==
  \/ /\ Bare(s) /\ c \in blanks
     /\ t.at = "between" /\ t.back = s.back /\ Closed(s, t)
  \/ /\ Bare(s) /\ c = "bs"
     /\ t.at = "bs" /\ t.back = "word" /\ Kept(s, t)
  \/ /\ Bare(s) /\ c \in {"sq", "dq"}
     /\ t.at = c /\ t.back = s.back /\ Kept(s, t)
  \/ /\ Bare(s) /\ c \notin blanks \cup {"bs", "sq", "dq"}
     /\ t.at = "word" /\ t.back = s.back /\ t.words = s.words /\ t.word = s.word \o <<c>>
  \/ /\ s.at \in {"sq", "dq"} /\ c = s.at
     /\ t.at = "word" /\ t.back = s.back /\ Kept(s, t)
  \/ /\ s.at = "dq" /\ c = "bs"
     /\ t.at = "bs" /\ t.back = "dq" /\ Kept(s, t)
  \/ /\ (s.at = "sq" /\ c # "sq") \/ (s.at = "dq" /\ c \notin {"dq", "bs"})
     /\ t.at = s.at /\ t.back = s.back /\ t.words = s.words /\ t.word = s.word \o <<c>>
  \/ /\ s.at = "bs"
     /\ t.at = s.back /\ t.back = s.back /\ t.words = s.words
     /\ t.word = s.word \o (IF s.back = "dq" /\ c \notin escapable THEN <<"bs", c>> ELSE <<c>>)

\* A splitter does with a character what Consumed lists, and keeps its type.
LEMMA SplitEffect ==
  ASSUME NEW s \in Splits, NEW c \in Chars, NEW blanks, NEW escapable,
         blanks \cap {"bs", "sq", "dq"} = {}
  PROVE  LET t == Split(s, c, blanks, escapable)
         IN  t \in Splits /\ Consumed(s, c, t, blanks, escapable)
<1> DEFINE t == Split(s, c, blanks, escapable)
<1>0. /\ s.at \in {"between", "word", "sq", "dq", "bs"} /\ s.back \in {"word", "dq"}
      /\ s.words \in Seq(Seq(Chars)) /\ s.word \in Seq(Chars)
      /\ <<c>> \in Seq(Chars)
      /\ <<"bs", c>> \in Seq(Chars)
  <2>1. "bs" \in Chars
    BY DEF Chars, Special
  <2>2. QED  BY <2>1 DEF Splits
<1>1. CASE Bare(s) /\ c \in blanks
  <2>1. t = IF s.at = "between" THEN s
            ELSE [s EXCEPT !.at = "between", !.word = <<>>, !.words = Append(@, s.word)]
    BY <1>1 DEF Split, Bare
  <2>2. CASE s.at = "between"
    BY <1>1, <2>1, <2>2 DEF Consumed, Closed, Kept
  <2>3. CASE s.at # "between"
    <3>1. Append(s.words, s.word) \in Seq(Seq(Chars)) /\ <<>> \in Seq(Chars)
      BY <1>0
    <3>2. t = [at |-> "between", back |-> s.back, words |-> Append(s.words, s.word), word |-> <<>>]
      BY <2>1, <2>3 DEF Splits
    <3>3. QED  BY <1>0, <1>1, <2>3, <3>1, <3>2 DEF Consumed, Closed, Splits
  <2>4. QED  BY <2>2, <2>3
<1>2. CASE Bare(s) /\ c = "bs"
  <2>1. t = [s EXCEPT !.at = "bs", !.back = "word"]
    BY <1>2 DEF Split, Bare
  <2>2. QED  BY <1>0, <1>2, <2>1 DEF Consumed, Kept, Splits
<1>3. CASE Bare(s) /\ c \in {"sq", "dq"}
  <2>1. t = [s EXCEPT !.at = c]
    BY <1>3 DEF Split, Bare
  <2>2. QED  BY <1>0, <1>3, <2>1 DEF Consumed, Kept, Splits
<1>4. CASE Bare(s) /\ c \notin blanks \cup {"bs", "sq", "dq"}
  <2>1. t = [Take(s, <<c>>) EXCEPT !.at = "word"]
    BY <1>4 DEF Split, Bare
  <2>2. t = [at |-> "word", back |-> s.back, words |-> s.words, word |-> s.word \o <<c>>]
    BY <2>1 DEF Take, Splits
  <2>3. s.word \o <<c>> \in Seq(Chars)
    BY <1>0
  <2>4. QED  BY <1>0, <1>4, <2>2, <2>3 DEF Consumed, Splits
<1>5. CASE s.at \in {"sq", "dq"} /\ c = s.at
  <2>1. t = [s EXCEPT !.at = "word"]
    BY <1>5 DEF Split, Bare
  <2>2. QED  BY <1>0, <1>5, <2>1 DEF Consumed, Kept, Splits
<1>6. CASE s.at = "dq" /\ c = "bs"
  <2>1. t = [s EXCEPT !.at = "bs", !.back = "dq"]
    BY <1>6 DEF Split, Bare
  <2>2. QED  BY <1>0, <1>6, <2>1 DEF Consumed, Kept, Splits
<1>7. CASE (s.at = "sq" /\ c # "sq") \/ (s.at = "dq" /\ c \notin {"dq", "bs"})
  <2>1. t = Take(s, <<c>>)
    BY <1>7 DEF Split, Bare
  <2>2. t = [at |-> s.at, back |-> s.back, words |-> s.words, word |-> s.word \o <<c>>]
    BY <2>1 DEF Take, Splits
  <2>3. s.word \o <<c>> \in Seq(Chars)
    BY <1>0
  <2>4. QED  BY <1>0, <1>7, <2>2, <2>3 DEF Consumed, Splits
<1>8. CASE s.at = "bs"
  <2> DEFINE chars == IF s.back = "dq" /\ c \notin escapable THEN <<"bs", c>> ELSE <<c>>
  <2>1. t = [Take(s, chars) EXCEPT !.at = s.back]
    BY <1>8 DEF Split, Bare
  <2>2. t = [at |-> s.back, back |-> s.back, words |-> s.words, word |-> s.word \o chars]
    BY <2>1 DEF Take, Splits
  <2>3. s.word \o chars \in Seq(Chars)
    BY <1>0
  <2>4. QED  BY <1>0, <1>8, <2>2, <2>3 DEF Consumed, Splits
<1>9. QED  BY <1>0, <1>1, <1>2, <1>3, <1>4, <1>5, <1>6, <1>7, <1>8 DEF Bare

\* A dollar stays in the words, and so does an assignment at their head.
LEMMA DollarStays ==
  ASSUME NEW s \in Splits, NEW t \in Splits, NEW c, NEW blanks, NEW escapable,
         Consumed(s, c, t, blanks, escapable), Dollar(s), Between(s), c \in Chars
  PROVE  Dollar(t)
<1>0. /\ s.words \in Seq(Seq(Chars)) /\ s.word \in Seq(Chars)
      /\ t.words \in Seq(Seq(Chars)) /\ t.word \in Seq(Chars)
  BY DEF Splits
<1>1. CASE Kept(s, t)
  BY <1>1 DEF Kept, Dollar
<1>2. CASE Taken(s, t)
  <2>1. PICK chars \in Seq(Chars) : t.word = s.word \o chars
    BY <1>2 DEF Taken
  <2>2. HasDollar(s.word) => HasDollar(t.word)
    <3>1. SUFFICES ASSUME NEW i \in 1..Len(s.word), s.word[i] = "$"
                   PROVE  HasDollar(t.word)
      BY DEF HasDollar
    <3>2. i \in 1..Len(t.word) /\ t.word[i] = "$"
      BY <1>0, <2>1, <3>1
    <3>3. QED  BY <3>2 DEF HasDollar
  <2>3. QED  BY <1>2, <2>2 DEF Taken, Dollar
<1>3. CASE t.words = Append(s.words, s.word) /\ t.word = <<>>
  <2>1. CASE HasDollar(s.word)
    <3>1. Len(t.words) \in 1..Len(t.words) /\ t.words[Len(t.words)] = s.word
      BY <1>0, <1>3
    <3>2. QED  BY <2>1, <3>1 DEF Dollar
  <2>2. CASE ~HasDollar(s.word)
    <3>1. PICK i \in 1..Len(s.words) : HasDollar(s.words[i])
      BY <2>2 DEF Dollar
    <3>2. i \in 1..Len(t.words) /\ t.words[i] = s.words[i]
      BY <1>0, <1>3
    <3>3. QED  BY <3>1, <3>2 DEF Dollar
  <2>3. QED  BY <2>1, <2>2
<1>4. Kept(s, t) \/ Taken(s, t) \/ (t.words = Append(s.words, s.word) /\ t.word = <<>>)
  <2>1. "bs" \in Chars
    BY DEF Chars, Special
  <2>2. <<c>> \in Seq(Chars) /\ <<"bs", c>> \in Seq(Chars)
    BY <2>1
  <2>3. QED  BY <2>2 DEF Consumed, Taken, Closed
<1>5. QED  BY <1>1, <1>2, <1>3, <1>4

\* An assignment at the head of the words stays there.
LEMMA AssignmentStays ==
  ASSUME NEW s \in Splits, NEW t \in Splits, NEW c, NEW blanks, NEW escapable,
         Consumed(s, c, t, blanks, escapable), Assignment(FirstWord(s)), c \in Chars
  PROVE  Assignment(FirstWord(t))
<1>0. /\ s.words \in Seq(Seq(Chars)) /\ s.word \in Seq(Chars)
      /\ t.words \in Seq(Seq(Chars)) /\ t.word \in Seq(Chars)
  BY DEF Splits
<1>1. CASE Kept(s, t)
  BY <1>1 DEF Kept, FirstWord
<1>2. CASE Taken(s, t)
  <2>1. PICK chars \in Seq(Chars) : t.word = s.word \o chars
    BY <1>2 DEF Taken
  <2>2. Assignment(s.word) => Assignment(t.word)
    <3>1. SUFFICES ASSUME NEW k \in 2..Len(s.word), s.word[k] = "=",
                          \A i \in 1..(k - 1) : s.word[i] \in Letters
                   PROVE  Assignment(t.word)
      BY DEF Assignment
    <3>2. k \in 2..Len(t.word) /\ t.word[k] = "="
      BY <1>0, <2>1, <3>1
    <3>3. \A i \in 1..(k - 1) : t.word[i] = s.word[i]
      BY <1>0, <2>1, <3>1
    <3>4. QED  BY <3>1, <3>2, <3>3 DEF Assignment
  <2>3. QED  BY <1>2, <2>2 DEF Taken, FirstWord
<1>3. CASE t.words = Append(s.words, s.word) /\ t.word = <<>>
  <2>1. Len(t.words) = Len(s.words) + 1 /\ Len(s.words) \in Nat
    BY <1>0, <1>3
  <2>2. CASE s.words = <<>>
    <3>1. t.words = <<s.word>>
      BY <1>3, <2>2
    <3>2. QED  BY <2>2, <3>1 DEF FirstWord
  <2>3. CASE s.words # <<>>
    <3>1. Len(s.words) >= 1
      BY <1>0, <2>3
    <3>2. t.words[1] = s.words[1]
      BY <1>0, <1>3, <3>1
    <3>3. t.words # <<>>
      BY <2>1
    <3>4. QED  BY <2>3, <3>2, <3>3 DEF FirstWord
  <2>4. QED  BY <2>2, <2>3
<1>4. Kept(s, t) \/ Taken(s, t) \/ (t.words = Append(s.words, s.word) /\ t.word = <<>>)
  <2>1. "bs" \in Chars
    BY DEF Chars, Special
  <2>2. <<c>> \in Seq(Chars) /\ <<"bs", c>> \in Seq(Chars)
    BY <2>1
  <2>3. QED  BY <2>2 DEF Consumed, Taken, Closed
<1>5. QED  BY <1>1, <1>2, <1>3, <1>4

-----------------------------------------------------------------------------
\* What a character does to the scanner, case by case.
ScanForm(s, c, t) ==
  \/ /\ c = "NL"
     /\ t = [quote |-> s.quote, escaped |-> s.escaped, start |-> s.start, flagged |-> TRUE]
  \/ /\ c # "NL" /\ s.escaped
     /\ t = [quote |-> s.quote, escaped |-> FALSE, start |-> FALSE, flagged |-> s.flagged]
  \/ /\ c # "NL" /\ ~s.escaped /\ s.quote = "sq"
     /\ t = [quote |-> IF c = "sq" THEN "no" ELSE "sq", escaped |-> FALSE,
             start |-> s.start, flagged |-> s.flagged]
  \/ /\ c # "NL" /\ ~s.escaped /\ s.quote = "dq"
     /\ t = [quote |-> IF c = "dq" THEN "no" ELSE "dq", escaped |-> (c = "bs"),
             start |-> s.start, flagged |-> (s.flagged \/ c \in Expanded)]
  \/ /\ c # "NL" /\ ~s.escaped /\ s.quote = "no"
     /\ t = [quote |-> IF c \in {"sq", "dq"} THEN c ELSE "no", escaped |-> (c = "bs"),
             start |-> IF c = "bs" THEN s.start ELSE c \in {"sp", "CR"},
             flagged |-> (\/ s.flagged \/ c \in Punctuation \cup {"*", "$", "bq", "~"}
                          \/ (c = "#" /\ s.start))]

\* The scanner does with a character what ScanForm lists.
LEMMA ScannedForm ==
  ASSUME NEW s \in Scans, NEW c \in Chars
  PROVE  ScanForm(s, c, Scanned(s, c))
<1>0. s = [quote |-> s.quote, escaped |-> s.escaped, start |-> s.start, flagged |-> s.flagged]
      /\ s.quote \in {"no", "sq", "dq"} /\ s.escaped \in BOOLEAN
  BY DEF Scans
<1>1. CASE c = "NL"
  <2>1. Scanned(s, c) = [s EXCEPT !.flagged = TRUE]
    BY <1>1 DEF Scanned
  <2>2. QED  BY <1>0, <1>1, <2>1 DEF ScanForm
<1>2. CASE c # "NL" /\ s.escaped
  <2>1. Scanned(s, c) = [s EXCEPT !.escaped = FALSE, !.start = FALSE]
    BY <1>2 DEF Scanned
  <2>2. QED  BY <1>0, <1>2, <2>1 DEF ScanForm
<1>3. CASE c # "NL" /\ ~s.escaped /\ s.quote = "sq"
  <2>1. Scanned(s, c) = [s EXCEPT !.quote = IF c = "sq" THEN "no" ELSE @]
    BY <1>3 DEF Scanned
  <2>2. QED  BY <1>0, <1>3, <2>1 DEF ScanForm, Scans
<1>4. CASE c # "NL" /\ ~s.escaped /\ s.quote = "dq"
  <2>1. Scanned(s, c) = [s EXCEPT !.quote = IF c = "dq" THEN "no" ELSE @,
                                  !.escaped = (c = "bs"),
                                  !.flagged = @ \/ c \in Expanded]
    BY <1>4 DEF Scanned
  <2>2. QED  BY <1>0, <1>4, <2>1 DEF ScanForm, Scans
<1>5. CASE c # "NL" /\ ~s.escaped /\ s.quote = "no"
  <2>1. Scanned(s, c) = [s EXCEPT !.quote = IF c \in {"sq", "dq"} THEN c ELSE @,
                   !.escaped = (c = "bs"),
                   !.start = IF c = "bs" THEN @ ELSE c \in {"sp", "CR"},
                   !.flagged = \/ @ \/ c \in Punctuation \cup {"*", "$", "bq", "~"}
                               \/ (c = "#" /\ s.start)]
    BY <1>5 DEF Scanned
  <2>2. QED  BY <1>0, <1>5, <2>1 DEF ScanForm, Scans
<1>6. QED  BY <1>0, <1>1, <1>2, <1>3, <1>4, <1>5

\* The empty command satisfies the invariant.
LEMMA ShellInit == Init => ShellInv
<1> SUFFICES ASSUME Init PROVE ShellInv
  OBVIOUS
<1>1. Unsplit \in Splits /\ Between(Unsplit)
  BY DEF Unsplit, Splits, Between
<1>2. Typed
  BY <1>1 DEF Init, Typed, Scans
<1>3. Corresponding /\ Together /\ SameWords
  BY DEF Init, Unsplit, Corresponding, Together, SameWords
<1>4. QED  BY <1>1, <1>2, <1>3 DEF Init, ShellInv

\* A character keeps the types, and the words empty between words.
LEMMA TypeTyped ==
  ASSUME ShellInv, NEW c \in Chars, Type(c)
  PROVE  /\ Typed'
         /\ Between(lex)' /\ Between(shell)'
         /\ Consumed(lex, c, lex', LexBlanks, LexEscapable)
         /\ Consumed(shell, c, shell', ShellBlanks, ShellEscapable)
<1>1. /\ lex' \in Splits
      /\ Consumed(lex, c, lex', LexBlanks, LexEscapable)
  BY SplitEffect DEF ShellInv, Typed, Type, LexBlanks
<1>2. /\ shell' \in Splits
      /\ Consumed(shell, c, shell', ShellBlanks, ShellEscapable)
  BY SplitEffect DEF ShellInv, Typed, Type, ShellBlanks
<1>3. Between(lex)'
  BY <1>1 DEF Consumed, Closed, Kept, Between, ShellInv, Typed, Splits, Bare
<1>4. Between(shell)'
  BY <1>2 DEF Consumed, Closed, Kept, Between, ShellInv, Typed, Splits, Bare
<1>5. scan' \in Scans
  <2>1. scan' = Scanned(scan, c) /\ scan \in Scans
    BY DEF Type, ShellInv, Typed
  <2>2. ScanForm(scan, c, scan')
    BY <2>1, ScannedForm
  <2>3. /\ scan.quote \in {"no", "sq", "dq"} /\ scan.escaped \in BOOLEAN
        /\ scan.start \in BOOLEAN /\ scan.flagged \in BOOLEAN
    BY <2>1 DEF Scans
  <2>4. ASSUME NEW q \in {"no", "sq", "dq"}, NEW e \in BOOLEAN, NEW n \in BOOLEAN, NEW f \in BOOLEAN
        PROVE  [quote |-> q, escaped |-> e, start |-> n, flagged |-> f] \in Scans
    BY DEF Scans
  <2> DEFINE flags == \/ scan.flagged \/ c \in Punctuation \cup {"*", "$", "bq", "~"}
                      \/ (c = "#" /\ scan.start)
  <2>5. (c = "bs") \in BOOLEAN /\ (scan.flagged \/ c \in Expanded) \in BOOLEAN /\ flags \in BOOLEAN
    OBVIOUS
  <2>6. (IF c = "bs" THEN scan.start ELSE c \in {"sp", "CR"}) \in BOOLEAN
    <3>1. (c \in {"sp", "CR"}) \in BOOLEAN
      OBVIOUS
    <3>2. CASE c = "bs"  BY <2>3, <3>2
    <3>3. CASE c # "bs"  BY <3>1, <3>3, Zenon
    <3>4. QED  BY <3>2, <3>3
  <2> HIDE DEF flags
  <2>7. /\ (IF c = "sq" THEN "no" ELSE "sq") \in {"no", "sq", "dq"}
        /\ (IF c = "dq" THEN "no" ELSE "dq") \in {"no", "sq", "dq"}
        /\ (IF c \in {"sq", "dq"} THEN c ELSE "no") \in {"no", "sq", "dq"}
    OBVIOUS
  <2>8. CASE c = "NL"
    BY <2>2, <2>3, <2>4, <2>8 DEF ScanForm
  <2>9. CASE c # "NL" /\ scan.escaped
    BY <2>2, <2>3, <2>4, <2>9 DEF ScanForm
  <2>10. CASE c # "NL" /\ ~scan.escaped /\ scan.quote = "sq"
    BY <2>2, <2>3, <2>4, <2>7, <2>10 DEF ScanForm
  <2>11. CASE c # "NL" /\ ~scan.escaped /\ scan.quote = "dq"
    BY <2>2, <2>3, <2>4, <2>5, <2>7, <2>11, Zenon DEF ScanForm
  <2>12. CASE c # "NL" /\ ~scan.escaped /\ scan.quote = "no"
    <3> DEFINE quote == IF c \in {"sq", "dq"} THEN c ELSE "no"
               start == IF c = "bs" THEN scan.start ELSE c \in {"sp", "CR"}
               back  == c = "bs"
    <3>1. scan' = [quote |-> quote, escaped |-> back, start |-> start, flagged |-> flags]
      BY <2>2, <2>12, Zenon DEF ScanForm, flags
    <3>2. /\ quote \in {"no", "sq", "dq"}
          /\ back \in BOOLEAN /\ start \in BOOLEAN /\ flags \in BOOLEAN
      BY <2>5, <2>6, <2>7, Zenon
    <3> HIDE DEF quote, start, back
    <3>3. QED  BY <2>4, <3>1, <3>2
  <2>13. QED  BY <2>2, <2>3, <2>8, <2>9, <2>10, <2>11, <2>12 DEF ScanForm
<1>6. active' \in BOOLEAN /\ plain' \in BOOLEAN /\ apart' \in BOOLEAN
  BY DEF Type, ShellInv, Typed
<1>7. QED  BY <1>1, <1>2, <1>3, <1>4, <1>5, <1>6 DEF Typed

-----------------------------------------------------------------------------
\* What a step that does not flag says of the character and the scanner.
Unflagging(s, c, t) ==
  /\ c # "NL" /\ ~s.flagged
  /\ s.escaped => ~t.escaped /\ t.quote = s.quote
  /\ ~s.escaped /\ s.quote = "sq" =>
       ~t.escaped /\ t.quote = IF c = "sq" THEN "no" ELSE "sq"
  /\ ~s.escaped /\ s.quote = "dq" =>
       /\ c \notin Expanded
       /\ t.escaped <=> c = "bs"
       /\ t.quote = IF c = "dq" THEN "no" ELSE "dq"
  /\ ~s.escaped /\ s.quote = "no" =>
       /\ c \notin Punctuation \cup {"*", "$", "bq", "~"}
       /\ ~(c = "#" /\ s.start)
       /\ t.escaped <=> c = "bs"
       /\ t.quote = IF c \in {"sq", "dq"} THEN c ELSE "no"
       /\ c = "sp" => t.start

\* A scanner that does not flag a character has one of few reasons.
LEMMA ScanUnflagged ==
  ASSUME NEW s \in Scans, NEW c, NEW t, ScanForm(s, c, t), ~t.flagged
  PROVE  Unflagging(s, c, t)
<1>1. c # "NL"
  BY DEF ScanForm
<1>2. CASE s.escaped
  BY <1>1, <1>2 DEF ScanForm, Unflagging
<1>3. CASE ~s.escaped /\ s.quote = "sq"
  BY <1>1, <1>3 DEF ScanForm, Unflagging
<1>4. CASE ~s.escaped /\ s.quote = "dq"
  <2> DEFINE back == c = "bs"
             flags == s.flagged \/ c \in Expanded
  <2>1. t = [quote |-> IF c = "dq" THEN "no" ELSE "dq", escaped |-> back,
             start |-> s.start, flagged |-> flags]
    BY <1>1, <1>4, Zenon DEF ScanForm
  <2>2. (back <=> c = "bs") /\ (flags <=> s.flagged \/ c \in Expanded)
    OBVIOUS
  <2> HIDE DEF back, flags
  <2>3. (t.escaped <=> back) /\ ~flags /\ t.quote = IF c = "dq" THEN "no" ELSE "dq"
    BY <2>1
  <2>4. QED  BY <1>1, <1>4, <2>2, <2>3 DEF Unflagging
<1>5. CASE ~s.escaped /\ s.quote = "no"
  <2> DEFINE back == c = "bs"
             blank == c \in {"sp", "CR"}
             start == IF c = "bs" THEN s.start ELSE blank
             flags == \/ s.flagged \/ c \in Punctuation \cup {"*", "$", "bq", "~"}
                      \/ (c = "#" /\ s.start)
  <2>1. t = [quote |-> IF c \in {"sq", "dq"} THEN c ELSE "no", escaped |-> back,
             start |-> start, flagged |-> flags]
    BY <1>1, <1>5, Zenon DEF ScanForm
  <2>2. /\ back <=> c = "bs"
        /\ flags <=> \/ s.flagged \/ c \in Punctuation \cup {"*", "$", "bq", "~"}
                     \/ (c = "#" /\ s.start)
        /\ c = "sp" => start
    <3>1. c = "sp" => blank /\ start = blank
      OBVIOUS
    <3>2. QED  BY <3>1
  <2> HIDE DEF back, flags, start
  <2>3. /\ (t.escaped <=> back) /\ ~flags /\ (start => t.start)
        /\ t.quote = IF c \in {"sq", "dq"} THEN c ELSE "no"
    BY <2>1
  <2>4. QED  BY <1>1, <1>5, <2>2, <2>3 DEF Unflagging
<1>6. QED  BY <1>2, <1>3, <1>4, <1>5 DEF Scans

\* What is neither flagged nor split differently after a step, was not before.
LEMMA Unflagged ==
  ASSUME ShellInv, NEW c \in Chars, Type(c), ~apart', ~scan'.flagged
  PROVE  /\ ~apart /\ ~Parts(c)
         /\ Unflagging(scan, c, scan')
         /\ Corresponding /\ Together
         /\ Dollar(lex) \/ SameWords
         /\ active => Dollar(lex) \/ Assignment(FirstWord(lex))
<1>1. Unflagging(scan, c, scan')
  <2>1. ScanForm(scan, c, scan')
    BY ScannedForm DEF ShellInv, Typed, Type
  <2>2. QED  BY <2>1, ScanUnflagged DEF ShellInv, Typed
<1>2. ~apart /\ ~Parts(c)
  BY DEF Type, ShellInv, Typed
<1>3. ~scan.flagged
  BY <1>1 DEF Unflagging
<1>4. QED  BY <1>1, <1>2, <1>3 DEF ShellInv

\* The states of scanner, shlex and shell go on corresponding.
LEMMA CorrespondingStays ==
  ASSUME ShellInv, NEW c \in Chars, Type(c), ~apart', ~scan'.flagged
  PROVE  Corresponding' /\ Together'
<1>0. /\ ~Parts(c) /\ c # "NL" /\ Unflagging(scan, c, scan')
      /\ Corresponding /\ Together
  BY Unflagged DEF Unflagging
<1>1. /\ Consumed(lex, c, lex', LexBlanks, LexEscapable)
      /\ Consumed(shell, c, shell', ShellBlanks, ShellEscapable)
      /\ lex.at \in {"between", "word", "sq", "dq", "bs"} /\ lex.back \in {"word", "dq"}
  BY TypeTyped DEF ShellInv, Typed, Splits
<1>2. CASE Bare(lex)
  <2>1. c # "CR" /\ (c \in LexBlanks <=> c = "sp") /\ (c \in ShellBlanks <=> c = "sp")
    BY <1>0, <1>2 DEF Parts, LexBlanks, ShellBlanks
  <2>2. ~scan.escaped /\ scan.quote = "no" /\ Bare(shell)
    BY <1>0, <1>2 DEF Corresponding, Together, Bare
  <2>3. /\ scan'.quote = (IF c \in {"sq", "dq"} THEN c ELSE "no")
        /\ scan'.escaped <=> c = "bs"
        /\ c = "sp" => scan'.start
    BY <1>0, <2>2 DEF Unflagging
  <2>4. /\ lex'.at = (CASE c = "sp" -> "between" [] c = "bs" -> "bs"
                       [] c \in {"sq", "dq"} -> c
                       [] c \notin {"sp", "bs", "sq", "dq"} -> "word")
        /\ lex'.back = (IF c = "bs" THEN "word" ELSE lex.back)
    BY <1>1, <1>2, <2>1 DEF Consumed, Bare
  <2>5. shell'.at = lex'.at /\ shell'.back = lex'.back
    BY <1>0, <1>1, <1>2, <2>1, <2>2 DEF Consumed, Bare, Together
  <2>6. CASE c = "sp"
    BY <2>3, <2>4, <2>5, <2>6 DEF Corresponding, Together, Bare
  <2>7. CASE c = "bs"
    BY <2>3, <2>4, <2>5, <2>7 DEF Corresponding, Together, Bare
  <2>8. CASE c \in {"sq", "dq"}
    BY <2>3, <2>4, <2>5, <2>8 DEF Corresponding, Together, Bare
  <2>9. CASE c \notin {"sp", "bs", "sq", "dq"}
    BY <2>3, <2>4, <2>5, <2>9 DEF Corresponding, Together, Bare
  <2>10. QED  BY <2>6, <2>7, <2>8, <2>9
<1>3. CASE lex.at = "sq"
  <2>1. ~scan.escaped /\ scan.quote = "sq"
    BY <1>0, <1>3 DEF Corresponding
  <2>2. ~scan'.escaped /\ scan'.quote = (IF c = "sq" THEN "no" ELSE "sq")
    BY <1>0, <2>1 DEF Unflagging
  <2>3. lex'.at = (IF c = "sq" THEN "word" ELSE "sq")
    BY <1>1, <1>3 DEF Consumed, Bare
  <2>4. shell'.at = lex'.at /\ shell'.back = lex'.back
    BY <1>0, <1>1, <1>3 DEF Consumed, Bare, Together
  <2>5. QED  BY <2>2, <2>3, <2>4 DEF Corresponding, Together, Bare
<1>4. CASE lex.at = "dq"
  <2>1. ~scan.escaped /\ scan.quote = "dq"
    BY <1>0, <1>4 DEF Corresponding
  <2>2. (scan'.escaped <=> c = "bs") /\ scan'.quote = (IF c = "dq" THEN "no" ELSE "dq")
    BY <1>0, <2>1 DEF Unflagging
  <2>3. /\ lex'.at = (CASE c = "dq" -> "word" [] c = "bs" -> "bs" [] c \notin {"dq", "bs"} -> "dq")
        /\ c = "bs" => lex'.back = "dq"
    BY <1>1, <1>4 DEF Consumed, Bare
  <2>4. shell'.at = lex'.at /\ shell'.back = lex'.back
    BY <1>0, <1>1, <1>4 DEF Consumed, Bare, Together
  <2>5. QED  BY <2>2, <2>3, <2>4 DEF Corresponding, Together, Bare
<1>5. CASE lex.at = "bs"
  <2>1. scan.escaped /\ scan.quote = (IF lex.back = "dq" THEN "dq" ELSE "no")
    BY <1>0, <1>5 DEF Corresponding
  <2>2. ~scan'.escaped /\ scan'.quote = scan.quote
    BY <1>0, <2>1 DEF Unflagging
  <2>3. lex'.at = lex.back
    BY <1>1, <1>5 DEF Consumed, Bare
  <2>4. shell'.at = lex'.at /\ shell'.back = lex'.back
    BY <1>0, <1>1, <1>5 DEF Consumed, Bare, Together
  <2>5. QED  BY <1>1, <2>1, <2>2, <2>3, <2>4 DEF Corresponding, Together, Bare
<1>6. QED  BY <1>1, <1>2, <1>3, <1>4, <1>5 DEF Bare

\* shlex and the shell go on with the same words, but for an escaped dollar.
LEMMA WordsStay ==
  ASSUME ShellInv, NEW c \in Chars, Type(c), ~apart', ~scan'.flagged
  PROVE  Dollar(lex)' \/ SameWords'
<1>0. /\ ~Parts(c) /\ c # "NL" /\ Corresponding /\ Together
      /\ Dollar(lex) \/ SameWords
  BY Unflagged DEF Unflagging
<1>1. /\ Consumed(lex, c, lex', LexBlanks, LexEscapable)
      /\ Consumed(shell, c, shell', ShellBlanks, ShellEscapable)
      /\ lex \in Splits /\ lex' \in Splits /\ Between(lex)
      /\ lex.at \in {"between", "word", "sq", "dq", "bs"}
      /\ lex.word \in Seq(Chars)
  BY TypeTyped DEF ShellInv, Typed, Splits
<1>2. CASE Dollar(lex)
  BY <1>1, <1>2, DollarStays
<1>3. CASE SameWords /\ Bare(lex)
  <2>1. c # "CR" /\ (c \in LexBlanks <=> c = "sp") /\ (c \in ShellBlanks <=> c = "sp")
    BY <1>0, <1>3 DEF Parts, LexBlanks, ShellBlanks
  <2>2. CASE c = "sp"
    <3>1. Closed(lex, lex')
      BY <1>1, <1>3, <2>1, <2>2 DEF Consumed, Bare
    <3>2. Closed(shell, shell')
      BY <1>0, <1>1, <1>3, <2>1, <2>2 DEF Consumed, Bare, Together
    <3>3. QED  BY <1>0, <1>3, <3>1, <3>2, Zenon DEF Together, SameWords, Closed, Kept
  <2>3. CASE c \in {"bs", "sq", "dq"}
    BY <1>0, <1>1, <1>3, <2>1, <2>3 DEF Consumed, Bare, Together, SameWords, Kept
  <2>4. CASE c \notin {"sp", "bs", "sq", "dq"}
    <3>1. lex'.words = lex.words /\ lex'.word = lex.word \o <<c>>
      BY <1>1, <1>3, <2>1, <2>4 DEF Consumed, Bare
    <3>2. shell'.words = shell.words /\ shell'.word = shell.word \o <<c>>
      BY <1>0, <1>1, <1>3, <2>1, <2>4 DEF Consumed, Bare, Together
    <3>3. QED  BY <1>3, <3>1, <3>2, Zenon DEF SameWords
  <2>5. QED  BY <2>2, <2>3, <2>4
<1>4. CASE SameWords /\ lex.at \in {"sq", "dq"}
  <2> DEFINE kept == c = lex.at \/ (lex.at = "dq" /\ c = "bs")
  <2>1. /\ lex'.words = lex.words
        /\ lex'.word = IF kept THEN lex.word ELSE lex.word \o <<c>>
    BY <1>1, <1>4 DEF Consumed, Bare, Kept
  <2>2. /\ shell'.words = shell.words
        /\ shell'.word = IF kept THEN shell.word ELSE shell.word \o <<c>>
    BY <1>0, <1>1, <1>4 DEF Consumed, Bare, Together, Kept
  <2>3. QED  BY <1>4, <2>1, <2>2, Zenon DEF SameWords
<1>5. CASE SameWords /\ lex.at = "bs"
  <2>1. /\ lex'.words = lex.words /\ shell'.words = lex.words
        /\ lex'.word = lex.word \o (IF lex.back = "dq" /\ c \notin LexEscapable
                                  THEN <<"bs", c>> ELSE <<c>>)
        /\ shell'.word = lex.word \o (IF lex.back = "dq" /\ c \notin ShellEscapable
                                    THEN <<"bs", c>> ELSE <<c>>)
    BY <1>0, <1>1, <1>5 DEF Consumed, Bare, Together, SameWords
  <2>2. CASE lex.back = "dq" /\ c = "$"
    <3>1. lex'.word = lex.word \o <<"bs", "$">>
      BY <2>1, <2>2 DEF LexEscapable
    <3>2. Len(lex.word) + 2 \in 1..Len(lex'.word) /\ lex'.word[Len(lex.word) + 2] = "$"
      <4>1. "bs" \in Chars /\ "$" \in Chars
        BY DEF Chars, Special
      <4>2. QED  BY <1>1, <3>1, <4>1
    <3>3. QED  BY <3>2 DEF Dollar, HasDollar
  <2>3. CASE ~(lex.back = "dq" /\ c = "$")
    <3>1. lex.back = "dq" => (c \in LexEscapable <=> c \in ShellEscapable)
      BY <1>0, <1>5, <2>3 DEF Parts, LexEscapable, ShellEscapable
    <3>2. QED  BY <2>1, <3>1 DEF SameWords
  <2>4. QED  BY <2>2, <2>3
<1>6. QED  BY <1>0, <1>1, <1>2, <1>3, <1>4, <1>5 DEF Bare

\* What makes the shell do more is flagged, but for an assignment before the
\* command, and that stays at the head of the words.
LEMMA ActivityStays ==
  ASSUME ShellInv, NEW c \in Chars, Type(c), ~apart', ~scan'.flagged
  PROVE  active' => Dollar(lex)' \/ Assignment(FirstWord(lex))'
<1>0. /\ Unflagging(scan, c, scan') /\ Corresponding /\ Together
      /\ Dollar(lex) \/ SameWords
      /\ active => Dollar(lex) \/ Assignment(FirstWord(lex))
  BY Unflagged
<1>1. /\ Consumed(lex, c, lex', LexBlanks, LexEscapable)
      /\ lex \in Splits /\ lex' \in Splits /\ Between(lex)
      /\ lex.at \in {"between", "word", "sq", "dq", "bs"}
  BY TypeTyped DEF ShellInv, Typed, Splits
<1>2. SUFFICES ASSUME active' PROVE Dollar(lex)' \/ Assignment(FirstWord(lex))'
  OBVIOUS
<1>3. CASE Dollar(lex)
  BY <1>1, <1>3, DollarStays
<1>4. CASE ~Dollar(lex) /\ active
  <2>1. Assignment(FirstWord(lex))
    BY <1>0, <1>4
  <2>2. QED  BY <1>1, <2>1, AssignmentStays
<1>5. CASE ~Dollar(lex) /\ ~active
  <2>1. Activates(c)
    BY <1>2, <1>5 DEF Type
  <2>2. (Bare(lex) <=> Bare(shell)) /\ lex.at = shell.at
    BY <1>0 DEF Together, Bare
  <2>3. ~(Bare(shell) /\ c \in Punctuation \cup {"*", "$", "bq", "~", "NL"})
    BY <1>0, <2>2 DEF Unflagging, Corresponding, Bare
  <2>4. ~(shell.at = "between" /\ c = "#")
    BY <1>0, <2>2 DEF Unflagging, Corresponding, Bare
  <2>5. ~(shell.at = "dq" /\ c \in {"$", "bq"})
    BY <1>0, <2>2 DEF Unflagging, Corresponding, Expanded
  <2>6. /\ Bare(lex) /\ c = "=" /\ shell.words = <<>>
        /\ Assignment(Append(shell.word, c))
    BY <2>1, <2>2, <2>3, <2>4, <2>5 DEF Activates
  <2>7. lex'.words = lex.words /\ lex'.word = lex.word \o <<c>>
    BY <1>1, <2>6 DEF Consumed, Bare, LexBlanks
  <2>8. lex.words = shell.words /\ lex.word = shell.word
    BY <1>0, <1>5 DEF SameWords
  <2>9. lex'.words = <<>> /\ lex'.word = Append(shell.word, c)
    BY <1>1, <2>6, <2>7, <2>8 DEF Splits
  <2>10. QED  BY <2>6, <2>9 DEF FirstWord
<1>6. QED  BY <1>3, <1>4, <1>5

\* The invariant is inductive.
LEMMA ShellStep == ShellInv /\ [Next]_command => ShellInv'
<1>1. ASSUME ShellInv, NEW c \in Chars, Type(c) PROVE ShellInv'
  <2>1. Typed' /\ Between(lex)' /\ Between(shell)'
    BY <1>1, TypeTyped
  <2>2. ASSUME ~apart', ~scan'.flagged
        PROVE  /\ Corresponding' /\ Together'
               /\ Dollar(lex)' \/ SameWords'
               /\ active' => Dollar(lex)' \/ Assignment(FirstWord(lex))'
    BY <1>1, <2>2, CorrespondingStays, WordsStay, ActivityStays
  <2>3. QED  BY <2>1, <2>2 DEF ShellInv
<1>2. ASSUME ShellInv, UNCHANGED command PROVE ShellInv'
  BY <1>2 DEF ShellInv, Typed, Between, Corresponding, Together, Dollar, SameWords, FirstWord,
             Bare, command
<1>3. QED  BY <1>1, <1>2 DEF Next

-----------------------------------------------------------------------------
\* What leaves a trace in the words is refused.
LEMMA ShellMeans == ShellInv => SameMeaning
<1> SUFFICES ASSUME ShellInv, StrictShellTokens # None, ~apart
             PROVE  ~active /\ WordsOf(shell) = StrictShellTokens
  BY DEF SameMeaning
<1> DEFINE words == WordsOf(lex)
<1>1. /\ ~HasUnquotedShellSemantics /\ words # <<>>
      /\ \A i \in 1..Len(words) : ~Refused(words[i])
      /\ ~Assignment(words[1])
      /\ StrictShellTokens = words
  BY DEF StrictShellTokens
<1>2. /\ Corresponding /\ Together
      /\ Dollar(lex) \/ SameWords
      /\ active => Dollar(lex) \/ Assignment(FirstWord(lex))
  BY <1>1 DEF HasUnquotedShellSemantics, ShellInv
<1>3. lex.words \in Seq(Seq(Chars)) /\ lex.word \in Seq(Chars)
  BY DEF ShellInv, Typed, Splits
<1>4. ~Dollar(lex)
  <2>1. ASSUME NEW i \in 1..Len(lex.words) PROVE ~HasDollar(lex.words[i])
    <3>1. i \in 1..Len(words) /\ words[i] = lex.words[i]
      BY <1>3 DEF WordsOf
    <3>2. QED  BY <1>1, <3>1 DEF Refused, HasDollar
  <2>2. ~HasDollar(lex.word)
    <3>1. CASE lex.at = "between"
      BY <3>1 DEF ShellInv, Between, HasDollar
    <3>2. CASE lex.at # "between"
      <4>1. Len(words) \in 1..Len(words) /\ words[Len(words)] = lex.word
        BY <1>3, <3>2 DEF WordsOf
      <4>2. QED  BY <1>1, <4>1 DEF Refused, HasDollar
    <3>3. QED  BY <3>1, <3>2
  <2>3. QED  BY <2>1, <2>2 DEF Dollar
<1>5. words[1] = FirstWord(lex)
  <2>1. CASE lex.words = <<>>
    <3>1. lex.at # "between" /\ words = <<lex.word>>
      BY <1>1, <2>1 DEF WordsOf
    <3>2. QED  BY <2>1, <3>1 DEF FirstWord
  <2>2. CASE lex.words # <<>>
    <3>1. Len(lex.words) >= 1
      BY <1>3, <2>2
    <3>2. words[1] = lex.words[1]
      BY <1>3, <3>1 DEF WordsOf
    <3>3. QED  BY <2>2, <3>2 DEF FirstWord
  <2>3. QED  BY <2>1, <2>2
<1>6. ~active
  BY <1>1, <1>2, <1>4, <1>5
<1>7. WordsOf(shell) = words
  BY <1>2, <1>4, Zenon DEF WordsOf, SameWords, Together
<1>8. QED  BY <1>1, <1>6, <1>7

\* Whatever its length and whatever is quoted and escaped in it, a command of
\* which strict_shell_tokens makes an argv would have been split by the shell
\* into these words, and nothing in it expanded, composed, redirected, commented
\* or assigned, unless a carriage return outside quotes or an escaped backquote
\* in double quotes is in it.  It does not say that the shell takes the first
\* word for a command: reserved words and "a+=1" pass (Leads).
THEOREM ArgvMeansTheCommand == Spec => []SameMeaning
<1>1. Spec => []ShellInv
  BY ShellInit, ShellStep, PTL DEF Spec
<1>2. QED  BY <1>1, ShellMeans, PTL

-----------------------------------------------------------------------------
(* What an argv stands for *)

IsWords(ws) == ws \in Seq(ToSet(ws))
Python == ".venv/bin/python"
Client == "code_mode_client.py"

\* The words from some word on are words.
LEMMA RestIsWords ==
  ASSUME NEW ws, IsWords(ws), NEW k \in Nat, k <= Len(ws)
  PROVE  LET rest == SubSeq(ws, k + 1, Len(ws))
         IN  /\ IsWords(rest) /\ Len(ws) \in Nat /\ Len(rest) = Len(ws) - k
             /\ \A i \in 1..Len(rest) : rest[i] = ws[k + i]
             /\ ToSet(rest) \subseteq ToSet(ws)
<1> DEFINE rest == SubSeq(ws, k + 1, Len(ws))
<1>1. Len(ws) \in Nat /\ \A i \in 1..Len(ws) : ws[i] \in ToSet(ws)
  BY DEF IsWords, ToSet
<1>2. /\ rest \in Seq(ToSet(ws))
      /\ Len(rest) = Len(ws) - k
      /\ \A i \in 1..Len(rest) : rest[i] = ws[k + i]
  <2>1. \A i \in (k + 1)..Len(ws) : ws[i] \in ToSet(ws)
    BY <1>1
  <2>2. /\ rest \in Seq(ToSet(ws))
        /\ Len(rest) = IF k + 1 <= Len(ws) THEN Len(ws) - (k + 1) + 1 ELSE 0
        /\ \A i \in 1..(Len(ws) - (k + 1) + 1) : rest[i] = ws[(k + 1) + i - 1]
    BY <1>1, <2>1, SubSeqProperties
  <2> HIDE DEF rest
  <2>3. Len(rest) = Len(ws) - k
    BY <1>1, <2>2
  <2>4. QED  BY <1>1, <2>2, <2>3
<1> HIDE DEF rest
<1>3. rest \in Seq(ToSet(rest)) /\ ToSet(rest) \subseteq ToSet(ws)
  BY <1>2 DEF ToSet
<1>4. QED  BY <1>1, <1>2, <1>3 DEF IsWords, rest

\* The first words of an argv.
LEMMA BeginsWith ==
  ASSUME NEW ws, IsWords(ws), NEW S, NEW p \in Seq(S), Begins(ws, p)
  PROVE  /\ Len(ws) \in Nat /\ Len(p) \in Nat /\ Len(p) <= Len(ws)
         /\ \A i \in 1..Len(p) : ws[i] = p[i]
<1>1. /\ Len(ws) \in Nat /\ Len(p) \in Nat /\ Len(p) <= Len(ws)
      /\ SubSeq(p, 1, Len(p)) = SubSeq(ws, 1, Len(p))
  BY DEF IsWords, Begins, IsPrefix
<1>2. ASSUME NEW i \in 1..Len(p) PROVE ws[i] = p[i]
  <2>1. SubSeq(p, 1, Len(p))[i] = p[i]
    BY <1>1
  <2>2. SubSeq(ws, 1, Len(p))[i] = ws[i]
    BY <1>1 DEF IsWords
  <2>3. QED  BY <1>1, <2>1, <2>2
<1>3. QED  BY <1>1, <1>2

LEMMA BeginsTwo ==
  ASSUME NEW ws, IsWords(ws), NEW x, NEW y, Begins(ws, <<W(x), W(y)>>)
  PROVE  Len(ws) \in Nat /\ Len(ws) >= 2 /\ ws[1] = W(x) /\ ws[2] = W(y) /\ First(ws) = x
<1> DEFINE p == <<W(x), W(y)>>
<1>1. /\ p \in Seq({W(x), W(y)}) /\ Len(p) = 2 /\ p[1] = W(x) /\ p[2] = W(y)
  OBVIOUS
<1> HIDE DEF p
<1>2. Len(ws) \in Nat /\ Len(ws) >= 2 /\ ws[1] = W(x) /\ ws[2] = W(y)
  <2>1. Begins(ws, p)
    BY DEF p
  <2>2. QED  BY <1>1, <2>1, BeginsWith
<1>3. ws # <<>>
  BY <1>2
<1>4. QED  BY <1>2, <1>3 DEF First, W

\* An argv for the interpreter of the workbook and one of its scripts
Scripted(ws) == /\ Len(ws) \in Nat /\ Len(ws) >= 2 /\ ws[1] = W(Python)
                /\ ws[2] \in {W(Client), W("workbook_cli.py")}

\* It stands for nothing unless it is an exact command line of the workbook.
LEMMA PythonIsNotGeneral ==
  ASSUME NEW ws, IsWords(ws), NEW dir, Scripted(ws)
  PROVE  ~Recognized(ClassifyGeneralArgv(ws, dir))
<1>0. First(ws) = Python /\ Name(ws) = "python"
  <2>1. ws # <<>> /\ First(ws) = Python
    BY DEF Scripted, First, W
  <2>2. QED  BY <2>1, RoutingAssumption DEF Name, Python
<1>1. ~IsRead(ws)
  <2>1. ~Begins(ws, <<W("command"), W("-v")>>)
    <3>1. Begins(ws, <<W("command"), W("-v")>>) => First(ws) = "command"
      BY BeginsTwo
    <3>2. QED  BY <1>0, <3>1 DEF Python
  <2>2. QED  BY <1>0, <2>1 DEF IsRead, Reads
<1>2. Evaluated(ws) = ws
  BY <1>0 DEF Evaluated
<1>3. Evaluation(ws) = "none"
  <2>1. IsWords(Tail(ws)) /\ Tail(ws)[1] = ws[2]
    <3>1. /\ ws \in Seq(ToSet(ws)) /\ Len(ws) \in Nat /\ 1 <= Len(ws) /\ ws # <<>>
          /\ Len(ws) - 1 >= 1
      BY DEF IsWords, Scripted
    <3>2. Tail(ws) = SubSeq(ws, 1 + 1, Len(ws))
      BY <3>1, TailIsSubSeq
    <3> DEFINE rest == SubSeq(ws, 1 + 1, Len(ws))
    <3>3. /\ IsWords(rest) /\ Len(rest) = Len(ws) - 1
          /\ \A i \in 1..Len(rest) : rest[i] = ws[1 + i]
      BY <3>1, RestIsWords
    <3> HIDE DEF rest
    <3>4. rest[1] = ws[2]
      BY <3>1, <3>3
    <3>5. QED  BY <3>2, <3>3, <3>4 DEF rest
  <2>2. ASSUME NEW x, Begins(Tail(ws), <<W("-m"), W(x)>>) PROVE FALSE
    <3> DEFINE p == <<W("-m"), W(x)>>
    <3>1. p \in Seq({W("-m"), W(x)}) /\ Len(p) = 2 /\ p[1] = W("-m")
      OBVIOUS
    <3>2. Tail(ws)[1] = W("-m")
      <4>1. Begins(Tail(ws), p)
        BY <2>2
      <4> DEFINE rest == Tail(ws)
      <4>2. IsWords(rest) /\ Begins(rest, p)
        BY <2>1, <4>1
      <4> HIDE DEF p, rest
      <4>3. rest[1] = W("-m")
        BY <3>1, <4>2, BeginsWith
      <4>4. QED  BY <4>3 DEF rest
    <3>3. QED  BY <2>1, <3>2 DEF Scripted, W, Client
  <2>3. /\ ~Begins(Tail(ws), <<W("-m"), W("unittest")>>)
        /\ ~Begins(Tail(ws), <<W("-m"), W("pytest")>>)
    BY <2>2
  <2>4. QED  BY <1>0, <2>3 DEF Evaluation
<1>4. Name(ws) \notin Mutations /\ ~EditsInPlace(Name(ws), ws)
  BY <1>0 DEF Mutations, EditsInPlace
<1>5. ClassifyGeneralArgv(ws, dir) = Unrecognized
  BY <1>0, <1>1, <1>2, <1>3, <1>4 DEF ClassifyGeneralArgv
<1>6. QED  BY <1>5 DEF Recognized, Unrecognized, Operation

LEMMA ExactIsScripted ==
  ASSUME NEW ws, IsWords(ws), NEW dir, ExactWorkbook(ws, dir)
  PROVE  Scripted(ws)
BY DEF ExactWorkbook, Scripted, Python, Client, IsWords

\* The action of a code-mode command is one of the four.
LEMMA ActionIsKnown ==
  ASSUME NEW p, NEW dir, NEW gone, CodeModeAction(p, dir, gone) # None
  PROVE  /\ CodeModeAction(p, dir, gone) = Coordinates(p)
         /\ Coordinates(p).action \in DOMAIN CodeModeTarget
<1>1. /\ CodeModeAction(p, dir, gone) = Coordinates(p)
      /\ \E a \in DOMAIN CodeModeTarget : p.rest[1] = W(a)
  BY Zenon DEF CodeModeAction
<1>2. PICK a \in DOMAIN CodeModeTarget : p.rest[1] = W(a)
  BY <1>1
<1>3. Coordinates(p).action = a
  BY <1>2 DEF Coordinates, W
<1>4. QED  BY <1>1, <1>2, <1>3

\* An argv that is recognized belongs to a workbook, or is recognized whatever
\* files there are.
LEMMA Classified ==
  ASSUME NEW ws, IsWords(ws), NEW dir, Recognized(ClassifyExecutionArgv(ws, dir)),
         ClassifyExecutionArgv(ws, dir).target \notin WorkbookTargets
  PROVE  /\ ~ExactWorkbook(ws, dir) /\ ~Scripted(ws)
         /\ ClassifyExecutionArgv(ws, dir) = ClassifyGeneralArgv(ws, dir)
<1>1. ~ExactWorkbook(ws, dir)
  <2>1. SUFFICES ASSUME ExactWorkbook(ws, dir)
                 PROVE  ClassifyExecutionArgv(ws, dir).target \in WorkbookTargets
    OBVIOUS
  <2>2. CASE ws[2] = W("workbook_cli.py")
    BY <2>1, <2>2 DEF ClassifyExecutionArgv, Operation, WorkbookTargets
  <2>3. CASE ws[2] # W("workbook_cli.py")
    <3>1. ClosedCodeModeAction(Drop(ws, 2), dir) # None
      BY <2>1, <2>3 DEF ExactWorkbook
    <3>2. ClosedCodeModeAction(Drop(ws, 2), dir).action \in DOMAIN CodeModeTarget
      BY <3>1, ActionIsKnown DEF ClosedCodeModeAction
    <3>3. ClassifyExecutionArgv(ws, dir).target =
            CodeModeTarget[ClosedCodeModeAction(Drop(ws, 2), dir).action]
      BY <2>1, <2>3 DEF ClassifyExecutionArgv, Operation
    <3>4. QED  BY <3>2, <3>3 DEF WorkbookTargets
  <2>4. QED  BY <2>2, <2>3
<1>2. ClassifyExecutionArgv(ws, dir) = ClassifyGeneralArgv(ws, dir)
  BY <1>1 DEF ClassifyExecutionArgv
<1>3. QED  BY <1>1, <1>2, PythonIsNotGeneral

\* The supervisor reads such an argv as the router does, as far as SameReading
\* says.
LEMMA SupervisorReads ==
  ASSUME NEW ws, IsWords(ws), NEW dir, Recognized(ClassifyExecutionArgv(ws, dir)),
         ClassifyExecutionArgv(ws, dir).target \notin WorkbookTargets, SameReading(ws)
  PROVE  SupervisedCommand(ws) = ClassifyExecutionArgv(ws, dir)
<1>1. ClassifyExecutionArgv(ws, dir) = ClassifyGeneralArgv(ws, dir)
  BY Classified
<1>2. \A chars \in SUBSET {";", "NL", "bq", "<(", "cuestrap_tool_supervisor.py",
                          "code_mode_client.py", "workbook_cli.py"} : ~Holds(ws, chars)
  BY DEF SameReading, Holds
<1>3. ~AmbiguousShellForm(ws)
  BY <1>2 DEF AmbiguousShellForm, SameReading
<1>4. Name(ws) # "uv" /\ Evaluated(ws) = ws
  BY DEF SameReading, Evaluated
<1>5. /\ ~Holds(ws, {";", "NL"}) /\ ~Holds(ws, {"cuestrap_tool_supervisor.py"})
      /\ ~Holds(ws, {"code_mode_client.py"}) /\ ~Holds(ws, {"workbook_cli.py"})
  BY <1>2
<1>6. ClassifyCommand(ws) = ClassifyGeneralArgv(ws, dir)
  BY <1>4, <1>5 DEF ClassifyCommand, ClassifyGeneralArgv
<1>7. QED  BY <1>1, <1>3, <1>6 DEF SupervisedCommand

-----------------------------------------------------------------------------
(* The two parsers of the options, which read a command line from its end *)

\* Induction over a set of numbers.
LEMMA AllNumbers ==
  ASSUME NEW S, 0 \in S, \A n \in Nat : n \in S => n + 1 \in S
  PROVE  \A n \in Nat : n \in S
<1> DEFINE T == Nat \ S
           R == OpToRel(<, Nat)
<1>1. SUFFICES ASSUME T # {} PROVE FALSE
  OBVIOUS
<1>2. \E m \in T : \A k \in T : <<k, m>> \notin R
  <2> HIDE DEF T, R
  <2>1. IsWellFoundedOn(R, Nat) /\ T \subseteq Nat
    BY NatLessThanWellFounded DEF R, T
  <2>2. QED  BY <1>1, <2>1, WFMin
<1>3. PICK m \in T : \A k \in T : ~(k < m)
  BY <1>2 DEF OpToRel
<1>4. m \in Nat /\ m \notin S /\ m # 0
  OBVIOUS
<1>5. m - 1 \in Nat /\ m - 1 < m
  BY <1>4
<1>6. m - 1 \in S
  BY <1>3, <1>5
<1>7. (m - 1) + 1 \in S
  BY <1>5, <1>6
<1>8. QED  BY <1>4, <1>7

\* What Parse makes of every end of a command line.
Ends(ws, valued, flags, repeated, from) ==
  from = [i \in 1..(Len(ws) + 2) |->
            IF i > Len(ws) THEN Empty
            ELSE ParseWord(ws, i, from[i + 1], from[i + 2], valued, flags, repeated)]

\* There is such a function (the recursive one of Parse).
LEMMA EndsExist ==
  ASSUME NEW ws, Len(ws) \in Nat, NEW valued, NEW flags, NEW repeated
  PROVE  \E from : Ends(ws, valued, flags, repeated, from)
<1> DEFINE N == Len(ws) + 2
           End(i, f) == IF i > Len(ws) THEN Empty
                        ELSE ParseWord(ws, i, f[i + 1], f[i + 2], valued, flags, repeated)
           From(k, f) == f = [i \in 1..N |-> f[i]] /\ \A i \in 1..N : i > N - k => f[i] = End(i, f)
           S == {k \in Nat : \E f : From(k, f)}
<1>1. 0 \in S
  <2>1. From(0, [i \in 1..N |-> Empty])
    OBVIOUS
  <2>2. QED  BY <2>1
<1>2. ASSUME NEW k \in Nat, k \in S PROVE k + 1 \in S
  <2>1. PICK f : From(k, f)
    BY <1>2
  <2> DEFINE j == N - k
             g == [i \in 1..N |-> IF i = j THEN End(j, f) ELSE f[i]]
  <2>2. \A i \in 1..N : i >= j => End(i, g) = End(i, f)
    <3>1. SUFFICES ASSUME NEW i \in 1..N, i >= j, ~(i > Len(ws))
                   PROVE  g[i + 1] = f[i + 1] /\ g[i + 2] = f[i + 2]
      <4> HIDE DEF g
      <4>1. QED  OBVIOUS
    <3>2. i + 1 \in 1..N /\ i + 2 \in 1..N /\ i + 1 # j /\ i + 2 # j
      BY <3>1
    <3>3. QED  BY <3>2
  <2>3. From(k + 1, g)
    <3>1. g = [i \in 1..N |-> g[i]]
      OBVIOUS
    <3>2. ASSUME NEW i \in 1..N, i > N - (k + 1) PROVE g[i] = End(i, g)
      <4>1. i >= j
        BY <3>2
      <4>2. End(i, g) = End(i, f)
        BY <2>2, <4>1
      <4>3. CASE i = j
        <5>1. g[i] = End(j, f)
          BY <4>3
        <5> HIDE DEF End, g
        <5>2. QED  BY <4>2, <4>3, <5>1
      <4>4. CASE i # j
        <5>1. g[i] = f[i] /\ i > N - k
          BY <4>1, <4>4
        <5> HIDE DEF End, g
        <5>2. QED  BY <2>1, <4>2, <5>1
      <4>5. QED  BY <4>3, <4>4
    <3> HIDE DEF g, End
    <3>3. QED  BY <3>1, <3>2
  <2> HIDE DEF g, From
  <2>4. QED  BY <2>3
<1>3. N \in Nat
  OBVIOUS
<1>4. N \in S
  <2> HIDE DEF S, N
  <2>1. QED  BY <1>1, <1>2, <1>3, AllNumbers
<1>5. PICK f : From(N, f)
  BY <1>4
<1>6. \A i \in 1..N : f[i] = End(i, f)
  <2> HIDE DEF End
  <2>1. QED  BY <1>5
<1>7. f = [i \in 1..N |-> End(i, f)]
  <2> HIDE DEF End
  <2>1. QED  BY <1>5, <1>6
<1>8. QED  BY <1>7 DEF Ends

LEMMA ParseEnds ==
  ASSUME NEW ws, Len(ws) \in Nat, NEW valued, NEW flags, NEW repeated
  PROVE  \E from : /\ Ends(ws, valued, flags, repeated, from)
                   /\ Parse(ws, valued, flags, repeated) = from[1]
<1> DEFINE from == CHOOSE from : Ends(ws, valued, flags, repeated, from)
<1>1. Ends(ws, valued, flags, repeated, from)
  BY EndsExist
<1>2. Parse(ws, valued, flags, repeated) = from[1]
  BY DEF Parse, Ends
<1>3. QED  BY <1>1, <1>2

IsParsed(r) == r = [ok |-> r.ok, options |-> r.options, rest |-> r.rest]

\* A first mention of an option means the same to the two.
LEMMA OptionsAgree ==
  ASSUME NEW r, IsParsed(r), NEW o, NEW v, r.ok, o \notin DOMAIN r.options
  PROVE  LET t == With(r, o, v, "last")
         IN  /\ IsParsed(t) /\ DOMAIN t.options = DOMAIN r.options \cup {o}
             /\ With(r, o, v, "refused") = t
<1> DEFINE opts == [x \in DOMAIN r.options \cup {o} |-> IF x = o THEN v ELSE r.options[x]]
<1>1. With(r, o, v, "refused") = [r EXCEPT !.options = opts]
  BY DEF With
<1>2. With(r, o, v, "last") = [r EXCEPT !.options = opts]
  BY DEF With
<1>3. DOMAIN opts = DOMAIN r.options \cup {o}
  OBVIOUS
<1> HIDE DEF opts
<1>4. IsParsed([r EXCEPT !.options = opts])
  BY DEF IsParsed
<1>5. [r EXCEPT !.options = opts].options = opts
  BY DEF IsParsed
<1>6. QED  BY <1>1, <1>2, <1>3, <1>4, <1>5

\* The options that were found at the end of a command line from i on.
Found(ws, i, options) ==
  \A o \in options : \E j \in i..Len(ws) : ws[j] = W(o) /\ o \in CodeModeOptions

\* What the client accepts from i on, the router parses as the client does if it
\* accepts it, and accepts if it is regular: r and l are what they make of it.
Regular(ws, i) == ~Irregular(ws) /\ (i = 1 \/ ~Option(ws[i - 1]))
Agreed(ws, i, r, l) ==
  /\ IsParsed(r) /\ IsParsed(l)
  /\ l.ok /\ (r.ok \/ Regular(ws, i)) => r = l /\ Found(ws, i, DOMAIN l.options)

\* A word is parsed alike when the words after it are.
LEMMA WordsAgree ==
  ASSUME NEW ws, IsWords(ws), <<>> \notin ToSet(ws), NEW i \in 1..Len(ws),
         NEW r1, NEW r2, NEW l1, NEW l2, Agreed(ws, i + 1, r1, l1), Agreed(ws, i + 2, r2, l2),
         EndOfOptions(ws, i + 1) => ~r1.ok
  PROVE  Agreed(ws, i, ParseWord(ws, i, r1, r2, CodeModeOptions, {}, "refused"),
                ParseWord(ws, i, l1, l2, CodeModeOptions, {}, "last"))
<1> DEFINE w == ws[i]
           router == RouterWord(ws, i, r1, r2, CodeModeOptions, {}, "refused")
           client == ClientWord(ws, i, l1, l2)
<1>0. /\ Len(ws) \in Nat /\ w # <<>>
      /\ \A j \in 1..Len(ws) : ws[j] # <<>>
  <2>1. Len(ws) \in Nat /\ \A j \in 1..Len(ws) : ws[j] \in ToSet(ws)
    BY DEF IsWords, ToSet
  <2>2. QED  BY <2>1
<1>01. /\ IsParsed(r1) /\ IsParsed(r2) /\ IsParsed(l1) /\ IsParsed(l2)
       /\ IsParsed(Failed) /\ IsParsed(Empty)
       /\ \A r, rest : IsParsed(r) => IsParsed([r EXCEPT !.rest = rest])
       /\ \A r, o, v, repeated : IsParsed(r) => IsParsed(With(r, o, v, repeated))
  <2>1. IsParsed(r1) /\ IsParsed(r2) /\ IsParsed(l1) /\ IsParsed(l2)
    BY DEF Agreed
  <2>2. IsParsed(Failed) /\ IsParsed(Empty)
    <3>1. Failed = [ok |-> FALSE, options |-> [o \in {} |-> <<>>], rest |-> <<>>]
      BY DEF Failed, Parsed
    <3>2. Empty = [ok |-> TRUE, options |-> [o \in {} |-> <<>>], rest |-> <<>>]
      BY DEF Empty, Parsed
    <3>3. QED  BY <3>1, <3>2 DEF IsParsed
  <2>3. ASSUME NEW r, IsParsed(r), NEW f PROVE IsParsed([r EXCEPT !.rest = f]) /\ IsParsed([r EXCEPT !.options = f])
    BY <2>3 DEF IsParsed
  <2>4. ASSUME NEW r, IsParsed(r), NEW o, NEW v, NEW repeated PROVE IsParsed(With(r, o, v, repeated))
    <3>1. With(r, o, v, repeated) \in {Failed, r} \/ \E f : With(r, o, v, repeated) = [r EXCEPT !.options = f]
      BY Zenon DEF With
    <3>2. CASE With(r, o, v, repeated) \in {Failed, r}
      BY <2>2, <2>4, <3>2
    <3>3. CASE \E f : With(r, o, v, repeated) = [r EXCEPT !.options = f]
      <4>1. PICK f : With(r, o, v, repeated) = [r EXCEPT !.options = f]
        BY <3>3
      <4>2. IsParsed([r EXCEPT !.options = f])
        BY <2>3, <2>4
      <4>3. QED  BY <4>1, <4>2, Zenon
    <3>4. QED  BY <3>1, <3>2, <3>3
  <2>5. QED  BY <2>1, <2>2, <2>3, <2>4
<1>1. SUFFICES ASSUME client.ok, router.ok \/ Regular(ws, i)
               PROVE  router = client /\ Found(ws, i, DOMAIN client.options)
  <2>1. ParseWord(ws, i, r1, r2, CodeModeOptions, {}, "refused") = router
    BY DEF ParseWord
  <2>2. ParseWord(ws, i, l1, l2, CodeModeOptions, {}, "last") = client
    BY DEF ParseWord
  <2>3. IsParsed(router)
    <3>1. \/ router = Failed
          \/ router = With(r2, w[1], ws[i + 1], "refused")
          \/ router = [r1 EXCEPT !.rest = <<w>> \o @]
      BY Zenon DEF RouterWord
    <3> HIDE DEF router
    <3>2. /\ IsParsed(With(r2, w[1], ws[i + 1], "refused"))
          /\ IsParsed([r1 EXCEPT !.rest = <<w>> \o @])
      BY <1>01, Zenon
    <3>3. QED  BY <1>01, <3>1, <3>2, Zenon
  <2>4. IsParsed(client)
    <3>1. \/ client = Failed
          \/ client = [Empty EXCEPT !.rest = Drop(ws, i)]
          \/ \E v : client = With(l1, Full(w[1]), v, "last")
          \/ \E v : client = With(l2, Full(w[1]), v, "last")
          \/ client = [l1 EXCEPT !.rest = <<w>> \o @]
          \/ client = [Empty EXCEPT !.rest = <<w>> \o @]
      BY Zenon DEF ClientWord
    <3> HIDE DEF client
    <3>2. /\ IsParsed([Empty EXCEPT !.rest = Drop(ws, i)])
          /\ \A v : IsParsed(With(l1, Full(w[1]), v, "last"))
          /\ \A v : IsParsed(With(l2, Full(w[1]), v, "last"))
          /\ IsParsed([l1 EXCEPT !.rest = <<w>> \o @])
          /\ IsParsed([Empty EXCEPT !.rest = <<w>> \o @])
      BY <1>01, Zenon
    <3>3. QED  BY <1>01, <3>1, <3>2, Zenon
  <2> HIDE DEF router, client
  <2>5. QED  BY <1>1, <2>1, <2>2, <2>3, <2>4 DEF Agreed
<1>2. ~Failed.ok
  BY DEF Failed, Parsed
<1>3. /\ \A j \in 1..Len(ws) : Option(ws[j]) => Given(ws[j]) /\ ~(Len(ws[j]) > 1) /\ ws[j] # W("--")
                                            /\ Full(ws[j][1]) = ws[j][1]
                                            /\ ws[j][1] \in CodeModeOptions /\ ws[j] = W(ws[j][1])
      /\ \A j \in 1..Len(ws) : Given(ws[j]) => Dashed(ws[j])
      /\ Dashed(W("--")) /\ LongDashed(W("--")) /\ ~Option(W("--"))
  <2>1. ASSUME NEW j \in 1..Len(ws), Option(ws[j])
        PROVE  /\ Given(ws[j]) /\ ~(Len(ws[j]) > 1) /\ ws[j] # W("--") /\ Full(ws[j][1]) = ws[j][1]
               /\ ws[j][1] \in CodeModeOptions /\ ws[j] = W(ws[j][1])
    <3>1. PICK o \in CodeModeOptions : ws[j] = W(o)
      BY <2>1 DEF Option
    <3>2. o # "--" /\ o \notin DOMAIN Abbreviated
      BY RoutingAssumption DEF CodeModeOptions
    <3>3. QED  BY <1>0, <3>1, <3>2 DEF Given, Full, W
  <2>2. ASSUME NEW j \in 1..Len(ws), Given(ws[j]) PROVE Dashed(ws[j])
    <3>1. ws[j][1] \in CodeModeOptions \/ ws[j][1] \in DOMAIN Abbreviated
      BY <2>2 DEF Given, Full
    <3>2. QED  BY <1>0, <3>1, RoutingAssumption DEF Dashed
  <2>3. Dashed(W("--")) /\ LongDashed(W("--"))
    BY RoutingAssumption DEF Dashed, LongDashed, W
  <2>4. ~Option(W("--"))
    BY DEF Option, W, CodeModeOptions
  <2>5. QED  BY <2>1, <2>2, <2>3, <2>4
<1>4. ~Irregular(ws) =>
        \A j \in 1..Len(ws) : Dashed(ws[j]) /\ ~Option(ws[j]) =>
                              j > 1 /\ Option(ws[j - 1]) /\ ~LongDashed(ws[j])
  BY DEF Irregular
<1>5. CASE Option(w)
  <2>1. w # W("--") /\ Given(w) /\ ~(Len(w) > 1) /\ Full(w[1]) = w[1]
        /\ w[1] \in CodeModeOptions /\ w = W(w[1])
    <3> HIDE DEF w
    <3>1. \A j \in 1..Len(ws) : ws[j] = w => Option(ws[j])
      BY <1>5
    <3>2. i \in 1..Len(ws) /\ ws[i] = w
      BY DEF w
    <3>3. QED  BY <1>3, <3>1, <3>2
  <2>2. client = IF i = Len(ws) \/ OptionLike(ws[i + 1]) THEN Failed
                 ELSE With(l2, w[1], ws[i + 1], "last")
    BY <2>1, Zenon DEF ClientWord
  <2>3. i # Len(ws) /\ ~OptionLike(ws[i + 1]) /\ client = With(l2, w[1], ws[i + 1], "last")
    BY <1>1, <1>2, <2>2
  <2>4. l2.ok
    BY <1>1, <1>2, <2>3 DEF With
  <2>5. i + 1 \in 1..Len(ws) /\ (i + 2) - 1 = i + 1
    BY <1>0, <2>3
  <2>6. ~Option(ws[i + 1])
    BY <1>3, <2>3, <2>5 DEF OptionLike
  <2>7. \E o \in CodeModeOptions : w = W(o)
    BY <2>1
  <2>8. ~LongDashed(ws[i + 1]) /\ router = With(r2, w[1], ws[i + 1], "refused")
    <3>1. LongDashed(ws[i + 1]) => Dashed(ws[i + 1])
      BY RoutingAssumption DEF LongDashed, Dashed
    <3>2. LongDashed(ws[i + 1]) => router = Failed
      BY <2>7 DEF RouterWord
    <3>3. ~LongDashed(ws[i + 1])
      BY <1>1, <1>2, <1>4, <2>5, <2>6, <3>1, <3>2 DEF Regular
    <3>4. QED  BY <2>3, <2>7, <3>3 DEF RouterWord
  <2>9. r2 = l2 /\ Found(ws, i + 2, DOMAIN l2.options)
    <3>1. ~Option(ws[(i + 2) - 1])
      BY <2>5, <2>6
    <3>2. router.ok => r2.ok
      BY <1>2, <2>8 DEF With
    <3>3. r2.ok \/ Regular(ws, i + 2)
      BY <1>1, <3>1, <3>2 DEF Regular
    <3>4. QED  BY <2>4, <3>3, Zenon DEF Agreed
  <2>10. w[1] \notin DOMAIN l2.options
    <3>1. SUFFICES ASSUME w[1] \in DOMAIN l2.options PROVE FALSE
      OBVIOUS
    <3>2. PICK j \in (i + 2)..Len(ws) : ws[j] = W(w[1])
      BY <2>9, <3>1 DEF Found
    <3>3. j \in 1..Len(ws) /\ j # i /\ ws[j] = ws[i]
      BY <1>0, <2>1, <3>2
    <3>4. Irregular(ws)
      BY <1>5, <3>3 DEF Irregular
    <3>5. router = Failed
      BY <2>8, <2>9, <3>1 DEF With
    <3>6. QED  BY <1>1, <1>2, <3>4, <3>5 DEF Regular
  <2>11. /\ IsParsed(client) /\ DOMAIN client.options = DOMAIN l2.options \cup {w[1]}
         /\ router = client
    <3> HIDE DEF client, router
    <3>1. QED  BY <2>3, <2>4, <2>8, <2>9, <2>10, <1>01, OptionsAgree
  <2>12. Found(ws, i, DOMAIN client.options)
    <3> HIDE DEF client
    <3>1. ASSUME NEW o \in DOMAIN l2.options
          PROVE  \E j \in i..Len(ws) : ws[j] = W(o) /\ o \in CodeModeOptions
      <4>1. PICK j \in (i + 2)..Len(ws) : ws[j] = W(o) /\ o \in CodeModeOptions
        BY <2>9 DEF Found
      <4>2. j \in i..Len(ws)
        BY <1>0
      <4>3. QED  BY <4>1, <4>2
    <3>2. i \in i..Len(ws) /\ ws[i] = W(w[1]) /\ w[1] \in CodeModeOptions
      BY <1>0, <2>1
    <3>3. QED  BY <2>11, <3>1, <3>2 DEF Found
  <2>13. QED  BY <2>11, <2>12
<1>6. CASE ~Option(w)
  <2>0. /\ ~\E o \in CodeModeOptions : w = W(o)
        /\ ~\E o \in {} : w = W(o)
    BY <1>6 DEF Option
  <2>1. ~Dashed(w)
    <3>1. Dashed(w) => router = Failed
      BY <2>0, Zenon DEF RouterWord
    <3>2. QED  BY <1>1, <1>2, <1>4, <1>6, <3>1 DEF Regular
  <2>2. w # W("--") /\ ~Given(w) /\ ~OptionLike(w)
    BY <1>3, <2>1 DEF OptionLike
  <2>3. router = [r1 EXCEPT !.rest = <<w>> \o @]
    BY <2>0, <2>1, Zenon DEF RouterWord
  <2>4. router.ok => r1.ok
    <3> HIDE DEF router
    <3>1. QED  BY <1>01, <2>3 DEF IsParsed
  <2>5. ~EndOfOptions(ws, i + 1)
    <3>1. SUFFICES ASSUME EndOfOptions(ws, i + 1) PROVE FALSE
      OBVIOUS
    <3>2. i + 1 \in 1..Len(ws) /\ ws[i + 1] = W("--") /\ (i + 1) - 1 = i
      BY <1>0, <3>1 DEF EndOfOptions
    <3>3. Regular(ws, i)
      BY <1>1, <2>4, <3>1
    <3>4. QED  BY <1>3, <1>4, <1>6, <3>2, <3>3 DEF Regular
  <2>6. client = [l1 EXCEPT !.rest = <<w>> \o @]
    BY <2>2, <2>5, Zenon DEF ClientWord
  <2> HIDE DEF client, router
  <2>7. l1.ok => r1 = l1 /\ Found(ws, i + 1, DOMAIN l1.options)
    <3>1. ~Option(ws[(i + 1) - 1])
      BY <1>6
    <3>2. r1.ok \/ Regular(ws, i + 1)
      BY <1>1, <2>4, <3>1 DEF Regular
    <3>3. QED  BY <3>2, Zenon DEF Agreed
  <2>8. l1.ok
    BY <1>1, <1>01, <2>6 DEF IsParsed
  <2>9. client.options = l1.options
    BY <1>01, <2>6 DEF IsParsed
  <2>10. Found(ws, i, DOMAIN l1.options)
    <3>1. \A j \in (i + 1)..Len(ws) : j \in i..Len(ws)
      BY <1>0
    <3>2. QED  BY <2>7, <2>8, <3>1 DEF Found
  <2>11. QED  BY <2>3, <2>6, <2>7, <2>8, <2>9, <2>10
<1>7. QED  BY <1>5, <1>6

\* So is a whole command line that the client accepts.
LEMMA ParsersAgree ==
  ASSUME NEW ws, IsWords(ws), <<>> \notin ToSet(ws), ParseArguments(ws).ok,
         ParseClosedOptions(ws).ok \/ ~Irregular(ws)
  PROVE  ParseArguments(ws) = ParseClosedOptions(ws)
<1>0. Len(ws) \in Nat
  BY DEF IsWords
<1>1. PICK R : /\ Ends(ws, CodeModeOptions, {}, "refused", R)
               /\ ParseClosedOptions(ws) = R[1]
  BY <1>0, ParseEnds DEF ParseClosedOptions
<1>2. PICK L : /\ Ends(ws, CodeModeOptions, {}, "last", L)
               /\ ParseArguments(ws) = L[1]
  BY <1>0, ParseEnds DEF ParseArguments
<1> DEFINE N == Len(ws) + 2
           Agree(i) == Agreed(ws, i, R[i], L[i])
           S == {k \in Nat : \A i \in 1..N : i >= N - k => Agree(i)}
<1>3. ASSUME NEW i \in 1..N, i > Len(ws) PROVE Agree(i)
  <2>1. R[i] = Empty /\ L[i] = Empty
    BY <1>1, <1>2, <1>3 DEF Ends
  <2>2. IsParsed(Empty) /\ DOMAIN Empty.options = {}
    <3>1. Empty = [ok |-> TRUE, options |-> [o \in {} |-> <<>>], rest |-> <<>>]
      BY DEF Empty, Parsed
    <3>2. QED  BY <3>1 DEF IsParsed
  <2>3. QED  BY <2>1, <2>2 DEF Agreed, Found
<1>4. ASSUME NEW i \in 1..N, i <= Len(ws), Agree(i + 1), Agree(i + 2) PROVE Agree(i)
  <2>1. ~(i > Len(ws)) /\ i \in 1..(Len(ws) + 2) /\ i \in 1..Len(ws)
    BY <1>0, <1>4
  <2>2. R[i] = ParseWord(ws, i, R[i + 1], R[i + 2], CodeModeOptions, {}, "refused")
    BY <1>1, <2>1, Zenon DEF Ends
  <2>3. L[i] = ParseWord(ws, i, L[i + 1], L[i + 2], CodeModeOptions, {}, "last")
    BY <1>2, <2>1, Zenon DEF Ends
  <2>4. EndOfOptions(ws, i + 1) => ~R[i + 1].ok
    <3>1. SUFFICES ASSUME EndOfOptions(ws, i + 1) PROVE R[i + 1] = Failed
      BY DEF Failed, Parsed
    <3>2. i + 1 = Len(ws) /\ ws[i + 1] = W("--") /\ i + 1 \in 1..(Len(ws) + 2)
      BY <1>0, <1>4, <3>1 DEF EndOfOptions
    <3>3. R[i + 1] = RouterWord(ws, i + 1, R[i + 2], R[i + 3], CodeModeOptions, {}, "refused")
      BY <1>0, <1>1, <3>2 DEF Ends, ParseWord
    <3>4. /\ ~\E o \in CodeModeOptions : W("--") = W(o)
          /\ ~\E o \in {} : W("--") = W(o)
          /\ Dashed(W("--"))
      BY RoutingAssumption DEF CodeModeOptions, W, Dashed
    <3>5. QED  BY <3>2, <3>3, <3>4, Zenon DEF RouterWord
  <2>5. QED  BY <1>4, <2>1, <2>2, <2>3, <2>4, WordsAgree
<1>5. N \in Nat
  BY <1>0
<1> HIDE DEF Agree
<1>6. 0 \in S
  BY <1>0, <1>3
<1>7. ASSUME NEW k \in Nat, k \in S PROVE k + 1 \in S
  <2>1. ASSUME NEW i \in 1..N, i >= N - (k + 1) PROVE Agree(i)
    <3>1. CASE i > Len(ws)
      BY <1>3, <3>1
    <3>2. CASE i <= Len(ws)
      <4>1. i + 1 \in 1..N /\ i + 2 \in 1..N /\ i + 1 >= N - k /\ i + 2 >= N - k
        BY <1>0, <2>1, <3>2
      <4>2. Agree(i + 1) /\ Agree(i + 2)
        BY <1>7, <4>1
      <4>3. QED  BY <1>4, <3>2, <4>2
    <3>3. QED  BY <1>0, <3>1, <3>2
  <2>2. QED  BY <2>1
<1>8. N \in S
  <2> HIDE DEF S, N
  <2>1. QED  BY <1>5, <1>6, <1>7, AllNumbers
<1>9. Agree(1)
  BY <1>0, <1>8
<1>10. L[1].ok /\ (R[1].ok \/ Regular(ws, 1))
  BY <1>1, <1>2 DEF Regular
<1>11. QED  BY <1>1, <1>2, <1>9, <1>10, Zenon DEF Agree, Agreed

-----------------------------------------------------------------------------
(* The calls of an agent *)

Kinds == {"execution", "controller", "workbook", "patch", "adapter", "other"}

\* A call that was proposed is one of those that an agent proposes.
Proposed ==
  /\ event.kind \in Kinds
  /\ event.kind = "execution" =>
       \/ event.name = "Bash" /\ event.words = StrictShellTokens /\ event.dir = "root"
       \/ event.name = "tool_exec" /\ event.words \in Lists

\* Why an argv was approved, whatever has become of the files since.
ArgvApproved(ws, dir) ==
  \/ plan.behavior = "raises" /\ <<>> \in ToSet(ws)
  \/ /\ plan.behavior = "neutral"
     /\ event.name = "tool_exec" => sawPre = Unrecognized
     /\ ~Recognized(ClassifyGeneralArgv(ws, dir))
     /\ IsClient(ws, dir) =>
          CodeModeAction(ParseClosedOptions(Drop(ws, 2)), dir, absent) = None
  \/ /\ Scripted(ws)
     /\ IsClient(ws, dir) =>
          /\ ParseClosedOptions(Drop(ws, 2)).ok
          /\ plan = Route("direct", Coordinates(ParseClosedOptions(Drop(ws, 2))))

Approved ==
  /\ event.kind = "execution" /\ event.words # None => ArgvApproved(event.words, event.dir)
  /\ event.kind = "patch" => event.name # "command"
  /\ event.kind \in {"controller", "workbook"} => sawPre = Supervised(event)

CallInv ==
  /\ ShellInv
  /\ at # "typing" => Proposed
  /\ at \in {"approved", "ran", "over"} => Approved
  /\ effect = IF at \in {"ran", "over"} THEN Carried ELSE NoEffect
  /\ at = "over" /\ event.kind \in {"controller", "workbook"} => sawPost = Supervised(event)

\* As long as no file goes or comes, a judgement stays what it is.
LEMMA JudgedAlike ==
  ASSUME missing' = missing
  PROVE  /\ \A ws, dir : ClassifyExecutionArgv(ws, dir)' = ClassifyExecutionArgv(ws, dir)
         /\ \A ws, dir : ClientAction(ws, dir)' = ClientAction(ws, dir)
<1>3. \A ws, dir : ClosedCodeModeAction(ws, dir)' = ClosedCodeModeAction(ws, dir)
  BY DEF ClosedCodeModeAction
<1>4. \A ws, dir : ExactWorkbook(ws, dir)' = ExactWorkbook(ws, dir)
  BY <1>3 DEF ExactWorkbook
<1>5. QED  BY <1>3, <1>4 DEF ClassifyExecutionArgv, ClientAction

LEMMA SupervisedAlike ==
  ASSUME missing' = missing
  PROVE  \A e : Supervised(e)' = Supervised(e)
<1>1. \A r : ClassificationForRequest(r)' = ClassificationForRequest(r)
  BY JudgedAlike DEF ClassificationForRequest
<1>2. \A r : Revalidated(r)' = Revalidated(r)
  BY <1>1 DEF Revalidated
<1>3. QED  BY <1>2 DEF Supervised

LEMMA CarriedAlike ==
  ASSUME missing' = missing, event' = event, shell' = shell, active' = active, plain' = plain
  PROVE  Carried' = Carried
<1>1. \A r : ClassificationForRequest(r)' = ClassificationForRequest(r)
  BY JudgedAlike DEF ClassificationForRequest
<1>2. \A r : Validated(r)' = Validated(r)
  BY <1>1 DEF Validated, Revalidated
<1>3. Leads' = Leads
  BY DEF Leads
<1>4. QED  BY <1>1, <1>2, <1>3, JudgedAlike DEF Carried

LEMMA TokensAlike ==
  ASSUME UNCHANGED command
  PROVE  StrictShellTokens' = StrictShellTokens
BY DEF command, StrictShellTokens, HasUnquotedShellSemantics

\* An argv has words.
LEMMA ArgvIsWords ==
  ASSUME ShellInv, Proposed, event.kind = "execution", event.words # None
  PROVE  /\ IsWords(event.words)
         /\ event.name = "tool_exec" => <<>> \notin ToSet(event.words)
<1>1. CASE event.name = "tool_exec" /\ event.words \in Lists
  BY <1>1, RoutingAssumption DEF IsWords
<1>2. CASE event.name = "Bash" /\ event.words = StrictShellTokens
  <2>1. event.words = WordsOf(lex)
    BY <1>2 DEF StrictShellTokens
  <2>2. lex.words \in Seq(Seq(Chars)) /\ lex.word \in Seq(Chars)
    BY DEF ShellInv, Typed, Splits
  <2>3. event.words \in Seq(Seq(Chars))
    BY <2>1, <2>2 DEF WordsOf
  <2>4. IsWords(event.words)
    <3>1. \A i \in 1..Len(event.words) : event.words[i] \in ToSet(event.words)
      BY <2>3 DEF ToSet
    <3>2. QED  BY <2>3, <3>1 DEF IsWords
  <2>5. QED  BY <1>2, <2>4
<1>3. QED  BY <1>1, <1>2 DEF Proposed

\* An argv that the hook lets pass.
LEMMA HookApproves ==
  ASSUME ShellInv, Proposed, PreHook, at' = "approved"
  PROVE  Approved'
<1>0. /\ at = "proposed" /\ event' = event /\ missing' = missing
      /\ plan' = PlanPretoolRoute(event) /\ plan'.behavior # "redirect" /\ absent' = missing
      /\ plan'.behavior \in {"direct", "neutral"} => sawPre' = Supervised(event)
  BY Zenon DEF PreHook
<1>1. ASSUME event.kind = "execution", event.words # None
      PROVE  ArgvApproved(event.words, event.dir)'
  <2> DEFINE ws == event.words
             o  == ClassifyExecutionArgv(ws, event.dir)
             p  == ParseClosedOptions(Drop(ws, 2))
  <2>0. IsWords(ws) /\ plan' = PlanExecution(event)
    BY <1>0, <1>1, ArgvIsWords DEF PlanPretoolRoute
  <2>1. CASE ExactWorkbook(ws, event.dir)
    <3>1. Scripted(ws)
      BY <2>0, <2>1, ExactIsScripted
    <3>2. plan' = Route("direct", ClosedCodeModeAction(Drop(ws, 2), event.dir))
      BY <1>1, <2>0, <2>1 DEF PlanExecution
    <3>3. ASSUME IsClient(ws, event.dir)
          PROVE  p.ok /\ plan' = Route("direct", Coordinates(p))
      <4>1. ws[2] = W(Client)
        BY <2>0, <3>3, BeginsTwo DEF IsClient, Client
      <4>2. ClosedCodeModeAction(Drop(ws, 2), event.dir) # None
        BY <2>1, <4>1 DEF ExactWorkbook, W, Client
      <4>3. CodeModeAction(p, event.dir, missing) # None
        BY <4>2 DEF ClosedCodeModeAction
      <4>4. p.ok
        BY <4>3, Zenon DEF CodeModeAction
      <4>5. QED  BY <3>2, <4>3, <4>4, ActionIsKnown DEF ClosedCodeModeAction
    <3>4. QED  BY <1>0, <3>1, <3>3 DEF ArgvApproved
  <2>2. CASE ~ExactWorkbook(ws, event.dir) /\ ~Recognized(o)
    <3>1. plan' = Route("neutral", None)
      BY <1>1, <2>0, <2>2 DEF PlanExecution
    <3>2. ~Recognized(ClassifyGeneralArgv(ws, event.dir))
      BY <2>2 DEF ClassifyExecutionArgv
    <3>3. event.name = "tool_exec" => sawPre' = Unrecognized
      BY <1>0, <1>1, <3>1 DEF Route, Supervised
    <3>4. ASSUME IsClient(ws, event.dir) PROVE CodeModeAction(p, event.dir, missing) = None
      <4>1. /\ Len(ws) \in Nat /\ Len(ws) >= 2 /\ ws[2] = W(Client) /\ ws[1] = W(Python)
            /\ event.dir = "root"
        BY <2>0, <3>4, BeginsTwo DEF IsClient, Client, Python
      <4>3. ClosedCodeModeAction(Drop(ws, 2), event.dir) = None
        BY <2>2, <4>1 DEF ExactWorkbook, Client, Python
      <4>4. QED  BY <4>3 DEF ClosedCodeModeAction
    <3>5. QED  BY <1>0, <3>1, <3>2, <3>3, <3>4 DEF ArgvApproved, Route
  <2>3. CASE ~ExactWorkbook(ws, event.dir) /\ Recognized(o)
    <3>1. <<>> \in ToSet(ws) /\ plan' = Route("raises", None)
      BY <1>0, <1>1, <2>0, <2>3 DEF PlanExecution, Route
    <3>2. QED  BY <1>0, <3>1 DEF ArgvApproved, Route
  <2>4. QED  BY <2>1, <2>2, <2>3
<1>2. ASSUME event.kind = "patch" PROVE event.name # "command"
  BY <1>0, <1>2 DEF PlanPretoolRoute, PlanPatch, Route
<1>3. ASSUME event.kind \in {"controller", "workbook"} PROVE sawPre' = Supervised(event)
  BY <1>0, <1>3 DEF PlanPretoolRoute, PlanController, Route
<1>4. QED  BY <1>0, <1>1, <1>2, <1>3, SupervisedAlike DEF Approved

\* A route is one of four kinds.
LEMMA RouteBehaves ==
  ASSUME NEW e, e.kind \in Kinds
  PROVE  PlanPretoolRoute(e).behavior \in {"redirect", "raises", "direct", "neutral"}
<1>1. PlanExecution(e).behavior \in {"redirect", "raises", "direct", "neutral"}
  BY DEF PlanExecution, Route
<1>2. PlanController(e).behavior \in {"redirect", "direct"}
  BY DEF PlanController, Route
<1>3. PlanPatch(e).behavior \in {"redirect", "raises"}
  BY DEF PlanPatch, Route
<1>4. QED  BY <1>1, <1>2, <1>3 DEF PlanPretoolRoute, Kinds, Route

\* The invariant of the calls.
LEMMA CallInit == RoutingInit => CallInv
BY ShellInit DEF RoutingInit, CallInv

LEMMA CallStep == CallInv /\ [RoutingNext]_vars => CallInv'
<1> SUFFICES ASSUME CallInv, [RoutingNext]_vars PROVE CallInv'
  OBVIOUS
<1>1. CASE TypeCharacter
  <2>1. at = "typing" /\ Next /\ UNCHANGED routing
    BY <1>1 DEF TypeCharacter
  <2>2. ShellInv'
    BY <2>1, ShellStep DEF CallInv
  <2>3. QED  BY <2>1, <2>2 DEF CallInv, routing, NoEffect
<1>2. ASSUME UNCHANGED command PROVE ShellInv'
  BY <1>2, ShellStep DEF CallInv
<1>3. ASSUME NEW e, at \in {"typing", "refused"}, Propose(e), e.kind \in Kinds,
             e.kind = "execution" =>
               \/ e.name = "Bash" /\ e.words = StrictShellTokens /\ e.dir = "root"
               \/ e.name = "tool_exec" /\ e.words \in Lists
      PROVE  CallInv'
  <2>1. at' = "proposed" /\ event' = e /\ UNCHANGED command /\ effect' = effect
    BY <1>3 DEF Propose, command
  <2>2. StrictShellTokens' = StrictShellTokens
    BY <2>1, TokensAlike
  <2>3. Proposed'
    BY <1>3, <2>1, <2>2 DEF Proposed
  <2>4. effect' = NoEffect
    BY <1>3, <2>1 DEF CallInv
  <2>5. QED  BY <1>2, <2>1, <2>3, <2>4 DEF CallInv, NoEffect
<1>4. CASE ProposeCommand
  <2>1. Propose(Event("execution", "Bash", StrictShellTokens, "root", None)) /\ at = "typing"
    BY <1>4 DEF ProposeCommand
  <2>2. QED  BY <1>3, <2>1 DEF Event, Kinds
<1>5. CASE ProposeList
  <2>1. PICK ws \in Lists, dir \in Dirs : Propose(Event("execution", "tool_exec", ws, dir, None))
    BY <1>5 DEF ProposeList
  <2>2. QED  BY <1>3, <1>5, <2>1 DEF ProposeList, Event, Kinds
<1>6. CASE ProposeTool \/ Reissue
  <2>1. \E kind \in Kinds \ {"execution"} : \E name, dir, payload :
          Propose(Event(kind, name, None, dir, payload))
    BY <1>6, Zenon DEF ProposeTool, Reissue, Kinds
  <2>2. at \in {"typing", "refused"}
    BY <1>6 DEF ProposeTool, Reissue
  <2>3. QED  BY <1>3, <2>1, <2>2 DEF Event
<1>7. ASSUME UNCHANGED <<command, event>>, at # "typing" PROVE Proposed'
  <2>1. StrictShellTokens' = StrictShellTokens
    BY <1>7, TokensAlike
  <2>2. QED  BY <1>7, <2>1 DEF CallInv, Proposed
<1>8. CASE PreHook
  <2>1. /\ at = "proposed" /\ at' \in {"approved", "denied", "refused"} /\ effect' = effect
        /\ UNCHANGED command /\ event' = event
    <3>0. plan'.behavior \in {"redirect", "raises", "direct", "neutral"}
      BY <1>8, RouteBehaves, Zenon DEF PreHook, CallInv, Proposed
    <3>1. at' \in {"approved", "denied", "refused"}
      BY <1>8, <3>0, Zenon DEF PreHook
    <3>2. QED  BY <1>8, <3>1, Zenon DEF PreHook
  <2>2. at' = "approved" => Approved'
    BY <1>8, <2>1, HookApproves DEF CallInv
  <2>3. effect' = NoEffect
    BY <2>1 DEF CallInv
  <2>4. QED  BY <1>2, <1>7, <2>1, <2>2, <2>3 DEF CallInv, NoEffect
<1>9. ASSUME UNCHANGED <<event, plan, absent, sawPre>>, Approved,
             missing' = missing \/ event.kind \notin {"controller", "workbook"}
      PROVE  Approved'
  <2>1. event.kind = "execution" /\ event.words # None => ArgvApproved(event.words, event.dir)'
    BY <1>9 DEF Approved, ArgvApproved
  <2>2. event.kind \in {"controller", "workbook"} => sawPre' = Supervised(event)'
    BY <1>9, SupervisedAlike DEF Approved
  <2>3. QED  BY <1>9, <2>1, <2>2 DEF Approved
<1>10. CASE ChangeFiles
  <2>1. /\ at \in {"proposed", "approved"} /\ event.kind = "execution" /\ at' = at
        /\ UNCHANGED <<command, event, plan, absent, sawPre, effect>>
    BY <1>10 DEF ChangeFiles
  <2>2. effect' = NoEffect
    BY <2>1 DEF CallInv
  <2>3. QED  BY <1>2, <1>7, <1>9, <2>1, <2>2 DEF CallInv, NoEffect
<1>11. CASE Run
  <2>1. /\ at = "approved" /\ at' = "ran" /\ effect' = Carried
        /\ UNCHANGED <<command, event, plan, missing, absent, sawPre>>
    BY <1>11 DEF Run
  <2>2. effect' = Carried'
    BY <2>1, CarriedAlike DEF command
  <2>3. QED  BY <1>2, <1>7, <1>9, <2>1, <2>2 DEF CallInv
<1>12. CASE PostHook
  <2>1. /\ at = "ran" /\ at' = "over" /\ sawPost' = Supervised(event)
        /\ UNCHANGED <<command, event, plan, missing, absent, sawPre, effect>>
    BY <1>12 DEF PostHook
  <2>2. effect' = Carried' /\ sawPost' = Supervised(event)'
    BY <2>1, CarriedAlike, SupervisedAlike DEF command, CallInv
  <2>3. QED  BY <1>2, <1>7, <1>9, <2>1, <2>2 DEF CallInv
<1>13. CASE UNCHANGED vars
  <2>1. UNCHANGED <<command, at, event, plan, missing, absent, sawPre, sawPost, effect>>
    BY <1>13 DEF vars, routing
  <2>2. Carried' = Carried /\ Supervised(event)' = Supervised(event)
    BY <2>1, CarriedAlike, SupervisedAlike DEF command
  <2>3. QED  BY <1>2, <1>7, <1>9, <2>1, <2>2 DEF CallInv, NoEffect
<1>14. QED
  BY <1>1, <1>4, <1>5, <1>6, <1>8, <1>10, <1>11, <1>12, <1>13 DEF RoutingNext

LEMMA CallHolds == RoutingSpec => []CallInv
BY CallInit, CallStep, PTL DEF RoutingSpec

\* What the agent takes to the controller was made of an argv or of a patch.
IsRequest(r) ==
  \E tool, words, dir, o :
    /\ r = ControllerRequest(tool, words, dir, o)
    /\ tool # "apply_patch" => words # None /\ IsWords(words)

RequestInv ==
  /\ request # None => IsRequest(request)
  /\ event.kind \in {"controller", "workbook"} /\ event.payload # None => IsRequest(event.payload)

LEMMA RequestInit == RoutingInit => RequestInv
BY DEF RoutingInit, RequestInv, NoEvent, Event

LEMMA RequestStep == CallInv /\ RequestInv /\ [RoutingNext]_vars => RequestInv'
<1> SUFFICES ASSUME CallInv, RequestInv, [RoutingNext]_vars PROVE RequestInv'
  OBVIOUS
<1>1. CASE UNCHANGED <<request, event>>
  BY <1>1 DEF RequestInv
<1>2. CASE PreHook
  <2>1. /\ at = "proposed" /\ event' = event /\ plan' = PlanPretoolRoute(event)
        /\ Proposed /\ event.kind \in Kinds
    BY <1>2, Zenon DEF PreHook, CallInv, Proposed
  <2>2. SUFFICES ASSUME request' = PlanPretoolRoute(event).request, request' # None,
                        plan'.behavior = "redirect"
                 PROVE  IsRequest(request')
    <3>1. /\ plan'.behavior # "redirect" => request' = request
          /\ plan'.behavior = "redirect" => request' = plan'.request
      BY <1>2, <2>1, RouteBehaves, Zenon DEF PreHook
    <3>2. QED  BY <2>1, <3>1 DEF RequestInv
  <2>3. ShellInv /\ Proposed /\ event.kind \in Kinds
    BY <2>1 DEF CallInv, Proposed
  <2>4. CASE event.kind = "execution"
    <3>1. /\ event.words # None
          /\ request' = ControllerRequest(event.name, event.words, event.dir,
                                          ClassifyExecutionArgv(event.words, event.dir))
      BY <2>1, <2>2, <2>4 DEF PlanPretoolRoute, PlanExecution, Route
    <3>2. IsWords(event.words)
      BY <2>3, <2>4, <3>1, ArgvIsWords
    <3>3. QED  BY <3>1, <3>2 DEF IsRequest
  <2>5. CASE event.kind = "patch"
    <3>1. request' = ControllerRequest("apply_patch", None, event.dir, PatchOperation)
      BY <2>2, <2>5 DEF PlanPretoolRoute, PlanPatch, Route
    <3>2. QED  BY <3>1 DEF IsRequest
  <2>6. CASE event.kind = "controller"
    BY <2>1, <2>2, <2>6 DEF PlanPretoolRoute, PlanController, Route
  <2>7. CASE event.kind \in {"workbook", "adapter", "other"}
    BY <2>1, <2>2, <2>7 DEF PlanPretoolRoute, Route
  <2>8. QED  BY <2>3, <2>4, <2>5, <2>6, <2>7 DEF Kinds
<1>3. ASSUME NEW e, Propose(e), e.kind \notin {"controller", "workbook"} PROVE RequestInv'
  BY <1>3 DEF Propose, RequestInv
<1>4. CASE ProposeCommand \/ ProposeList \/ ProposeTool
  BY <1>3, <1>4, Zenon DEF ProposeCommand, ProposeList, ProposeTool, Event
<1>5. CASE Reissue
  <2>1. PICK payload \in {None, request} \cup
                {[request EXCEPT !.target = t] : t \in {"shell.read", "evaluation.workbook"}} :
          \E kind \in {"controller", "workbook"} : \E name :
            Propose(Event(kind, name, None, "root", payload))
    BY <1>5, Zenon DEF Reissue
  <2>2. event'.payload = payload /\ request' = request
    BY <2>1 DEF Propose, Event
  <2>3. PICK tool, words, dir, o :
          /\ request = ControllerRequest(tool, words, dir, o)
          /\ tool # "apply_patch" => words # None /\ IsWords(words)
    BY <1>5 DEF Reissue, RequestInv, IsRequest
  <2>4. ASSUME NEW t PROVE IsRequest([request EXCEPT !.target = t])
    <3>1. [request EXCEPT !.target = t] =
            ControllerRequest(tool, words, dir, Operation(t, o.subject, <<>>))
      BY <2>3 DEF ControllerRequest, Operation
    <3>2. QED  BY <2>3, <3>1 DEF IsRequest
  <2>5. payload # None => IsRequest(payload)
    BY <1>5, <2>4 DEF Reissue, RequestInv
  <2>6. QED  BY <2>2, <2>5 DEF RequestInv
<1>6. QED
  BY <1>1, <1>2, <1>4, <1>5
  DEF RoutingNext, TypeCharacter, ChangeFiles, Run, PostHook, vars, routing

LEMMA RequestHolds == RoutingSpec => []RequestInv
BY CallHolds, RequestInit, RequestStep, PTL DEF RoutingSpec

\* What is carried out was approved.
LEMMA EffectIsCarried ==
  ASSUME CallInv, effect.by # "nobody"
  PROVE  /\ effect = Carried /\ Proposed /\ Approved /\ ShellInv /\ at \in {"ran", "over"}
<1>1. at \in {"ran", "over"}
  BY DEF CallInv, NoEffect
<1>2. QED  BY <1>1 DEF CallInv

\* What an approval rules out, of an argv, a patch or a tool.
LEMMA GeneralGoesToController == CallInv => GeneralIsRedirected
<1> SUFFICES ASSUME CallInv, effect.by = "itself", Recognized(effect.of),
                    effect.of.target \notin WorkbookTargets
             PROVE  \/ event.kind = "execution" /\ event.name = "Bash"
                         /\ (event.words = None \/ apart \/ Leads \/ <<>> \in ToSet(event.words))
                    \/ event.kind = "patch" /\ event.name # "command"
  BY DEF GeneralIsRedirected
<1> DEFINE ws == event.words
<1>1. effect = Carried /\ Proposed /\ Approved /\ ShellInv /\ event.kind \in Kinds
  BY EffectIsCarried DEF Proposed
<1>2. ASSUME event.kind = "execution", ws # None,
             effect.of = ClassifyExecutionArgv(ws, event.dir)
      PROVE  <<>> \in ToSet(ws)
  <2>1. IsWords(ws)
    BY <1>1, <1>2, ArgvIsWords
  <2>2. ~Scripted(ws) /\ Recognized(ClassifyGeneralArgv(ws, event.dir))
    BY <1>2, <2>1, Classified
  <2>3. QED  BY <1>1, <1>2, <2>2 DEF Approved, ArgvApproved
<1>3. CASE event.kind = "execution" /\ event.name = "Bash"
  <2>1. SUFFICES ASSUME ws # None, ~apart, ~Leads PROVE <<>> \in ToSet(ws)
    BY <1>3
  <2>2. ws = StrictShellTokens /\ event.dir = "root"
    BY <1>1, <1>3 DEF Proposed
  <2>3. ~active /\ WordsOf(shell) = ws
    BY <1>1, <2>1, <2>2, ShellMeans DEF SameMeaning
  <2>4. effect.of = ClassifyExecutionArgv(ws, event.dir)
    BY <1>1, <1>3, <2>1, <2>3 DEF Carried, Effect
  <2>5. QED  BY <1>2, <1>3, <2>1, <2>4
<1>4. CASE event.kind = "execution" /\ event.name # "Bash"
  <2>1. event.name = "tool_exec" /\ ws \in Lists
    BY <1>1, <1>4 DEF Proposed
  <2>2. ws # None
    BY <2>1, RoutingAssumption
  <2>3. effect.of = ClassifyExecutionArgv(ws, event.dir)
    BY <1>1, <1>4, <2>1 DEF Carried, Effect, NoEffect
  <2>4. <<>> \notin ToSet(ws)
    BY <1>1, <1>4, <2>1, <2>2, ArgvIsWords
  <2>5. QED  BY <1>2, <1>4, <2>2, <2>3, <2>4
<1>5. CASE event.kind = "patch"
  BY <1>1, <1>5 DEF Approved
<1>6. CASE event.kind \in {"controller", "workbook"}
  BY <1>1, <1>6 DEF Carried, Effect, NoEffect
<1>7. CASE event.kind \in {"adapter", "other"}
  BY <1>1, <1>7 DEF Carried, Effect, Unrecognized, Recognized, Operation
<1>8. QED  BY <1>1, <1>3, <1>4, <1>5, <1>6, <1>7 DEF Kinds

\* For argvs of any length, lists of arguments of any kind and any files: an
\* operation of the vocabulary that belongs to no workbook is left to the
\* controller (plan_pretool_route), with the exceptions that GeneralIsRedirected
\* names.
THEOREM GeneralsAreRedirected == RoutingSpec => []GeneralIsRedirected
BY GeneralGoesToController, CallHolds, PTL

\* A request is read by the supervisor as the controller reads it.
LEMMA ExecutedIsSeen == CallInv /\ RequestInv => SeenAsExecuted
<1> SUFFICES ASSUME CallInv, RequestInv, effect.by = "controller" PROVE SeenAsExecuted
  BY DEF SeenAsExecuted
<1> DEFINE r == event.payload
           o == ClassificationForRequest(r)
<1>1. /\ effect = Carried /\ Proposed /\ Approved /\ event.kind \in Kinds
      /\ at = "over" /\ event.kind \in {"controller", "workbook"} => sawPost = Supervised(event)
  BY EffectIsCarried DEF Proposed, CallInv
<1>2. event.kind \in {"controller", "workbook"}
  BY <1>1 DEF Carried, Effect, NoEffect, Proposed, Kinds
<1>3. /\ event.kind = "controller" => event.name = "execute"
      /\ Validated(r) /\ effect.of = o
  BY <1>1, <1>2 DEF Carried, Effect, NoEffect
<1>4. r # None /\ Revalidated(r) /\ Recognized(o) /\ o.target = r.target /\ r.target \notin WorkbookTargets
  BY <1>3 DEF Validated, Revalidated
<1>5. sawPre = Supervised(event)
  BY <1>1, <1>2 DEF Approved
<1>6. CASE event.kind = "workbook"
  <2>1. Supervised(event).target = r.target
    BY <1>4, <1>6 DEF Supervised, Operation
  <2>2. QED  BY <1>3, <1>4, <1>5, <1>6, <2>1 DEF SeenAsExecuted
<1>7. CASE event.kind = "controller"
  <2>1. SUFFICES ASSUME r.words = None \/ SameReading(r.words) PROVE Supervised(event) = o
    BY <1>1, <1>2, <1>3, <1>5, <1>7 DEF SeenAsExecuted
  <2>2. CASE r.tool = "apply_patch"
    BY <1>3, <1>4, <1>7, <2>2 DEF Supervised, ClassificationForRequest
  <2>3. CASE r.tool # "apply_patch"
    <3>1. r.words # None /\ IsWords(r.words)
      <4>1. PICK tool, words, dir, c :
              /\ r = ControllerRequest(tool, words, dir, c)
              /\ tool # "apply_patch" => words # None /\ IsWords(words)
        BY <1>2, <1>4 DEF RequestInv, IsRequest
      <4>2. r.tool = tool /\ r.words = words
        BY <4>1 DEF ControllerRequest
      <4>3. QED  BY <2>3, <4>1, <4>2
    <3>2. o = ClassifyExecutionArgv(r.words, r.dir)
      BY <2>3 DEF ClassificationForRequest
    <3>3. SupervisedCommand(r.words) = o
      BY <1>4, <2>1, <3>1, <3>2, SupervisorReads
    <3>4. QED  BY <1>3, <1>4, <1>7, <2>3, <3>3 DEF Supervised
  <2>4. QED  BY <2>2, <2>3
<1>8. QED  BY <1>2, <1>6, <1>7

\* Whatever is reissued, changed or made up: the supervisor has seen before, and
\* sees afterwards, what the controller carries out (_semantic_pre_event,
\* restore_posttool_event), as far as it reads commands as the router does.
THEOREM ExecutionsWereSeen == RoutingSpec => []SeenAsExecuted
BY ExecutedIsSeen, CallHolds, RequestHolds, PTL

\* The client makes of its arguments what an approval made of them, or the router
\* recognized none.
LEMMA ClientTakesTheBindings == CallInv => RouterAndClientAgree
<1> SUFFICES ASSUME CallInv, effect.by = "client" PROVE RouterAndClientAgree
  BY DEF RouterAndClientAgree
<1> DEFINE ws == event.words
           tail == Drop(ws, 2)
           p == ParseClosedOptions(tail)
           q == ParseArguments(tail)
<1>1. effect = Carried /\ Proposed /\ Approved /\ ShellInv /\ event.kind \in Kinds
  BY EffectIsCarried DEF Proposed
<1>2. event.kind = "execution" /\ event.name = "tool_exec"
  BY <1>1 DEF Carried, Effect, NoEffect, Proposed, Kinds
<1>3. /\ IsClient(ws, event.dir) /\ ClientAction(tail, event.dir) # None
      /\ effect.of = ClientAction(tail, event.dir)
  BY <1>1, <1>2 DEF Carried, Effect, NoEffect
<1>4. ws # None /\ IsWords(ws) /\ <<>> \notin ToSet(ws)
  <2>1. ws # None
    BY <1>1, <1>2, RoutingAssumption DEF Proposed
  <2>2. QED  BY <1>1, <1>2, <2>1, ArgvIsWords
<1>5. ArgvApproved(ws, event.dir)
  BY <1>1, <1>2, <1>4 DEF Approved
<1>6. IsWords(tail) /\ <<>> \notin ToSet(tail)
  <2>1. Len(ws) >= 2 /\ Len(ws) \in Nat
    BY <1>3, <1>4, BeginsTwo DEF IsClient
  <2> DEFINE rest == SubSeq(ws, 2 + 1, Len(ws))
  <2>2. IsWords(rest) /\ ToSet(rest) \subseteq ToSet(ws)
    BY <1>4, <2>1, RestIsWords
  <2>3. tail = rest
    BY DEF Drop
  <2> HIDE DEF rest, tail, ws
  <2>4. QED  BY <1>4, <2>2, <2>3
<1>7. /\ effect.of = CodeModeAction(q, event.dir, missing)
      /\ CodeModeAction(q, event.dir, missing) # None
  BY <1>3 DEF ClientAction
<1>8. effect.of = Coordinates(q) /\ q.ok
  <2>1. q.ok
    BY <1>7, Zenon DEF CodeModeAction
  <2>2. QED  BY <1>7, <2>1, ActionIsKnown
<1>9. CASE Irregular(tail) /\ plan.behavior = "neutral" /\ sawPre = Unrecognized
  BY <1>9 DEF RouterAndClientAgree, Recognized, Unrecognized, Operation
<1>10. p.ok \/ ~Irregular(tail) => p = q
  BY <1>6, <1>8, ParsersAgree
<1>11. CASE /\ ~Irregular(tail) /\ plan.behavior = "neutral" /\ sawPre = Unrecognized
            /\ CodeModeAction(p, event.dir, absent) = None
  <2> HIDE DEF p, q, tail
  <2>1. CodeModeAction(q, event.dir, absent) = None
    BY <1>10, <1>11
  <2>2. ~AdmitsInvocation(q, event.dir, absent) /\ AdmitsInvocation(q, event.dir, missing)
    <3>1. Coordinates(q) # None
      BY <1>7, <1>8
    <3>2. QED  BY <1>7, <2>1, <3>1, Zenon DEF CodeModeAction
  <2>3. LET c == Coordinates(q) IN absent \in {c.run, c.session, c.request}
    BY <2>2 DEF AdmitsInvocation
  <2>4. absent # None
    BY <2>2, RoutingAssumption DEF AdmitsInvocation
  <2>5. ~Recognized(sawPre)
    BY <1>11 DEF Recognized, Unrecognized, Operation
  <2>6. QED  BY <1>8, <1>11, <2>3, <2>4, <2>5 DEF RouterAndClientAgree
<1>12. CASE p.ok /\ plan = Route("direct", Coordinates(p))
  BY <1>8, <1>10, <1>12 DEF RouterAndClientAgree
<1>13. QED  BY <1>2, <1>3, <1>4, <1>5, <1>9, <1>11, <1>12 DEF ArgvApproved

\* For command lines of any length and files that come and go: the client, which
\* parses its arguments by argparse, carries out the action on the bindings that
\* the router judged (_closed_code_mode_action), unless the router recognized
\* none, for the two reasons that RouterAndClientAgree names: the words are of a
\* form that argparse alone accepts, or one of the files that they name was
\* missing when they were judged.
THEOREM RouterBindsTheClient == RoutingSpec => []RouterAndClientAgree
BY ClientTakesTheBindings, CallHolds, PTL
=============================================================================
