---------------------------- MODULE StrictShell ----------------------------
(***************************************************************************)
(* What makes a command line an argv (execution_transport.py): a scan of   *)
(* its characters, and the tokens that shlex makes of them.  Both are      *)
(* automata, and run here in step with a third one, the shell, that says   *)
(* what the command would have meant.                                      *)
(*                                                                         *)
(* A character is a string of its own, one for all that code and shell     *)
(* treat alike: a run of letters is one character, ";" stands for ; && ||, *)
(* "<" for ( ) & | < >, "<(" for <( and >(, "*" for * ? [ { }; "sq", "dq"  *)
(* and "bq" are the quotes and the backquote, "bs" is a backslash, "sp" a  *)
(* space.  A reserved word is a run of letters, or "!".                    *)
(***************************************************************************)
EXTENDS Naturals, SequencesExt

CONSTANTS Letters,    \* runs of letters
          Reserved,   \* those of them that a shell reserves (time, if, coproc), and "!"
          MaxLength,  \* bound: characters of a command
          None        \* no argv

Special == {"sp", "CR", "NL", "sq", "dq", "bs", "$", "bq", ";", "<", "<(", "*", "#", "~", "=", "+", "!"}
Punctuation == {";", "<", "<("}
Chars   == Letters \cup Special

ASSUME ShellAssumption ==
  /\ Letters \cap Special = {} /\ Reserved \subseteq Letters \cup {"!"}
  /\ MaxLength \in Nat

VARIABLES scan,    \* _has_unquoted_shell_semantics, after the characters so far
          lex,     \* shlex.shlex, after the characters so far
          shell,   \* the words a shell makes of them
          active,  \* the shell expands, composes, redirects, comments or assigns
          plain,   \* the first word, up to an = in it, has no quote or backslash
          apart,   \* they hold what shlex and the shell split differently
          length   \* the number of characters

command == <<scan, lex, shell, active, plain, apart, length>>

-----------------------------------------------------------------------------
(* Splitting into words: shlex in POSIX mode, and the shell.  They differ in *)
(* the blanks, and in what a backslash escapes between double quotes.        *)

Unsplit == [at |-> "between", back |-> "word", words |-> <<>>, word |-> <<>>]

Bare(s) == s.at \in {"between", "word"}

Take(s, chars) == [s EXCEPT !.word = @ \o chars]

Split(s, c, blanks, escapable) ==
  CASE Bare(s) /\ c \in blanks ->
         IF s.at = "between" THEN s
         ELSE [s EXCEPT !.at = "between", !.word = <<>>, !.words = Append(@, s.word)]
    [] Bare(s) /\ c = "bs"             -> [s EXCEPT !.at = "bs", !.back = "word"]
    [] Bare(s) /\ c \in {"sq", "dq"}    -> [s EXCEPT !.at = c]
    [] Bare(s) /\ c \notin blanks \cup {"bs", "sq", "dq"}
                                       -> [Take(s, <<c>>) EXCEPT !.at = "word"]
    [] s.at \in {"sq", "dq"} /\ c = s.at -> [s EXCEPT !.at = "word"]
    [] s.at = "dq" /\ c = "bs"         -> [s EXCEPT !.at = "bs", !.back = "dq"]
    [] (s.at = "sq" /\ c # "sq") \/ (s.at = "dq" /\ c \notin {"dq", "bs"})
                                       -> Take(s, <<c>>)
    [] s.at = "bs" ->
         [Take(s, IF s.back = "dq" /\ c \notin escapable THEN <<"bs", c>> ELSE <<c>>)
            EXCEPT !.at = s.back]

LexBlanks      == {"sp", "CR", "NL"}
LexEscapable   == {"dq", "bs"}
ShellBlanks    == {"sp"}
ShellEscapable == {"dq", "bs", "$", "bq"}

WordsOf(s) == IF s.at = "between" THEN s.words ELSE Append(s.words, s.word)

\* A variable assignment before the command name
Assignment(word) ==
  \E k \in 2..Len(word) : word[k] = "=" /\ \A i \in 1..(k - 1) : word[i] \in Letters

\* An assignment that appends to the variable
Appending(word) ==
  \E k \in 3..Len(word) : /\ word[k] = "=" /\ word[k - 1] = "+"
                          /\ \A i \in 1..(k - 2) : word[i] \in Letters

\* A word that a shell does not take for the name of a command
Leading(word) ==
  (\E c \in Reserved : word = <<c>>) \/ Assignment(word) \/ Appending(word)

\* The shell acts on the first word: as a reserved word, or as one that appends
\* to a variable.
Leads == /\ plain /\ WordsOf(shell) # <<>>
         /\ \/ \E c \in Reserved : WordsOf(shell)[1] = <<c>>
            \/ Appending(WordsOf(shell)[1])

\* The character makes the shell expand, compose, redirect, comment or assign.
Activates(c) ==
  \/ Bare(shell) /\ c \in Punctuation \cup {"*", "$", "bq", "~", "NL"}
  \/ shell.at = "between" /\ c = "#"
  \/ shell.at = "dq" /\ c \in {"$", "bq"}
  \/ /\ Bare(shell) /\ c = "=" /\ shell.words = <<>> /\ plain
     /\ Assignment(Append(shell.word, c))

\* A carriage return between words, or an escaped backquote in double quotes
Parts(c) == \/ Bare(lex) /\ c = "CR"
            \/ lex.at = "bs" /\ lex.back = "dq" /\ c = "bq"

-----------------------------------------------------------------------------
(* _has_unquoted_shell_semantics; a newline is refused by its caller. *)

\* (mutant) a backquote between double quotes is overlooked
ExpandedDollarOnly == {"$"}

\* What expands between double quotes
Expanded == {"$", "bq"}

Scanned(s, c) ==
  CASE c = "NL"                         -> [s EXCEPT !.flagged = TRUE]
    [] c # "NL" /\ s.escaped            -> [s EXCEPT !.escaped = FALSE, !.start = FALSE]
    [] c # "NL" /\ ~s.escaped /\ s.quote = "sq" ->
         [s EXCEPT !.quote = IF c = "sq" THEN "no" ELSE @]
    [] c # "NL" /\ ~s.escaped /\ s.quote = "dq" ->
         [s EXCEPT !.quote = IF c = "dq" THEN "no" ELSE @,
                   !.escaped = (c = "bs"),
                   !.flagged = @ \/ c \in Expanded]
    [] c # "NL" /\ ~s.escaped /\ s.quote = "no" ->
         [s EXCEPT !.quote = IF c \in {"sq", "dq"} THEN c ELSE @,
                   !.escaped = (c = "bs"),
                   !.start = IF c = "bs" THEN @ ELSE c \in {"sp", "CR"},
                   !.flagged = \/ @ \/ c \in Punctuation \cup {"*", "$", "bq", "~"}
                               \/ (c = "#" /\ s.start)]

HasUnquotedShellSemantics == scan.flagged \/ scan.escaped \/ scan.quote # "no"

\* strict_shell_tokens
Refused(word) ==
  \/ word # <<>> /\ \A i \in 1..Len(word) : word[i] \in Punctuation
  \/ \E i \in 1..Len(word) : word[i] = "$"
  \/ word # <<>> /\ word[1] = "~"

StrictShellTokens ==
  LET words == WordsOf(lex) IN
  IF \/ HasUnquotedShellSemantics \/ words = <<>>
     \/ \E i \in 1..Len(words) : Refused(words[i])
     \/ Assignment(words[1])
  THEN None ELSE words

-----------------------------------------------------------------------------
Init == /\ scan = [quote |-> "no", escaped |-> FALSE, start |-> TRUE, flagged |-> FALSE]
        /\ lex = Unsplit
        /\ shell = Unsplit
        /\ active = FALSE /\ plain = TRUE /\ apart = FALSE
        /\ length = 0

Type(c) == /\ length < MaxLength
           /\ length' = length + 1
           /\ scan' = Scanned(scan, c)
           /\ lex' = Split(lex, c, LexBlanks, LexEscapable)
           /\ shell' = Split(shell, c, ShellBlanks, ShellEscapable)
           /\ active' = (active \/ Activates(c))
           /\ plain' = (plain /\ (c \in {"bs", "sq", "dq"} =>
                                    shell.words # <<>> \/ Contains(shell.word, "=")))
           /\ apart' = (apart \/ Parts(c))

Next == \E c \in Chars : Type(c)

Spec == Init /\ [][Next]_command

-----------------------------------------------------------------------------
\* An argv is made of a command only if the shell would have split it into the
\* same words, and expanded, composed, redirected, commented and assigned nothing
\* (strict_shell_tokens), whatever is quoted and escaped how - except for a
\* carriage return outside quotes, a blank to shlex alone, and for an escaped
\* backquote between double quotes, whose backslash the shell removes and shlex
\* keeps.  What a shell does because of the first word alone is not ruled out:
\* that a reserved word stands before the command, as in "time rm x", or that
\* a variable is appended to, as in "a+=1 rm x" (Leads).
SameMeaning ==
  StrictShellTokens # None /\ ~apart => ~active /\ WordsOf(shell) = StrictShellTokens

\* The same without the exceptions, as the docstring of strict_shell_tokens has it.
IdenticalMeaning ==
  StrictShellTokens # None => ~active /\ ~Leads /\ WordsOf(shell) = StrictShellTokens
=============================================================================
