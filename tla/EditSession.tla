---------------------------- MODULE EditSession ----------------------------
(***************************************************************************)
(* What the shell's line editor promises the person typing.                *)
(*                                                                         *)
(* A text with a caret in it, of at most Capacity characters; a history of *)
(* the most recent commands, newest first, without blank ones and without  *)
(* immediate repetitions; and a walk through that history which keeps the  *)
(* text it started from and gives it back at the end.                      *)
(***************************************************************************)
EXTENDS Naturals, Sequences

CONSTANTS
    Char,        \* characters that can be typed
    Space,       \* the blank among them
    Capacity,    \* characters of a line
    Remembered,  \* commands of the history
    TabWidth     \* blanks a Tab inserts

VARIABLES
    text,        \* the line being edited
    caret,       \* how many characters are left of the caret
    past,        \* the history, newest first
    visiting,    \* the history entry being visited, 0 for none
    kept,        \* the text the visit started from
    command      \* the latest line given to execute

vars == <<text, caret, past, visiting, kept, command>>

Init ==
    /\ text = <<>> /\ caret = 0
    /\ past = <<>> /\ visiting = 0 /\ kept = <<>>
    /\ command = <<>>

Left(n) == SubSeq(text, 1, n)
Right(n) == SubSeq(text, n + 1, Len(text))

\* An edit ends the visit to the history.
Edit(newText, newCaret) ==
    /\ text' = newText
    /\ caret' = newCaret
    /\ visiting' = 0 /\ kept' = <<>>
    /\ UNCHANGED <<past, command>>

Insert(s) ==
    /\ Len(text) + Len(s) <= Capacity
    /\ Edit(Left(caret) \o s \o Right(caret), caret + Len(s))

Type == \E c \in Char : Insert(<<c>>)
Tab == Insert([i \in 1 .. TabWidth |-> Space])
Backspace == caret > 0 /\ Edit(Left(caret - 1) \o Right(caret), caret - 1)
Delete == caret < Len(text) /\ Edit(Left(caret) \o Right(caret + 1), caret)

MoveCaret ==
    /\ \/ caret > 0 /\ caret' = caret - 1
       \/ caret < Len(text) /\ caret' = caret + 1
       \/ caret' \in {0, Len(text)}
    /\ UNCHANGED <<text, past, visiting, kept, command>>

\* Show history entry n, or for n = 0 the text that was kept.
Visit(n) ==
    /\ visiting' = n
    /\ kept' = IF n = 0 THEN <<>> ELSE IF visiting = 0 THEN text ELSE kept
    /\ text' = IF n = 0 THEN kept ELSE past[n]
    /\ caret' = Len(text')
    /\ UNCHANGED <<past, command>>

Older == past # <<>> /\ Visit(IF visiting < Len(past) THEN visiting + 1 ELSE visiting)
Newer == visiting > 0 /\ Visit(visiting - 1)

Blank(s) == \A i \in 1 .. Len(s) : s[i] = Space

Remember(s) ==
    IF Blank(s) \/ (past # <<>> /\ past[1] = s) THEN past
    ELSE SubSeq(<<s>> \o past, 1, IF Len(past) < Remembered THEN Len(past) + 1 ELSE Remembered)

Submit ==
    /\ command' = text
    /\ past' = Remember(text)
    /\ text' = <<>> /\ caret' = 0
    /\ visiting' = 0 /\ kept' = <<>>

Next == Type \/ Tab \/ Backspace \/ Delete \/ MoveCaret \/ Older \/ Newer \/ Submit

Spec == Init /\ [][Next]_vars
=============================================================================
