-------------------------------- MODULE Deck --------------------------------
(***************************************************************************)
(* Reading a deck: the tokens of lexer.l, the grammar of parser.y, the     *)
(* include stack and the element list of spice_deck.cpp, and the pragmas,  *)
(* which Registry defines.  At the end the deck is written back, with the  *)
(* parameters replaced by their values.                                    *)
(*                                                                         *)
(* A file is [lines, terminated]: its lines, each a sequence of tokens,    *)
(* and whether the last one ends in a newline.                             *)
(***************************************************************************)
EXTENDS Registry

CONSTANTS
    Decks,      \* the decks to read: functions from names to files, one of them "main"
    Texts,      \* the texts of their lines
    Continued,  \* pragmas that go on in the next line, see Continues
    MaxOpen     \* files that can be open at once

(***************************************************************************)
(* A token is LINE text | PSUB name | COMMENT | TRAN | PRAGMA body |       *)
(* PART text | BAD | END, where PART is the beginning of a pragma or .tran *)
(* and BAD one that the grammar does not accept; all but LINE and PSUB     *)
(* begin their line.  The text of a LINE has no newline in it.  An         *)
(* unterminated file ends in a line that is not empty.                     *)
(***************************************************************************)
TranText == ".tran\n"
EndText == ".end"
InLine == [kind : {"LINE"}, text : Texts] \cup [kind : {"PSUB"}, name : STRING]
Whole == [kind : {"TRAN"}]
         \cup [kind : {"PRAGMA"}, body : Bodies \cup [op : {"include"}, file : STRING]]
Part == [kind : {"PART"}, text : STRING]
LineStart == [kind : {"COMMENT", "BAD", "END"}] \cup Whole \cup Part

Lines == {line \in Seq(InLine \cup LineStart) : \A k \in DOMAIN line : k > 1 => line[k] \in InLine}
Files == {f \in [lines : Seq(Lines), terminated : BOOLEAN] :
            ~f.terminated => f.lines # <<>> /\ Last(f.lines) # <<>>}

ASSUME DeckAssumption ==
    /\ MaxOpen \in Nat \ {0}
    /\ EndText \in Texts /\ TranText \notin Texts
    /\ \A c \in DOMAIN Continued : Continued[c] \in Whole \cup Part
    /\ \A d \in Decks : /\ d \in [DOMAIN d -> Files]
                        /\ "main" \in DOMAIN d

VARIABLES
    files,              \* what is on disk
    include_file_stack, \* open files, the one being read last: [file, line, tok]
    include_line_no_stk,\* yylineno of the files that wait
    yylineno,
    open,               \* the statement that waits for its EOL, or NoStatement
    elements,           \* the element list of the spice deck
    registry,
    pc
vars == <<files, include_file_stack, include_line_no_stk, yylineno, open, elements, registry, pc>>

NoStatement == [kind |-> "none"]
top == Last(include_file_stack)

(***************************************************************************)
(* The lexer: the token at the position of a file.  .end needs a character *)
(* after it; as the very end of a file it is a line of text.               *)
(***************************************************************************)
NextToken(f, at) ==
    LET last == at.line = Len(f.lines) /\ ~f.terminated
        line == f.lines[at.line]
    IN  IF at.line > Len(f.lines) \/ (last /\ at.tok > Len(line)) THEN [kind |-> "EOF"]
        ELSE IF at.tok > Len(line) THEN [kind |-> "EOL"]
        ELSE IF line[at.tok].kind = "END" /\ last THEN [kind |-> "LINE", text |-> EndText]
        ELSE line[at.tok]
Token == NextToken(files[top.file], top)

Moved(at) == IF Token.kind = "EOL" THEN [at EXCEPT !.line = @ + 1, !.tok = 1]
             ELSE [at EXCEPT !.tok = @ + 1]
Forward == [include_file_stack EXCEPT ![Len(include_file_stack)] = Moved(@)]

Init ==
    /\ files \in Decks
    /\ include_file_stack = <<[file |-> "main", line |-> 1, tok |-> 1]>>
    /\ include_line_no_stk = <<>>
    /\ yylineno = 1
    /\ open = NoStatement
    /\ elements = <<>>
    /\ registry = EmptyRegistry
    /\ pc = "reading"

(***************************************************************************)
(* add_line(), add_param_ref(), add_nl(): the last one suppresses a        *)
(* newline after another.                                                  *)
(***************************************************************************)
TextElement(txt) == [type |-> "text", text |-> txt]
ParameterElement(name) == [type |-> "parameter", text |-> name]
AddLine(list, txt) == Append(list, TextElement(txt))
AddParamRef(list, name) == Append(list, ParameterElement(name))
NewLine == [type |-> "new_line", text |-> ""]
AddNlOnce(list) == IF NewLine \in ToSet(list) THEN list ELSE Append(list, NewLine)
AddNl(list) == IF list # <<>> /\ Last(list) = NewLine THEN list ELSE Append(list, NewLine)

\* line: LINE | PSUBSTITUTION
ReadText ==
    /\ pc = "reading" /\ open = NoStatement
    /\ Token.kind = "LINE"
    /\ elements' = AddLine(elements, Token.text)
    /\ include_file_stack' = Forward
    /\ UNCHANGED <<files, include_line_no_stk, yylineno, open, registry, pc>>

ReadSubstitution ==
    /\ pc = "reading" /\ open = NoStatement
    /\ Token.kind = "PSUB"
    /\ IF FindParameter(registry, Token.name) = 0
       THEN registry' = [registry EXCEPT !.errs = @ + 1] /\ UNCHANGED elements
       ELSE elements' = AddParamRef(elements, Token.name) /\ UNCHANGED registry
    /\ include_file_stack' = Forward
    /\ UNCHANGED <<files, include_line_no_stk, yylineno, open, pc>>

BlankLine ==
    /\ pc = "reading" /\ open = NoStatement
    /\ Token.kind = "EOL"
    /\ elements' = AddNl(elements)
    /\ include_file_stack' = Forward
    /\ yylineno' = yylineno + 1
    /\ UNCHANGED <<files, include_line_no_stk, open, registry, pc>>

BeginStatement ==
    /\ pc = "reading" /\ open = NoStatement
    /\ Token.kind \in {"COMMENT", "TRAN", "PRAGMA", "PART", "END"}
    /\ open' = Token
    /\ include_file_stack' = Forward
    /\ UNCHANGED <<files, include_line_no_stk, yylineno, elements, registry, pc>>

(***************************************************************************)
(* start_include() runs once the EOL of its pragma has been read: the line *)
(* number to come back to is the next one.                                 *)
(***************************************************************************)
CanOpen(file) == file \in DOMAIN files /\ Len(include_file_stack) < MaxOpen

ResumeHere == yylineno
ResumeNext == yylineno + 1

StartInclude(file) ==
    IF CanOpen(file)
    THEN /\ include_file_stack' = Append(Forward, [file |-> file, line |-> 1, tok |-> 1])
         /\ include_line_no_stk' = Append(include_line_no_stk, ResumeNext)
         /\ yylineno' = 1
         /\ UNCHANGED registry
    ELSE /\ registry' = [registry EXCEPT !.errs = @ + 1]
         /\ include_file_stack' = Forward
         /\ yylineno' = yylineno + 1
         /\ UNCHANGED include_line_no_stk
IsInclude(statement) == statement.kind = "PRAGMA" /\ statement.body.op = "include"

\* The EOL of an open statement: the grammar reduces it and its action runs.
EndStatement ==
    /\ pc = "reading" /\ open \notin {NoStatement} \cup Part
    /\ Token.kind = "EOL"
    /\ IF IsInclude(open) THEN StartInclude(open.body.file) /\ UNCHANGED <<elements, pc>>
       ELSE /\ include_file_stack' = Forward
            /\ yylineno' = yylineno + 1
            /\ registry' = IF open.kind = "PRAGMA" THEN Define(registry, open.body) ELSE registry
            /\ elements' = CASE open.kind = "TRAN" -> AddLine(elements, TranText)
                             [] open.kind = "END" -> AddNl(AddLine(elements, EndText))
                             [] OTHER -> elements
            /\ pc' = IF registry'.aborted THEN "aborted"
                     ELSE IF open.kind = "END" THEN "ended" ELSE pc
            /\ UNCHANGED include_line_no_stk
    /\ open' = NoStatement
    /\ UNCHANGED files

\* yywrap(): back to the file that included this one.
EndOfFile ==
    /\ pc \in {"reading", "ended"}
    /\ Token.kind = "EOF" /\ Len(include_file_stack) > 1
    /\ include_file_stack' = Front(include_file_stack)
    /\ include_line_no_stk' = Front(include_line_no_stk)
    /\ yylineno' = Last(include_line_no_stk)
    /\ UNCHANGED <<files, open, elements, registry, pc>>

(***************************************************************************)
(* A pragma or .tran that an included file without a last newline leaves   *)
(* open: the lexer is still IN_PRAGMA, so the next line of the including   *)
(* file, whatever it is, is read as more of it.  Continued[s, line] is     *)
(* what the grammar makes of the statement s and that line; where it is    *)
(* not defined the two together are a syntax error.                        *)
(***************************************************************************)
NextLine == files[top.file].lines[top.line]
Continues ==
    /\ open.kind \in {"PRAGMA", "TRAN", "PART"} /\ top.tok = 1
    /\ Token.kind \notin {"EOL", "EOF"}
    /\ <<open, NextLine>> \in DOMAIN Continued

ContinueStatement ==
    /\ pc = "reading" /\ Continues
    /\ open' = Continued[open, NextLine]
    /\ include_file_stack' =
            [include_file_stack EXCEPT ![Len(include_file_stack)] =
                [@ EXCEPT !.tok = Len(NextLine) + 1]]
    /\ UNCHANGED <<files, include_line_no_stk, yylineno, elements, registry, pc>>

\* What the grammar does not accept ends the program: anything but the EOL in
\* an open statement, half a statement, anything after .end, a deck without .end.
UnexpectedWithoutEnd ==
    \/ Token.kind = "BAD" /\ ~Continues
    \/ open # NoStatement /\ Token.kind \notin {"EOL", "EOF"} /\ ~Continues
    \/ open \in Part /\ Token.kind = "EOL"
    \/ pc = "ended" /\ Token.kind # "EOF"
Unexpected ==
    \/ Token.kind = "BAD" /\ ~Continues
    \/ open # NoStatement /\ Token.kind \notin {"EOL", "EOF"} /\ ~Continues
    \/ open \in Part /\ Token.kind = "EOL"
    \/ pc = "ended" /\ Token.kind # "EOF"
    \/ pc = "reading" /\ Token.kind = "EOF" /\ Len(include_file_stack) = 1

SyntaxError ==
    /\ pc \in {"reading", "ended"}
    /\ Unexpected
    /\ pc' = "refused"
    /\ UNCHANGED <<files, include_file_stack, include_line_no_stk, yylineno, open, elements,
                   registry>>

\* read_cir_file(): a deck is used only if no error was counted.
Finish ==
    /\ pc = "ended"
    /\ Token.kind = "EOF" /\ Len(include_file_stack) = 1
    /\ pc' = IF registry.errs > 0 THEN "refused" ELSE "accepted"
    /\ UNCHANGED <<files, include_file_stack, include_line_no_stk, yylineno, open, elements,
                   registry>>

Next == \/ ReadText \/ ReadSubstitution \/ BlankLine \/ BeginStatement \/ EndStatement
        \/ ContinueStatement \/ EndOfFile \/ SyntaxError \/ Finish
Spec == Init /\ [][Next]_vars /\ WF_vars(Next)

(***************************************************************************)
(* write_cir_file(): the elements in order, in lines.  The text of a .tran *)
(* ends in a newline of its own.                                           *)
(***************************************************************************)
AddElement(out, e) ==
    IF e = NewLine THEN [done |-> Append(out.done, out.line), line |-> <<>>]
    ELSE IF e = TextElement(TranText) THEN [done |-> Append(out.done, Append(out.line, e)), line |-> <<>>]
    ELSE [out EXCEPT !.line = Append(@, e)]

InLines(list) ==
    LET out[n \in 0 .. Len(list)] ==
            IF n = 0 THEN [done |-> <<>>, line |-> <<>>] ELSE AddElement(out[n - 1], list[n])
    IN  out[Len(list)]

Printed(line, current) ==
    [k \in DOMAIN line |-> IF line[k].type = "parameter" THEN PrintToFile(registry, line[k].text, current)
                           ELSE line[k].text]

WriteCirFile ==
    LET done == InLines(elements).done
    IN  [n \in DOMAIN done |-> Printed(done[n], CurValues(registry))]
-----------------------------------------------------------------------------
(***************************************************************************)
(* Types; and the line number that goes into the messages is the one of    *)
(* the file being read, before an include, in it and after it.             *)
(***************************************************************************)
DeckTypeOK ==
    /\ pc \in {"reading", "ended", "accepted", "refused", "aborted"}
    /\ Len(include_file_stack) \in 1 .. MaxOpen
    /\ Len(include_line_no_stk) = Len(include_file_stack) - 1
    /\ yylineno = top.line
    /\ \A k \in DOMAIN include_line_no_stk : include_line_no_stk[k] = include_file_stack[k].line

(***************************************************************************)
(* For reference: the value of every parameter when they are computed      *)
(* once, in the order of the deck, each from those before it.              *)
(***************************************************************************)
ValuesInOrder(r) ==
    LET upto[n \in 0 .. Len(r.params)] ==
            IF n = 0 THEN <<>>
            ELSE Append(upto[n - 1], OwnValue(r, r.params[n], upto[n - 1]))
    IN  upto[Len(r.params)]

(***************************************************************************)
(* For reference: the lines that stand for a file in the deck JoSIM gets,  *)
(* with includes in place and without comments, pragmas and blank lines.   *)
(* included holds those of the files that a file can include.              *)
(***************************************************************************)
LineWritten(line, included) ==
    IF line = <<>> THEN <<>>
    ELSE CASE line[1].kind = "COMMENT" -> <<>>
           [] IsInclude(line[1]) -> included[line[1].body.file]
           [] line[1].kind = "PRAGMA" /\ ~IsInclude(line[1]) -> <<>>
           [] line[1].kind = "TRAN" -> <<AddLine(<<>>, TranText)>>
           [] line[1].kind = "END" -> <<AddLine(<<>>, EndText)>>
           [] OTHER -> <<[k \in DOMAIN line |-> IF line[k].kind = "LINE" THEN TextElement(line[k].text)
                                               ELSE ParameterElement(line[k].name)]>>

FileWritten(lines, included) ==
    LET upto[n \in 0 .. Len(lines)] ==
            IF n = 0 THEN <<>> ELSE upto[n - 1] \o LineWritten(lines[n], included)
    IN  upto[Len(lines)]

Written ==
    LET nested[depth \in 0 .. MaxOpen] ==
            [name \in DOMAIN files |->
                IF depth = 0 THEN <<>> ELSE FileWritten(files[name].lines, nested[depth - 1])]
    IN  nested[MaxOpen]["main"]

\* The elements of a sequence that are at some positions.
ElementsAt(s, positions) ==
    LET upto[n \in 0 .. Len(s)] ==
            IF n = 0 THEN <<>>
            ELSE IF n \in positions THEN Append(upto[n - 1], s[n]) ELSE upto[n - 1]
    IN  upto[Len(s)]

AllTerminated == \A f \in DOMAIN files : files[f].terminated

(***************************************************************************)
(* The deck that JoSIM gets is the deck that was written: every line of    *)
(* text and of .tran, in order, includes in the place of their pragma,     *)
(* each parameter as its value in the order of the definitions.  (A file   *)
(* without a final newline joins its last line to the next of the          *)
(* including file; the statement leaves those out.)                        *)
(***************************************************************************)
DeckAsWritten ==
    pc = "accepted" /\ AllTerminated =>
        ElementsAt(WriteCirFile, {n \in DOMAIN WriteCirFile : WriteCirFile[n] # <<>>})
            = [n \in DOMAIN Written |-> Printed(Written[n], ValuesInOrder(registry))]

(***************************************************************************)
(* The parts of AcceptedIsSound below.  Names are unique.  An expression   *)
(* refers to parameters before it, so the recursive evaluation never meets *)
(* the lock and gives the value that evaluating in the order of the deck   *)
(* gives.  At most one optimizer is set up, and its objective exists.      *)
(***************************************************************************)
PrefixOf(n) == [registry EXCEPT !.params = SubSeq(@, 1, n)]
NamesUnique ==
    \A i, j \in DOMAIN registry.params :
        registry.params[i].name = registry.params[j].name => i = j
RefersBack ==
    \A i \in DOMAIN registry.params :
        registry.params[i].kind = "expr" =>
            ExprErrors(PrefixOf(i - 1), registry.params[i].body.expr) = 0
PullAgreesWithOrder ==
    \A i \in DOMAIN registry.params :
        /\ CurValues(registry)[i] # Exit
        /\ CurValues(registry)[i] = ValuesInOrder(registry)[i]
OptimizerReady ==
    /\ registry.anneal = NoAnneal \/ registry.bo = "none"
    /\ registry.anneal # NoAnneal => FindParameter(registry, "EVAL") # 0
    /\ registry.bo # "none" => FindParameter(registry, "OBJECTIVE") # 0

(***************************************************************************)
(* What an optimizer can tune has a range that is not empty, its value     *)
(* lies in the range, if it is a number, and a range mapped by logarithms  *)
(* is positive: the mapping to 0 .. 1 is defined and increasing.           *)
(***************************************************************************)
TunableMapped ==
    \A i \in Tunable(registry) :
        LET p == registry.params[i]
        IN  /\ -Unbounded < p.lo /\ p.lo < p.hi /\ p.hi < Unbounded
            /\ IsFinite(p.body.value) => p.lo <= p.body.value /\ p.body.value <= p.hi
            /\ "log_map" \in p.flags => p.lo > 0

(***************************************************************************)
(* A waveform starts and ends at the low level, and its points are in the  *)
(* order of time when the first pulse rises after 0 and each next one      *)
(* after the one before has fallen.                                        *)
(***************************************************************************)
PwlWellFormed ==
    \A p \in {q \in ToSet(registry.params) : q.kind = "pwl"} :
        LET w == Waveform(registry, p, CurValues(registry))
            starts == {k \in DOMAIN w : k % 4 = 2}
            apart == \A k \in starts : w[k][1] >= w[k - 1][1]
        IN  w # NoWave =>
                /\ Len(w) % 4 = 1
                /\ w[Len(w)][2] = w[1][2]
                /\ apart => \A k \in 2 .. Len(w) : w[k - 1][1] <= w[k][1]

(***************************************************************************)
(* A deck that read_cir_file() accepts can be used as it is: its names,    *)
(* references, optimizer, waveforms and tuned parameters are sound,        *)
(* whatever errors were counted on the way and wherever a pragma came from.*)
(***************************************************************************)
AcceptedIsSound ==
    pc = "accepted" =>
        /\ NamesUnique /\ RefersBack /\ PullAgreesWithOrder
        /\ OptimizerReady /\ PwlWellFormed /\ TunableMapped

\* Reading a deck ends, also when a file includes itself.
ParseEnds == <>(pc \in {"accepted", "refused", "aborted"})
=============================================================================
