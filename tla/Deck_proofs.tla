----------------------------- MODULE Deck_proofs -----------------------------
(***************************************************************************)
(* What reading a deck does, for every deck, every nesting of includes and *)
(* every sequence of pragmas.                                              *)
(***************************************************************************)
EXTENDS Deck, FiniteSetTheorems, SequenceTheorems, TLAPS

(***************************************************************************)
(* The include stack                                                       *)
(***************************************************************************)
Tokens == InLine \cup LineStart \cup [kind : {"EOF", "EOL"}]

StackOK ==
    /\ files \in Decks
    /\ include_file_stack \in Seq([file : DOMAIN files, line : Nat \ {0}, tok : Nat \ {0}])
    /\ include_line_no_stk \in Seq(Nat)
    /\ open \in LineStart \cup {NoStatement}

\* The positions are within their files.
WithinFiles ==
    \A k \in DOMAIN include_file_stack :
        LET at == include_file_stack[k]
            lines == files[at.file].lines
        IN  /\ at.line <= Len(lines) + 1
            /\ at.tok <= IF at.line > Len(lines) THEN 1 ELSE Len(lines[at.line]) + 1

DeckInv == StackOK /\ WithinFiles /\ DeckTypeOK

LEMMA FileTyped ==
    ASSUME StackOK, NEW f \in DOMAIN files
    PROVE  /\ files[f].lines \in Seq(Lines) /\ files[f].terminated \in BOOLEAN
           /\ Len(files[f].lines) \in Nat
           /\ \A n \in 1 .. Len(files[f].lines) :
                 /\ files[f].lines[n] \in Lines
                 /\ files[f].lines[n] \in Seq(InLine \cup LineStart)
                 /\ Len(files[f].lines[n]) \in Nat
<1>1. files[f] \in Files
  BY DeckAssumption DEF StackOK
<1>2. files[f].lines \in Seq(Lines) /\ files[f].terminated \in BOOLEAN
  BY <1>1 DEF Files
<1>3. Lines \subseteq Seq(InLine \cup LineStart)
  BY DEF Lines
<1> QED
  BY <1>2, <1>3

LEMMA TopOfStack ==
    ASSUME StackOK, DeckTypeOK
    PROVE  /\ Len(include_file_stack) \in 1 .. MaxOpen /\ MaxOpen \in Nat
           /\ top = include_file_stack[Len(include_file_stack)]
           /\ top \in [file : DOMAIN files, line : Nat \ {0}, tok : Nat \ {0}]
           /\ DOMAIN include_file_stack = 1 .. Len(include_file_stack)
<1>1. Len(include_file_stack) \in 1 .. MaxOpen /\ MaxOpen \in Nat
  BY DeckAssumption DEF DeckTypeOK
<1> DEFINE S == [file : DOMAIN files, line : Nat \ {0}, tok : Nat \ {0}]
<1>2. include_file_stack \in Seq(S)
  BY DEF StackOK
<1> HIDE DEF S
<1>3. /\ Len(include_file_stack) \in 1 .. Len(include_file_stack)
      /\ DOMAIN include_file_stack = 1 .. Len(include_file_stack)
  BY <1>1, <1>2
<1>4. include_file_stack[Len(include_file_stack)] \in S
  BY <1>2, <1>3
<1> QED
  BY <1>1, <1>3, <1>4 DEF top, Last, S

\* The token at a position inside a file.
LEMMA TokenTyped ==
    ASSUME StackOK, DeckTypeOK, WithinFiles
    PROVE  /\ Token \in Tokens
           /\ Token.kind \notin {"EOF", "EOL"} =>
                 /\ top.line <= Len(files[top.file].lines)
                 /\ top.tok <= Len(files[top.file].lines[top.line])
           /\ Token.kind = "EOL" =>
                 /\ top.line <= Len(files[top.file].lines)
                 /\ top.tok = Len(files[top.file].lines[top.line]) + 1
<1> DEFINE f == files[top.file]
           line == f.lines[top.line]
           last == top.line = Len(f.lines) /\ ~f.terminated
<1>1. /\ top.file \in DOMAIN files /\ top.line \in Nat \ {0} /\ top.tok \in Nat \ {0}
      /\ Len(include_file_stack) \in DOMAIN include_file_stack
      /\ top = include_file_stack[Len(include_file_stack)]
  BY TopOfStack
<1>2. /\ f.lines \in Seq(Lines) /\ f.terminated \in BOOLEAN /\ Len(f.lines) \in Nat
      /\ \A n \in 1 .. Len(f.lines) :
            f.lines[n] \in Seq(InLine \cup LineStart) /\ Len(f.lines[n]) \in Nat
  BY <1>1, FileTyped
<1>3. top.tok <= IF top.line > Len(f.lines) THEN 1 ELSE Len(line) + 1
  BY <1>1 DEF WithinFiles
<1>4. Token = IF top.line > Len(f.lines) \/ (last /\ top.tok > Len(line)) THEN [kind |-> "EOF"]
              ELSE IF top.tok > Len(line) THEN [kind |-> "EOL"]
              ELSE IF line[top.tok].kind = "END" /\ last THEN [kind |-> "LINE", text |-> EndText]
              ELSE line[top.tok]
  BY DEF Token, NextToken
<1> HIDE DEF f, last
<1>5. CASE top.line > Len(f.lines) \/ (last /\ top.tok > Len(line))
  BY <1>4, <1>5 DEF Tokens
<1>6. CASE ~(top.line > Len(f.lines) \/ (last /\ top.tok > Len(line)))
  <2>1. top.line \in 1 .. Len(f.lines)
    BY <1>1, <1>2, <1>6
  <2>2. line \in Seq(InLine \cup LineStart) /\ Len(line) \in Nat
    BY <1>2, <2>1
  <2> HIDE DEF line
  <2>3. CASE top.tok > Len(line)
    <3>1. Token = [kind |-> "EOL"]
      BY <1>4, <1>6, <2>3
    <3>2. top.tok = Len(line) + 1
      BY <1>1, <1>3, <2>1, <2>2, <2>3
    <3> QED
      BY <1>1, <1>2, <2>1, <3>1, <3>2 DEF Tokens, f, line
  <2>4. CASE ~(top.tok > Len(line))
    <3>1. top.tok \in 1 .. Len(line)
      BY <1>1, <2>2, <2>4
    <3> DEFINE S == InLine \cup LineStart
    <3>2. line[top.tok] \in S
      <4> HIDE DEF S
      <4> QED
        BY <2>2, <3>1 DEF S
    <3>3. [kind |-> "LINE", text |-> EndText] \in InLine
      BY DeckAssumption DEF InLine
    <3>4. Token \in S
      <4> HIDE DEF S
      <4>1. [kind |-> "LINE", text |-> EndText] \in S
        BY <3>3 DEF S
      <4> QED
        BY <1>4, <1>6, <2>4, <3>2, <4>1
    <3>5. Token.kind \notin {"EOF", "EOL"}
      BY <3>4 DEF InLine, LineStart, Whole, Part
    <3> QED
      BY <3>4, <3>5, <2>1, <2>2, <3>1, <1>1, <1>2 DEF Tokens, f, line
  <2> QED
    BY <2>3, <2>4
<1> QED
  BY <1>5, <1>6

-----------------------------------------------------------------------------
(***************************************************************************)
(* What the steps do to the stack                                          *)
(***************************************************************************)
Positions == [file : DOMAIN files, line : Nat \ {0}, tok : Nat \ {0}]
Within(at) ==
    /\ at.line <= Len(files[at.file].lines) + 1
    /\ at.tok <= IF at.line > Len(files[at.file].lines) THEN 1
                 ELSE Len(files[at.file].lines[at.line]) + 1

LEMMA MovedWithin ==
    ASSUME DeckInv, Token.kind # "EOF"
    PROVE  /\ Moved(top) \in Positions /\ Within(Moved(top))
           /\ Moved(top).line = IF Token.kind = "EOL" THEN top.line + 1 ELSE top.line
<1>1. top \in Positions /\ top.file \in DOMAIN files
  BY TopOfStack DEF DeckInv, Positions
<1>2. /\ Len(files[top.file].lines) \in Nat
      /\ \A n \in 1 .. Len(files[top.file].lines) : Len(files[top.file].lines[n]) \in Nat
  BY <1>1, FileTyped DEF DeckInv
<1>3. CASE Token.kind = "EOL"
  <2>1. Moved(top) = [top EXCEPT !.line = top.line + 1, !.tok = 1]
    BY <1>3 DEF Moved
  <2>2. Moved(top) = [file |-> top.file, line |-> top.line + 1, tok |-> 1]
    BY <1>1, <2>1 DEF Positions
  <2>7. top.line + 1 \in Nat \ {0} /\ 1 \in Nat \ {0}
    BY <1>1 DEF Positions
  <2>8. /\ Moved(top).file = top.file /\ Moved(top).line = top.line + 1 /\ Moved(top).tok = 1
        /\ Moved(top) \in Positions
    BY <1>1, <2>2, <2>7 DEF Positions
  <2>3. top.line <= Len(files[top.file].lines)
    BY <1>3, TokenTyped DEF DeckInv
  <2>4. top.line \in Nat
    BY <1>1 DEF Positions
  <2>5. CASE top.line + 1 > Len(files[top.file].lines)
    BY <1>2, <1>3, <2>8, <2>3, <2>4, <2>5 DEF Within
  <2>6. CASE ~(top.line + 1 > Len(files[top.file].lines))
    <3>1. top.line + 1 \in 1 .. Len(files[top.file].lines)
      BY <1>2, <2>4, <2>6
    <3>2. Len(files[top.file].lines[top.line + 1]) \in Nat
      BY <1>2, <3>1
    <3> QED
      <4>1. 1 <= Len(files[top.file].lines[top.line + 1]) + 1
        <5> DEFINE n == Len(files[top.file].lines[top.line + 1])
        <5>1. n \in Nat
          BY <3>2
        <5> HIDE DEF n
        <5>2. 1 <= n + 1
          BY <5>1
        <5> QED
          BY <5>2 DEF n
      <4>2. top.line + 1 <= Len(files[top.file].lines) + 1
        BY <1>2, <2>3, <2>4
      <4>3. Within(Moved(top))
        BY <2>6, <2>8, <4>1, <4>2 DEF Within
      <4> QED
        BY <1>3, <2>8, <4>3
  <2> QED
    BY <2>5, <2>6
<1>4. CASE Token.kind # "EOL"
  <2>1. Moved(top) = [top EXCEPT !.tok = top.tok + 1]
    BY <1>4 DEF Moved
  <2>2. /\ Moved(top).file = top.file /\ Moved(top).line = top.line
        /\ Moved(top).tok = top.tok + 1 /\ Moved(top) \in Positions
    BY <1>1, <2>1 DEF Positions
  <2>3. /\ top.line <= Len(files[top.file].lines)
        /\ top.tok <= Len(files[top.file].lines[top.line])
    BY <1>4, TokenTyped DEF DeckInv
  <2>4. top.line \in 1 .. Len(files[top.file].lines) /\ top.tok \in Nat
    BY <1>1, <1>2, <2>3 DEF Positions
  <2>5. Len(files[top.file].lines[top.line]) \in Nat
    BY <1>2, <2>4
  <2>6. /\ ~(top.line > Len(files[top.file].lines))
        /\ top.line <= Len(files[top.file].lines) + 1
        /\ top.tok + 1 <= Len(files[top.file].lines[top.line]) + 1
    <3> DEFINE l == top.line
               k == top.tok
               m == Len(files[top.file].lines)
               n == Len(files[top.file].lines[top.line])
    <3>1. l \in 1 .. m /\ k \in Nat /\ m \in Nat /\ n \in Nat /\ k <= n
      BY <1>2, <2>3, <2>4, <2>5
    <3> HIDE DEF l, k, m, n
    <3>2. ~(l > m) /\ l <= m + 1 /\ k + 1 <= n + 1
      BY <3>1
    <3> QED
      BY <3>2 DEF l, k, m, n
  <2> QED
    BY <1>4, <2>2, <2>6 DEF Within
<1> QED
  BY <1>3, <1>4

LEMMA ForwardIs ==
    ASSUME DeckInv
    PROVE  /\ Len(Forward) = Len(include_file_stack)
           /\ DOMAIN Forward = 1 .. Len(include_file_stack)
           /\ Forward[Len(include_file_stack)] = Moved(top)
           /\ \A k \in 1 .. Len(include_file_stack) - 1 : Forward[k] = include_file_stack[k]
<1>1. /\ Len(include_file_stack) \in 1 .. MaxOpen /\ MaxOpen \in Nat
      /\ top = include_file_stack[Len(include_file_stack)]
      /\ DOMAIN include_file_stack = 1 .. Len(include_file_stack)
  BY TopOfStack DEF DeckInv
<1> DEFINE n == Len(include_file_stack)
<1>2. Forward = [include_file_stack EXCEPT ![n] = Moved(top)]
  BY <1>1 DEF Forward
<1>3. DOMAIN Forward = 1 .. n
  BY <1>1, <1>2
<1>4. Forward = [k \in 1 .. n |-> Forward[k]]
  BY <1>1, <1>2
<1>6. Forward[n] = Moved(top)
  BY <1>1, <1>2
<1>7. \A k \in 1 .. n - 1 : Forward[k] = include_file_stack[k]
  <2>1. \A k \in 1 .. n - 1 : k \in 1 .. n /\ k # n
    <3>1. n \in Nat
      BY <1>1
    <3> HIDE DEF n
    <3> QED
      BY <3>1
  <2> QED
    BY <1>1, <1>2, <2>1
<1>5. Len(Forward) = n
  <2>1. n \in Nat
    BY <1>1
  <2> HIDE DEF n
  <2> QED
    BY <1>3, <1>4, <2>1
<1> QED
  BY <1>3, <1>5, <1>6, <1>7

\* A token is read, with the line number of its end.
Advance ==
    /\ include_file_stack' = Forward
    /\ yylineno' = IF Token.kind = "EOL" THEN yylineno + 1 ELSE yylineno
    /\ UNCHANGED <<files, include_line_no_stk>>

LEMMA ForwardTyped ==
    ASSUME DeckInv, Token.kind # "EOF"
    PROVE  /\ Forward \in Seq(Positions)
           /\ \A k \in 1 .. Len(include_file_stack) : Forward[k] \in Positions /\ Within(Forward[k])
<1>1. /\ Len(include_file_stack) \in Nat \ {0}
      /\ DOMAIN include_file_stack = 1 .. Len(include_file_stack)
  BY TopOfStack DEF DeckInv
<1>2. /\ Len(Forward) = Len(include_file_stack)
      /\ DOMAIN Forward = 1 .. Len(include_file_stack)
      /\ Forward[Len(include_file_stack)] = Moved(top)
      /\ \A k \in 1 .. Len(include_file_stack) - 1 : Forward[k] = include_file_stack[k]
  BY ForwardIs
<1>3. Moved(top) \in Positions /\ Within(Moved(top))
  BY MovedWithin
<1>4. \A k \in 1 .. Len(include_file_stack) :
          include_file_stack[k] \in Positions /\ Within(include_file_stack[k])
  <2>1. include_file_stack \in Seq(Positions)
    BY DEF DeckInv, StackOK, Positions
  <2> QED
    BY <1>1, <2>1 DEF DeckInv, WithinFiles, Within
<1>5. \A k \in 1 .. Len(include_file_stack) : Forward[k] \in Positions /\ Within(Forward[k])
  <2> TAKE k \in 1 .. Len(include_file_stack)
  <2>1. k = Len(include_file_stack) \/ k \in 1 .. Len(include_file_stack) - 1
    <3> DEFINE n == Len(include_file_stack)
    <3>1. n \in Nat /\ k \in 1 .. n
      BY <1>1
    <3>2. k = n \/ k \in 1 .. n - 1
      <4> HIDE DEF n
      <4> QED
        BY <3>1
    <3> QED
      BY <3>2
  <2> QED
    BY <1>2, <1>3, <1>4, <2>1
<1>6. Forward \in [1 .. Len(include_file_stack) -> Positions]
  <2>1. Forward = [k \in 1 .. Len(include_file_stack) |-> Forward[k]]
    <3>1. Forward = [include_file_stack EXCEPT ![Len(include_file_stack)] = Moved(@)]
      BY DEF Forward
    <3> QED
      BY <1>1, <3>1
  <2> QED
    BY <1>5, <2>1
<1> QED
  <2> DEFINE n == Len(include_file_stack)
  <2>1. n \in Nat
    BY <1>1
  <2>2. Forward \in [1 .. n -> Positions]
    BY <1>6
  <2>3. Forward \in Seq(Positions)
    <3> HIDE DEF n
    <3> QED
      BY <2>1, <2>2
  <2> QED
    BY <1>5, <2>3

LEMMA AdvanceKeeps ==
    ASSUME DeckInv, Advance, Token.kind # "EOF",
           open' \in LineStart \cup {NoStatement},
           pc' \in {"reading", "ended", "accepted", "refused", "aborted"}
    PROVE  DeckInv'
<1> DEFINE n == Len(include_file_stack)
<1>1. /\ n \in 1 .. MaxOpen /\ n \in Nat \ {0} /\ MaxOpen \in Nat
      /\ top = include_file_stack[n]
  BY TopOfStack DEF DeckInv
<1>2. /\ include_file_stack' = Forward /\ files' = files
      /\ include_line_no_stk' = include_line_no_stk
      /\ yylineno' = IF Token.kind = "EOL" THEN yylineno + 1 ELSE yylineno
  BY DEF Advance
<1>3. /\ Len(Forward) = n /\ DOMAIN Forward = 1 .. n
      /\ Forward[n] = Moved(top)
      /\ \A k \in 1 .. n - 1 : Forward[k] = include_file_stack[k]
  BY ForwardIs
<1>4. /\ Forward \in Seq(Positions)
      /\ \A k \in 1 .. n : Forward[k] \in Positions /\ Within(Forward[k])
  BY ForwardTyped
<1>5. Moved(top).line = IF Token.kind = "EOL" THEN top.line + 1 ELSE top.line
  BY MovedWithin
<1>6. StackOK'
  BY <1>2, <1>4 DEF DeckInv, StackOK, Positions
<1>7. WithinFiles'
  BY <1>2, <1>3, <1>4 DEF WithinFiles, Within
<1>8. DeckTypeOK'
  <2>1. /\ yylineno = top.line /\ Len(include_line_no_stk) = n - 1
        /\ \A k \in DOMAIN include_line_no_stk :
              include_line_no_stk[k] = include_file_stack[k].line
        /\ DOMAIN include_line_no_stk = 1 .. n - 1
    BY DEF DeckInv, DeckTypeOK, StackOK
  <2>2. top' = Moved(top)
    BY <1>2, <1>3 DEF top, Last
  <2>3. yylineno' = top'.line
    BY <1>2, <1>5, <2>1, <2>2
  <2>4. \A k \in DOMAIN include_line_no_stk' :
            include_line_no_stk'[k] = include_file_stack'[k].line
    BY <1>2, <1>3, <2>1
  <2>5. Len(include_file_stack') \in 1 .. MaxOpen
    BY <1>1, <1>2, <1>3
  <2>6. Len(include_line_no_stk') = Len(include_file_stack') - 1
    BY <1>2, <1>3, <2>1
  <2> HIDE DEF n
  <2> QED
    BY <2>3, <2>4, <2>5, <2>6 DEF DeckTypeOK
<1> QED
  BY <1>6, <1>7, <1>8 DEF DeckInv

LEMMA IncludeKeeps ==
    ASSUME DeckInv, Token.kind = "EOL", NEW file, CanOpen(file), StartInclude(file),
           open' \in LineStart \cup {NoStatement}, UNCHANGED <<files, pc>>
    PROVE  DeckInv'
<1> DEFINE n == Len(include_file_stack)
           bottom == [file |-> file, line |-> 1, tok |-> 1]
<1>1. /\ n \in 1 .. MaxOpen /\ n \in Nat \ {0} /\ MaxOpen \in Nat
      /\ top = include_file_stack[n]
  BY TopOfStack DEF DeckInv
<1>2. /\ include_file_stack' = Append(Forward, bottom) /\ files' = files
      /\ include_line_no_stk' = Append(include_line_no_stk, yylineno + 1)
      /\ yylineno' = 1
      /\ file \in DOMAIN files /\ n < MaxOpen
  BY DEF StartInclude, CanOpen, ResumeNext
<1>3. /\ Len(Forward) = n /\ DOMAIN Forward = 1 .. n
      /\ Forward[n] = Moved(top)
      /\ \A k \in 1 .. n - 1 : Forward[k] = include_file_stack[k]
  BY ForwardIs
<1>4. /\ Forward \in Seq(Positions)
      /\ \A k \in 1 .. n : Forward[k] \in Positions /\ Within(Forward[k])
  BY ForwardTyped
<1>5. Moved(top).line = top.line + 1
  BY MovedWithin
<1>6. bottom \in Positions /\ Within(bottom)
  <2>1. bottom \in Positions
    BY <1>2 DEF Positions
  <2>2. /\ Len(files[file].lines) \in Nat
        /\ \A k \in 1 .. Len(files[file].lines) : Len(files[file].lines[k]) \in Nat
    BY <1>2, FileTyped DEF DeckInv
  <2>3. CASE 1 > Len(files[file].lines)
    BY <2>1, <2>2, <2>3 DEF Within
  <2>4. CASE ~(1 > Len(files[file].lines))
    <3>1. 1 \in 1 .. Len(files[file].lines)
      BY <2>2, <2>4
    <3>2. Len(files[file].lines[1]) \in Nat
      BY <2>2, <3>1
    <3> QED
      BY <2>1, <2>2, <2>4, <3>2 DEF Within
  <2> QED
    BY <2>3, <2>4
<1>7. /\ Append(Forward, bottom) \in Seq(Positions)
      /\ Len(Append(Forward, bottom)) = n + 1
      /\ DOMAIN Append(Forward, bottom) = 1 .. n + 1
      /\ Append(Forward, bottom)[n + 1] = bottom
      /\ \A k \in 1 .. n : Append(Forward, bottom)[k] = Forward[k]
  <2> HIDE DEF bottom, n
  <2> QED
    BY <1>3, <1>4, <1>6, AppendProperties
<1>8. /\ yylineno = top.line /\ Len(include_line_no_stk) = n - 1
      /\ \A k \in DOMAIN include_line_no_stk :
            include_line_no_stk[k] = include_file_stack[k].line
      /\ DOMAIN include_line_no_stk = 1 .. n - 1
      /\ include_line_no_stk \in Seq(Nat)
  BY DEF DeckInv, DeckTypeOK, StackOK
<1>9. yylineno \in Nat
  <2>1. top \in Positions
    BY TopOfStack DEF DeckInv, Positions
  <2> QED
    BY <1>8, <2>1 DEF Positions
<1>10. /\ include_line_no_stk' \in Seq(Nat)
       /\ Len(include_line_no_stk') = n
       /\ DOMAIN include_line_no_stk' = 1 .. n
       /\ include_line_no_stk'[n] = yylineno + 1
       /\ \A k \in 1 .. n - 1 : include_line_no_stk'[k] = include_line_no_stk[k]
  <2> DEFINE S == Nat
  <2>1. n - 1 + 1 = n /\ yylineno + 1 \in S /\ include_line_no_stk \in Seq(S)
    BY <1>1, <1>8, <1>9
  <2> HIDE DEF n, S
  <2>2. /\ include_line_no_stk' \in Seq(S)
        /\ Len(include_line_no_stk') = n
        /\ DOMAIN include_line_no_stk' = 1 .. n
        /\ include_line_no_stk'[n] = yylineno + 1
        /\ \A k \in 1 .. n - 1 : include_line_no_stk'[k] = include_line_no_stk[k]
    BY <1>2, <1>8, <2>1, AppendProperties
  <2> QED
    BY <2>2 DEF S
<1>11. \A k \in 1 .. n + 1 : k = n + 1 \/ k \in 1 .. n
  <2>1. n \in Nat
    BY <1>1
  <2> HIDE DEF n
  <2> QED
    BY <2>1
<1> HIDE DEF bottom
<1>12. StackOK'
  BY <1>2, <1>7, <1>10 DEF DeckInv, StackOK, Positions
<1>13. \A k \in 1 .. n + 1 : Within(Append(Forward, bottom)[k])
  BY <1>4, <1>6, <1>7, <1>11
<1>14. WithinFiles'
  BY <1>2, <1>7, <1>13 DEF WithinFiles, Within
<1>15. DeckTypeOK'
  <2>1. top' = bottom
    BY <1>2, <1>7 DEF top, Last
  <2>2. yylineno' = top'.line
    BY <1>2, <2>1 DEF bottom
  <2>3. \A k \in 1 .. n : k = n \/ k \in 1 .. n - 1
    <3>1. n \in Nat
      BY <1>1
    <3> HIDE DEF n
    <3> QED
      BY <3>1
  <2>4. \A k \in DOMAIN include_line_no_stk' :
            include_line_no_stk'[k] = include_file_stack'[k].line
    <3> SUFFICES ASSUME NEW k \in 1 .. n
                 PROVE  include_line_no_stk'[k] = include_file_stack'[k].line
      BY <1>10
    <3>1. include_file_stack'[k] = Forward[k]
      BY <1>2, <1>7
    <3>2. CASE k = n
      BY <1>3, <1>5, <1>8, <1>10, <3>1, <3>2
    <3>3. CASE k \in 1 .. n - 1
      BY <1>3, <1>8, <1>10, <3>1, <3>3
    <3> QED
      BY <2>3, <3>2, <3>3
  <2>5. Len(include_file_stack') \in 1 .. MaxOpen
    BY <1>1, <1>2, <1>7
  <2>6. Len(include_line_no_stk') = Len(include_file_stack') - 1
    BY <1>1, <1>2, <1>7, <1>10
  <2>7. pc' \in {"reading", "ended", "accepted", "refused", "aborted"}
    BY DEF DeckInv, DeckTypeOK
  <2> HIDE DEF n
  <2> QED
    BY <2>2, <2>4, <2>5, <2>6, <2>7 DEF DeckTypeOK
<1> QED
  BY <1>12, <1>14, <1>15 DEF DeckInv

LEMMA EndOfFileKeeps ==
    ASSUME DeckInv, EndOfFile
    PROVE  DeckInv'
<1> DEFINE n == Len(include_file_stack)
           m == n - 1
<1>1. /\ n \in 2 .. MaxOpen /\ n \in Nat \ {0} /\ MaxOpen \in Nat /\ m \in Nat \ {0} /\ n = m + 1
      /\ m <= MaxOpen
  BY TopOfStack DEF DeckInv, EndOfFile
<1>2. /\ include_file_stack' = SubSeq(include_file_stack, 1, m)
      /\ include_line_no_stk' = SubSeq(include_line_no_stk, 1, Len(include_line_no_stk) - 1)
      /\ yylineno' = include_line_no_stk[Len(include_line_no_stk)]
      /\ UNCHANGED <<files, open, elements, registry, pc>>
  BY DEF EndOfFile, Front, Last
<1>3. /\ Len(include_line_no_stk) = m
      /\ \A k \in DOMAIN include_line_no_stk :
            include_line_no_stk[k] = include_file_stack[k].line
      /\ DOMAIN include_line_no_stk = 1 .. m
      /\ include_line_no_stk \in Seq(Nat)
      /\ include_file_stack \in Seq(Positions)
      /\ \A k \in 1 .. n : Within(include_file_stack[k])
  <2>1. /\ Len(include_line_no_stk) = m
        /\ \A k \in DOMAIN include_line_no_stk :
              include_line_no_stk[k] = include_file_stack[k].line
    BY DEF DeckInv, DeckTypeOK
  <2>2. include_line_no_stk \in Seq(Nat) /\ include_file_stack \in Seq(Positions)
    BY DEF DeckInv, StackOK, Positions
  <2>3. DOMAIN include_line_no_stk = 1 .. m /\ DOMAIN include_file_stack = 1 .. n
    BY <2>1, <2>2
  <2>4. \A k \in DOMAIN include_file_stack : Within(include_file_stack[k])
    BY DEF DeckInv, WithinFiles, Within
  <2> QED
    BY <2>1, <2>2, <2>3, <2>4
<1>4. /\ include_file_stack' \in Seq(Positions) /\ Len(include_file_stack') = m
      /\ DOMAIN include_file_stack' = 1 .. m
      /\ \A k \in 1 .. m : include_file_stack'[k] = include_file_stack[k]
  <2>1. 1 \in 1 .. m + 1 /\ m \in 0 .. n /\ m - 1 + 1 = m /\ (1 - 1) \in Int
    BY <1>1
  <2> HIDE DEF n, m
  <2>2. /\ SubSeq(include_file_stack, 1, m) \in Seq(Positions)
        /\ Len(SubSeq(include_file_stack, 1, m)) = m
        /\ \A k \in 1 .. m : SubSeq(include_file_stack, 1, m)[k] = include_file_stack[k]
    BY <1>1, <1>3, <2>1 DEF n
  <2> QED
    BY <1>2, <2>2
<1>5. /\ include_line_no_stk' \in Seq(Nat) /\ Len(include_line_no_stk') = m - 1
      /\ DOMAIN include_line_no_stk' = 1 .. m - 1
      /\ \A k \in 1 .. m - 1 : include_line_no_stk'[k] = include_line_no_stk[k]
  <2> DEFINE S == Nat
  <2>1. m \in Nat \ {0}
    BY <1>1
  <2>2. include_line_no_stk \in Seq(S) /\ Len(include_line_no_stk) = m
    BY <1>3
  <2> HIDE DEF n, m, S
  <2>3. /\ SubSeq(include_line_no_stk, 1, m - 1) \in Seq(S)
        /\ Len(SubSeq(include_line_no_stk, 1, m - 1)) = m - 1
        /\ \A k \in 1 .. m - 1 : SubSeq(include_line_no_stk, 1, m - 1)[k] = include_line_no_stk[k]
    BY <2>1, <2>2
  <2> QED
    BY <1>2, <2>2, <2>3 DEF S
<1>6. StackOK'
  BY <1>2, <1>4, <1>5 DEF DeckInv, StackOK, Positions
<1>7. WithinFiles'
  <2>1. \A k \in 1 .. m : k \in 1 .. n
    BY <1>1
  <2> HIDE DEF n, m
  <2> QED
    BY <1>2, <1>3, <1>4, <2>1 DEF WithinFiles, Within
<1>8. DeckTypeOK'
  <2>1. m \in 1 .. m /\ m \in 1 .. MaxOpen /\ \A k \in 1 .. m - 1 : k \in 1 .. m
    BY <1>1
  <2> HIDE DEF n, m
  <2>2. top' = include_file_stack[m]
    BY <1>4, <2>1 DEF top, Last
  <2>3. yylineno' = top'.line
    BY <1>2, <1>3, <2>1, <2>2
  <2>4. \A k \in DOMAIN include_line_no_stk' :
            include_line_no_stk'[k] = include_file_stack'[k].line
    BY <1>3, <1>4, <1>5, <2>1
  <2> QED
    BY <1>2, <1>4, <1>5, <2>1, <2>3, <2>4 DEF DeckTypeOK, DeckInv
<1> QED
  BY <1>6, <1>7, <1>8 DEF DeckInv

LEMMA ContinueKeeps ==
    ASSUME DeckInv, ContinueStatement
    PROVE  DeckInv'
<1> DEFINE m == Len(include_file_stack)
           at == [top EXCEPT !.tok = Len(NextLine) + 1]
<1>1. /\ UNCHANGED <<files, include_line_no_stk, yylineno, pc>>
      /\ open' \in LineStart
      /\ include_file_stack' = [include_file_stack EXCEPT ![m] = [@ EXCEPT !.tok = Len(NextLine) + 1]]
  BY DeckAssumption DEF ContinueStatement, Continues, LineStart, Whole, Part
<1>2. /\ StackOK /\ DeckTypeOK /\ WithinFiles
      /\ include_file_stack \in Seq(Positions) /\ m \in Nat \ {0}
      /\ top = include_file_stack[m] /\ top \in Positions
      /\ DOMAIN include_file_stack = 1 .. m
  BY TopOfStack DEF DeckInv, StackOK, Positions
<1>3. /\ top.line \in 1 .. Len(files[top.file].lines)
      /\ Len(NextLine) \in Nat /\ Len(NextLine) = Len(files[top.file].lines[top.line])
      /\ Len(files[top.file].lines) \in Nat
  <2>1. Token.kind \notin {"EOF", "EOL"}
    BY DEF ContinueStatement, Continues
  <2>2. top.line <= Len(files[top.file].lines) /\ top.file \in DOMAIN files /\ top.line \in Nat \ {0}
    BY <1>2, <2>1, TokenTyped DEF Positions
  <2> QED
    BY <1>2, <2>2, FileTyped DEF NextLine
<1>4. include_file_stack' = [include_file_stack EXCEPT ![m] = at]
  BY <1>1, <1>2
<1>5. /\ at \in Positions /\ Within(at)
      /\ at.line = top.line /\ at.file = top.file /\ at.tok = Len(NextLine) + 1
  <2>1. /\ at.line = top.line /\ at.file = top.file /\ at.tok = Len(NextLine) + 1
        /\ at \in Positions
    BY <1>2, <1>3 DEF Positions
  <2> HIDE DEF at
  <2> QED
    BY <1>3, <2>1 DEF Within
<1> HIDE DEF at, m
<1>6. /\ include_file_stack' \in Seq(Positions)
      /\ Len(include_file_stack') = m /\ DOMAIN include_file_stack' = 1 .. m
      /\ \A k \in 1 .. m : include_file_stack'[k] = IF k = m THEN at ELSE include_file_stack[k]
  BY <1>2, <1>4, <1>5
<1>7. StackOK'
  BY <1>1, <1>2, <1>6 DEF StackOK, Positions
<1>8. WithinFiles'
  BY <1>1, <1>2, <1>5, <1>6 DEF WithinFiles, Within
<1>9. DeckTypeOK'
  <2>1. top' = at
    BY <1>2, <1>6 DEF top, Last
  <2>2. m \in 1 .. MaxOpen /\ Len(include_line_no_stk) = m - 1 /\ yylineno = top.line
        /\ \A k \in DOMAIN include_line_no_stk : include_line_no_stk[k] = include_file_stack[k].line
    BY <1>2 DEF DeckTypeOK, m
  <2>3. DOMAIN include_line_no_stk = 1 .. m - 1
    BY <1>2, <2>2 DEF StackOK
  <2>4. \A k \in 1 .. m - 1 : k \in 1 .. m /\ k # m
    BY <1>2
  <2>5. \A k \in DOMAIN include_line_no_stk' :
            include_line_no_stk'[k] = include_file_stack'[k].line
    BY <1>1, <1>6, <2>2, <2>3, <2>4
  <2> QED
    BY <1>1, <1>2, <1>5, <1>6, <2>1, <2>2, <2>5 DEF DeckTypeOK
<1> QED
  BY <1>7, <1>8, <1>9 DEF DeckInv

LEMMA DeckInvInit == Init => DeckInv
<1> SUFFICES ASSUME Init PROVE DeckInv
  OBVIOUS
<1> DEFINE at == [file |-> "main", line |-> 1, tok |-> 1]
<1>1. /\ files \in Decks /\ include_file_stack = <<at>> /\ include_line_no_stk = <<>>
      /\ yylineno = 1 /\ open = NoStatement /\ pc = "reading"
  BY DEF Init
<1>2. "main" \in DOMAIN files /\ files["main"] \in Files /\ MaxOpen \in Nat \ {0}
  BY <1>1, DeckAssumption
<1>3. at \in Positions
  BY <1>2 DEF Positions
<1>4. StackOK
  <2> HIDE DEF at
  <2>1. <<at>> \in Seq(Positions)
    BY <1>3
  <2> QED
    BY <1>1, <2>1 DEF StackOK, Positions
<1>5. Within(at)
  <2>1. Len(files["main"].lines) \in Nat
        /\ \A k \in 1 .. Len(files["main"].lines) : Len(files["main"].lines[k]) \in Nat
    BY <1>2, <1>4, FileTyped
  <2>2. CASE 1 > Len(files["main"].lines)
    BY <2>1, <2>2 DEF Within
  <2>3. CASE ~(1 > Len(files["main"].lines))
    <3>1. 1 \in 1 .. Len(files["main"].lines)
      BY <2>1, <2>3
    <3>2. Len(files["main"].lines[1]) \in Nat
      BY <2>1, <3>1
    <3> QED
      BY <2>1, <2>3, <3>2 DEF Within
  <2> QED
    BY <2>2, <2>3
<1>6. WithinFiles
  BY <1>1, <1>5 DEF WithinFiles, Within
<1>7. DeckTypeOK
  BY <1>1, <1>2 DEF DeckTypeOK, top, Last
<1> QED
  BY <1>4, <1>6, <1>7 DEF DeckInv

LEMMA DeckInvStep == DeckInv /\ [Next]_vars => DeckInv'
<1> SUFFICES ASSUME DeckInv, [Next]_vars PROVE DeckInv'
  OBVIOUS
<1> DEFINE PCs == {"reading", "ended", "accepted", "refused", "aborted"}
<1>1. pc \in PCs /\ open \in LineStart \cup {NoStatement} /\ Token \in Tokens
  BY TokenTyped DEF DeckInv, DeckTypeOK, StackOK
<1>2. CASE ReadText
  <2>1. Advance /\ Token.kind # "EOF" /\ UNCHANGED <<open, pc>>
    BY <1>2 DEF ReadText, Advance
  <2> QED
    BY <1>1, <2>1, AdvanceKeeps
<1>3. CASE ReadSubstitution
  <2>1. Advance /\ Token.kind # "EOF" /\ UNCHANGED <<open, pc>>
    BY <1>3 DEF ReadSubstitution, Advance
  <2> QED
    BY <1>1, <2>1, AdvanceKeeps
<1>4. CASE BlankLine
  <2>1. Advance /\ Token.kind # "EOF" /\ UNCHANGED <<open, pc>>
    BY <1>4 DEF BlankLine, Advance
  <2> QED
    BY <1>1, <2>1, AdvanceKeeps
<1>5. CASE BeginStatement
  <2>1. Advance /\ Token.kind \in {"COMMENT", "TRAN", "PRAGMA", "PART", "END"} /\ UNCHANGED pc
    BY <1>5 DEF BeginStatement, Advance
  <2>2. open' \in LineStart
    <3>1. open' = Token
      BY <1>5 DEF BeginStatement
    <3> QED
      BY <1>1, <2>1, <3>1 DEF Tokens, InLine
  <2> QED
    BY <1>1, <2>1, <2>2, AdvanceKeeps
<1>6. CASE EndStatement
  <2>1. Token.kind = "EOL" /\ open' = NoStatement /\ UNCHANGED files
    BY <1>6 DEF EndStatement
  <2>2. CASE IsInclude(open)
    <3>1. StartInclude(open.body.file) /\ UNCHANGED pc
      BY <1>6, <2>2 DEF EndStatement
    <3>2. CASE CanOpen(open.body.file)
      BY <2>1, <3>1, <3>2, IncludeKeeps
    <3>3. CASE ~CanOpen(open.body.file)
      <4>1. Advance
        BY <2>1, <3>1, <3>3 DEF StartInclude, Advance
      <4> QED
        BY <1>1, <2>1, <3>1, <4>1, AdvanceKeeps
    <3> QED
      BY <3>2, <3>3
  <2>3. CASE ~IsInclude(open)
    <3>1. Advance /\ pc' \in PCs
      BY <1>1, <1>6, <2>1, <2>3 DEF EndStatement, Advance
    <3> QED
      BY <2>1, <3>1, AdvanceKeeps
  <2> QED
    BY <2>2, <2>3
<1>7. CASE EndOfFile
  BY <1>7, EndOfFileKeeps
<1>9. CASE ContinueStatement
  BY <1>9, ContinueKeeps
<1>8. CASE SyntaxError \/ Finish \/ UNCHANGED vars
  <2>1. /\ UNCHANGED <<files, include_file_stack, include_line_no_stk, yylineno, open>>
        /\ pc' \in PCs
    BY <1>1, <1>8 DEF SyntaxError, Finish, vars
  <2>2. StackOK'
    BY <2>1 DEF DeckInv, StackOK
  <2>3. WithinFiles'
    BY <2>1 DEF DeckInv, WithinFiles
  <2>4. DeckTypeOK'
    BY <2>1 DEF DeckInv, DeckTypeOK, top
  <2> QED
    BY <2>2, <2>3, <2>4 DEF DeckInv
<1> QED
  BY <1>2, <1>3, <1>4, <1>5, <1>6, <1>7, <1>8, <1>9 DEF Next

\* Types; and whatever the includes, the line number in the messages is that
\* of the file being read, also after coming back from an included file
\* (open_include_file(), yywrap()).
THEOREM DeckTypes == Spec => []DeckTypeOK
<1>1. DeckInv => DeckTypeOK
  BY DEF DeckInv
<1> QED
  BY <1>1, DeckInvInit, DeckInvStep, PTL DEF Spec

(***************************************************************************)
(* Induction over the naturals, with a set in the place of a predicate.    *)
(***************************************************************************)
LEMMA SetInduction ==
    ASSUME NEW T, 0 \in T, \A n \in Nat : n \in T => n + 1 \in T
    PROVE  \A n \in Nat : n \in T
<1> SUFFICES ASSUME NEW m \in Nat, m \notin T
             PROVE  FALSE
  OBVIOUS
<1> DEFINE A == {n \in 0 .. m : n \in T}
           B == A \ {0}
           f == [n \in A |-> n + 1]
<1>1. IsFiniteSet(A) /\ IsFiniteSet(B)
  <2>1. IsFiniteSet(0 .. m)
    BY FS_Interval
  <2>2. A \subseteq 0 .. m
    OBVIOUS
  <2>3. IsFiniteSet(A)
    BY <2>1, <2>2, FS_Subset
  <2> QED
    BY <2>3, FS_RemoveElement
<1>2. \A n \in A : n + 1 \in B
  OBVIOUS
<1>3. f \in Injection(A, B)
  BY <1>2 DEF Injection, IsInjective
<1>4. Cardinality(A) <= Cardinality(B)
  BY <1>1, <1>3, FS_Injection DEF ExistsInjection
<1>5. 0 \in A
  OBVIOUS
<1>6. Cardinality(B) = Cardinality(A) - 1
  BY <1>1, <1>5, FS_RemoveElement
<1>7. Cardinality(A) \in Nat
  BY <1>1, FS_CardinalityType
<1> QED
  BY <1>4, <1>6, <1>7

\* A set of naturals has a least element.
LEMMA LeastExists ==
    ASSUME NEW S \in SUBSET Nat, NEW n \in S
    PROVE  \E m \in S : \A k \in S : m <= k
<1> SUFFICES ASSUME ~ \E m \in S : \A k \in S : m <= k
             PROVE  FALSE
  OBVIOUS
<1> DEFINE T == {m \in Nat : \A k \in 0 .. m : k \notin S}
<1>1. 0 \in T
  <2>1. \A k \in S : 0 <= k
    OBVIOUS
  <2>2. 0 \notin S
    BY <2>1
  <2> QED
    BY <2>2
<1>2. ASSUME NEW m \in Nat, m \in T PROVE m + 1 \in T
  <2>1. \A k \in S : m + 1 <= k
    BY <1>2
  <2>2. m + 1 \notin S
    BY <2>1
  <2>3. \A k \in 0 .. m + 1 : k \in 0 .. m \/ k = m + 1
    OBVIOUS
  <2> QED
    BY <1>2, <2>2, <2>3
<1>3. \A m \in Nat : m \in T
  <2> HIDE DEF T
  <2> QED
    BY <1>1, <1>2, SetInduction
<1>4. n \in Nat /\ n \in 0 .. n
  OBVIOUS
<1> QED
  BY <1>3, <1>4

-----------------------------------------------------------------------------
(***************************************************************************)
(* The registry.  RegistryOK is what holds of it after any pragmas;        *)
(* Clean, what holds while no error has been counted.                      *)
(***************************************************************************)
Fields == {"params", "nois", "lsqs", "patterns", "anneal", "bo", "snapshot", "errs", "aborted"}
ParamBodies == {b \in Bodies : b.op \in {"const", "expr", "scan", "pwl"} /\ ~Aborts(b)}
Params == {Parameter(b) : b \in ParamBodies}
Patterns == [name : STRING, entries : Seq(Terms)]

IsRegistry(r) ==
    /\ DOMAIN r = Fields
    /\ r.params \in Seq(Params)
    /\ r.patterns \in Seq(Patterns)
    /\ r.errs \in Nat

Unique(r) == \A i, j \in DOMAIN r.params : r.params[i].name = r.params[j].name => i = j

\* What define_param_constant() has made sure of.
ConstantOK(p) ==
    p.kind = "const" =>
        /\ "tune" \in p.flags => HasRange(p.body)
        /\ IsFinite(p.body.value) => p.lo <= p.body.value /\ p.body.value <= p.hi
        /\ "log_map" \in p.flags => p.lo > 0 /\ HasRange(p.body)

OneOptimizer(r) ==
    /\ r.anneal = NoAnneal \/ r.bo = "none"
    /\ r.anneal # NoAnneal => FindParameter(r, "EVAL") # 0
    /\ r.bo # "none" => FindParameter(r, "OBJECTIVE") # 0

FirstParams(r, n) == [r EXCEPT !.params = SubSeq(@, 1, n)]

ParamClean(r, i) ==
    LET p == r.params[i]
    IN  /\ p.kind = "expr" => NullNodes(FirstParams(r, i - 1), p.body.expr) = {}
        /\ p.kind = "pwl" =>
              /\ FindPattern(r, p.body.pattern) # 0
              /\ \A k \in PwlControls : p.body.ctrl[k] \in Exprs /\ NullNodes(r, p.body.ctrl[k]) = {}
EntriesClean(r, j) ==
    \A k \in DOMAIN r.patterns[j].entries : NullNodes(r, r.patterns[j].entries[k].expr) = {}
Clean(r) ==
    /\ \A i \in DOMAIN r.params : ParamClean(r, i)
    /\ \A j \in DOMAIN r.patterns : EntriesClean(r, j)

RegistryOK(r) ==
    /\ IsRegistry(r)
    /\ Unique(r)
    /\ \A i \in DOMAIN r.params : ConstantOK(r.params[i])
    /\ OneOptimizer(r)
    /\ r.errs = 0 => Clean(r)

(***************************************************************************)
(* find_parameter() and time_pattern::find(): the first of that name.      *)
(***************************************************************************)
LEMMA Selected ==
    ASSUME NEW n \in Nat, NEW I \in SUBSET (1 .. n)
    PROVE  LET k == IF I # {} THEN Min(I) ELSE 0
           IN  k \in 0 .. n /\ (k # 0 => k \in I) /\ (k = 0 => I = {})
<1>1. CASE I = {}
  BY <1>1
<1>2. CASE I # {}
  <2>1. PICK i : i \in I
    BY <1>2
  <2>2. \E m \in I : \A k \in I : m <= k
    BY <2>1, LeastExists
  <2> DEFINE m == Min(I)
  <2>3. m \in I
    BY <2>2 DEF Min
  <2>4. (IF I # {} THEN Min(I) ELSE 0) = m
    BY <1>2
  <2> HIDE DEF m
  <2>5. m \in 0 .. n /\ m # 0
    BY <2>3
  <2> QED
    BY <2>3, <2>4, <2>5
<1> QED
  BY <1>1, <1>2

LEMMA Found ==
    ASSUME NEW r, NEW name, Len(r.params) \in Nat
    PROVE  /\ FindParameter(r, name) \in 0 .. Len(r.params)
           /\ FindParameter(r, name) # 0 => r.params[FindParameter(r, name)].name = name
           /\ FindParameter(r, name) = 0 <=> \A i \in 1 .. Len(r.params) : r.params[i].name # name
<1> DEFINE I == {i \in 1 .. Len(r.params) : r.params[i].name = name}
<1>1. FindParameter(r, name) = IF I # {} THEN Min(I) ELSE 0
  BY DEF FindParameter, SelectInSeq
<1>2. I \in SUBSET (1 .. Len(r.params))
  OBVIOUS
<1>3. LET k == FindParameter(r, name)
      IN  k \in 0 .. Len(r.params) /\ (k # 0 => k \in I) /\ (k = 0 => I = {})
  <2> HIDE DEF I
  <2> QED
    BY <1>1, <1>2, Selected
<1> QED
  BY <1>3

LEMMA FoundPattern ==
    ASSUME NEW r, NEW name, Len(r.patterns) \in Nat
    PROVE  /\ FindPattern(r, name) \in 0 .. Len(r.patterns)
           /\ FindPattern(r, name) # 0 => r.patterns[FindPattern(r, name)].name = name
           /\ FindPattern(r, name) = 0 <=> \A i \in 1 .. Len(r.patterns) : r.patterns[i].name # name
<1> DEFINE I == {i \in 1 .. Len(r.patterns) : r.patterns[i].name = name}
<1>1. FindPattern(r, name) = IF I # {} THEN Min(I) ELSE 0
  BY DEF FindPattern, SelectInSeq
<1>2. I \in SUBSET (1 .. Len(r.patterns))
  OBVIOUS
<1>3. LET k == FindPattern(r, name)
      IN  k \in 0 .. Len(r.patterns) /\ (k # 0 => k \in I) /\ (k = 0 => I = {})
  <2> HIDE DEF I
  <2> QED
    BY <1>1, <1>2, Selected
<1> QED
  BY <1>3


(***************************************************************************)
(* What is defined stays defined.                                          *)
(***************************************************************************)
Grows(r, q) ==
    /\ Len(r.params) \in Nat /\ Len(q.params) \in Nat /\ Len(r.params) <= Len(q.params)
    /\ \A i \in 1 .. Len(r.params) : q.params[i] = r.params[i]
    /\ Len(r.patterns) \in Nat /\ Len(q.patterns) \in Nat /\ Len(r.patterns) <= Len(q.patterns)
    /\ \A i \in 1 .. Len(r.patterns) : q.patterns[i] = r.patterns[i]
    /\ r.nois \subseteq q.nois /\ r.lsqs \subseteq q.lsqs

LEMMA StaysFound ==
    ASSUME NEW r, NEW q, Grows(r, q), NEW name
    PROVE  /\ FindParameter(r, name) # 0 => FindParameter(q, name) # 0
           /\ FindPattern(r, name) # 0 => FindPattern(q, name) # 0
<1>1. ASSUME FindParameter(r, name) # 0 PROVE FindParameter(q, name) # 0
  <2>1. PICK i \in 1 .. Len(r.params) : r.params[i].name = name
    BY <1>1, Found DEF Grows
  <2>2. i \in 1 .. Len(q.params) /\ q.params[i].name = name
    BY <2>1 DEF Grows
  <2> QED
    BY <2>2, Found DEF Grows
<1>2. ASSUME FindPattern(r, name) # 0 PROVE FindPattern(q, name) # 0
  <2>1. PICK i \in 1 .. Len(r.patterns) : r.patterns[i].name = name
    BY <1>2, FoundPattern DEF Grows
  <2>2. i \in 1 .. Len(q.patterns) /\ q.patterns[i].name = name
    BY <2>1 DEF Grows
  <2> QED
    BY <2>2, FoundPattern DEF Grows
<1> QED
  BY <1>1, <1>2

LEMMA NullLess ==
    ASSUME NEW r, NEW q, Grows(r, q), NEW node, NullNode(q, node),
           r.patterns \in Seq(Patterns), q.patterns \in Seq(Patterns)
    PROVE  NullNode(r, node)
<1> DEFINE names(s) == {p.name : p \in ToSet(s.patterns)}
<1>1. names(r) \subseteq names(q)
  <2> SUFFICES ASSUME NEW i \in DOMAIN r.patterns PROVE r.patterns[i].name \in names(q)
    BY DEF ToSet
  <2>1. i \in 1 .. Len(r.patterns)
    OBVIOUS
  <2>2. i \in DOMAIN q.patterns /\ q.patterns[i] = r.patterns[i]
    BY <2>1 DEF Grows
  <2> QED
    BY <2>2 DEF ToSet
<1> DEFINE objects(s) == [noi |-> s.nois, lsq |-> s.lsqs, pattern |-> names(s)]
           Missing(s) == \/ node.name \notin DOMAIN Func2Tab
                         \/ node.object \notin objects(s)[Func2Tab[node.name]]
<1>2. CASE node.op = "p_reference"
  <2>1. FindParameter(q, node.name) = 0
    BY <1>2 DEF NullNode
  <2>2. FindParameter(r, node.name) = 0
    BY <2>1, StaysFound
  <2> QED
    BY <1>2, <2>2 DEF NullNode
<1>3. CASE node.op = "function1"
  BY <1>3 DEF NullNode
<1>4. CASE node.op = "function2"
  <2>1. \A s : NullNode(s, node) <=> Missing(s)
    BY <1>4 DEF NullNode
  <2>2. DOMAIN Func2Tab = {"peak", "fit_ok", "match_peaks"}
        /\ Func2Tab["peak"] = "noi" /\ Func2Tab["fit_ok"] = "lsq" /\ Func2Tab["match_peaks"] = "pattern"
    BY DEF Func2Tab
  <2>3. /\ objects(r)["noi"] \subseteq objects(q)["noi"]
        /\ objects(r)["lsq"] \subseteq objects(q)["lsq"]
        /\ objects(r)["pattern"] \subseteq objects(q)["pattern"]
    <3> HIDE DEF names
    <3> QED
      BY <1>1 DEF Grows
  <2>4. Missing(q) => Missing(r)
    <3> HIDE DEF objects
    <3> QED
      BY <2>2, <2>3
  <2> HIDE DEF Missing
  <2> QED
    BY <2>1, <2>4
<1>5. CASE node.op \notin {"p_reference", "function1", "function2"}
  BY <1>5 DEF NullNode
<1> QED
  BY <1>2, <1>3, <1>4, <1>5

LEMMA CleanStays ==
    ASSUME NEW r, NEW q, Grows(r, q), NEW e, NullNodes(r, e) = {},
           r.patterns \in Seq(Patterns), q.patterns \in Seq(Patterns)
    PROVE  NullNodes(q, e) = {}
<1> SUFFICES ASSUME NEW k \in DOMAIN e, NullNode(q, e[k]) PROVE FALSE
  BY DEF NullNodes
<1>1. NullNode(r, e[k])
  BY NullLess
<1> QED
  BY <1>1 DEF NullNodes

(***************************************************************************)
(* The errors counted while a body is parsed.                              *)
(***************************************************************************)
LEMMA ExprCounted ==
    ASSUME NEW r, NEW S, NEW e \in Seq(S)
    PROVE  /\ IsFiniteSet(NullNodes(r, e))
           /\ ExprErrors(r, e) \in Nat
           /\ ExprErrors(r, e) = 0 => NullNodes(r, e) = {}
<1>1. DOMAIN e = 1 .. Len(e) /\ Len(e) \in Nat
  OBVIOUS
<1>2. IsFiniteSet(NullNodes(r, e))
  <2>1. IsFiniteSet(1 .. Len(e))
    BY <1>1, FS_Interval
  <2>2. NullNodes(r, e) \subseteq 1 .. Len(e)
    BY <1>1 DEF NullNodes
  <2> QED
    BY <2>1, <2>2, FS_Subset
<1> QED
  BY <1>2, FS_CardinalityType, FS_EmptySet DEF ExprErrors

LEMMA ExprsCounted ==
    ASSUME NEW r, NEW S, NEW D, IsFiniteSet(D), NEW es, DOMAIN es = D,
           \A i \in D : es[i] \in Seq(S)
    PROVE  /\ ExprsErrors(r, es) \in Nat
           /\ ExprsErrors(r, es) = 0 => \A i \in D : NullNodes(r, es[i]) = {}
<1> DEFINE f == [i \in D |-> {i} \X NullNodes(r, es[i])]
           R == {{i} \X NullNodes(r, es[i]) : i \in D}
<1>1. IsFiniteSet(R)
  <2>1. f \in Surjection(D, R)
    BY DEF Surjection
  <2> QED
    BY <2>1, FS_Surjection DEF ExistsSurjection
<1>2. \A T \in R : IsFiniteSet(T)
  <2> SUFFICES ASSUME NEW i \in D PROVE IsFiniteSet({i} \X NullNodes(r, es[i]))
    OBVIOUS
  <2>1. IsFiniteSet(NullNodes(r, es[i]))
    BY ExprCounted
  <2>2. IsFiniteSet({i})
    BY FS_Singleton
  <2> QED
    BY <2>1, <2>2, FS_Product
<1>3. IsFiniteSet(UNION R)
  <2> HIDE DEF R
  <2> QED
    BY <1>1, <1>2, FS_UNION
<1>4. ExprsErrors(r, es) = Cardinality(UNION R)
  BY DEF ExprsErrors
<1>5. ASSUME UNION R = {}, NEW i \in D, NEW k \in NullNodes(r, es[i])
      PROVE  FALSE
  <2>1. <<i, k>> \in {i} \X NullNodes(r, es[i])
    BY <1>5
  <2>2. {i} \X NullNodes(r, es[i]) \in R
    BY <1>5
  <2> QED
    BY <1>5, <2>1, <2>2
<1> QED
  <2> HIDE DEF R
  <2>1. Cardinality(UNION R) \in Nat /\ (Cardinality(UNION R) = 0 => UNION R = {})
    BY <1>3, FS_CardinalityType, FS_EmptySet
  <2> QED
    BY <1>4, <1>5, <2>1


ItemTerms(items) == {items[j] : j \in {j \in DOMAIN items : ~IsRep(items[j])}}

\* A repetition only adds what is in the list.
LEMMA AddedItem ==
    ASSUME NEW r, NEW S, NEW lists \in Seq(Seq(S)), lists # <<>>, NEW item,
           IsRep(item) => item.since \in Nat /\ item.since < Len(lists) /\ item.n \in Counts,
           ~IsRep(item) => item \in S
    PROVE  AddItem(r, lists, item) \in Seq(S)
<1> DEFINE before == Last(lists)
<1>1. before \in Seq(S)
  <2>1. Len(lists) \in 1 .. Len(lists)
    OBVIOUS
  <2> QED
    BY <2>1 DEF Last
<1>2. CASE IsRep(item)
  <2> DEFINE since == lists[item.since + 1]
             repeated == SubSeq(before, Len(since) + 1, Len(before))
             copies == IF Below(item.n, 1) THEN 0 ELSE AsUnsigned(item.n)
             more == Cycled(repeated, copies * Len(repeated))
  <2>1. since \in Seq(S) /\ copies \in Nat
    <3>1. since \in Seq(S)
      BY <1>2
    <3>2. copies \in Nat
      <4>1. item.n \in Int \/ item.n = NoValue
        BY <1>2 DEF Counts
      <4>2. IsFinite(1) /\ (item.n \in Int => IsFinite(item.n))
        BY RegistryAssumption DEF IsFinite
      <4> QED
        BY <4>1, <4>2 DEF Below, AsUnsigned, IsFinite
    <3> QED
      BY <3>1, <3>2
  <2>2. repeated \in Seq(S)
    <3>1. Len(since) + 1 \in Nat \ {0} /\ Len(before) \in Nat
      BY <1>1, <2>1
    <3>2. \A i \in Len(since) + 1 .. Len(before) : before[i] \in S
      BY <1>1, <3>1
    <3> HIDE DEF since, before
    <3> QED
      BY <1>1, <3>1
  <2>3. more \in Seq(S)
    <3> HIDE DEF repeated, copies
    <3> DEFINE n == Len(repeated)
               m == copies * n
    <3>1. n \in Nat /\ \A i \in 1 .. n : repeated[i] \in S
      BY <2>2
    <3>2. m \in Nat /\ (n = 0 => m = 0)
      <4> HIDE DEF n
      <4> QED
        BY <2>1, <3>1
    <3>3. more = [i \in 1 .. m |-> repeated[((i - 1) % n) + 1]]
      BY DEF Cycled
    <3> HIDE DEF n, m, more
    <3>4. ASSUME NEW i \in 1 .. m
          PROVE  ((i - 1) % n) + 1 \in 1 .. n
      <4>1. n \in Nat \ {0} /\ i - 1 \in Nat
        BY <3>1, <3>2
      <4> QED
        BY <4>1
    <3>5. \A i \in 1 .. m : repeated[((i - 1) % n) + 1] \in S
      BY <3>1, <3>4
    <3>6. more \in [1 .. m -> S]
      BY <3>3, <3>5
    <3> QED
      BY <3>2, <3>6
  <2>4. AddItem(r, lists, item) = before \o more
    BY <1>2 DEF AddItem
  <2> HIDE DEF before, more
  <2> QED
    BY <1>1, <2>3, <2>4
<1>3. CASE ~IsRep(item)
  <2>1. AddItem(r, lists, item) = before \/ AddItem(r, lists, item) = Append(before, item)
    BY <1>3 DEF AddItem
  <2>2. item \in S
    BY <1>3
  <2>3. Append(before, item) \in Seq(S)
    <3> HIDE DEF before
    <3> QED
      BY <1>1, <2>2
  <2> QED
    BY <1>1, <2>1, <2>3
<1> QED
  BY <1>2, <1>3

LEMMA PatternTermsFrom ==
    ASSUME NEW r, NEW items \in Items
    PROVE  PatternTerms(r, items) \in Seq(ItemTerms(items))
<1> DEFINE n == Len(items)
           Step(k, lists) == Append(lists, AddItem(r, lists, items[k]))
           Q(m, f) == f = [k \in 0 .. m |-> IF k = 0 THEN <<<<>>>> ELSE Step(k, f[k - 1])]
           T == {m \in Nat : \E f : Q(m, f)}
           lists == CHOOSE f : Q(n, f)
<1>1. items \in Seq(Terms \cup [since : Nat, n : Counts]) /\ n \in Nat /\ DOMAIN items = 1 .. n
  BY DEF Items
<1>2. PatternTerms(r, items) = Last(lists[n])
  BY DEF PatternTerms
<1>3. Q(n, lists)
  <2>1. 0 \in T
    <3>1. Q(0, [k \in 0 .. 0 |-> <<<<>>>>])
      OBVIOUS
    <3> QED
      BY <3>1
  <2>2. ASSUME NEW m \in Nat, m \in T PROVE m + 1 \in T
    <3>1. PICK f : Q(m, f)
      BY <2>2
    <3> HIDE DEF Step
    <3> DEFINE h == [k \in 0 .. m + 1 |-> IF k = m + 1 THEN Step(m + 1, f[m]) ELSE f[k]]
    <3>2. ASSUME NEW k \in 0 .. m + 1
          PROVE  h[k] = IF k = 0 THEN <<<<>>>> ELSE Step(k, h[k - 1])
      <4>1. CASE k = m + 1
        <5>1. m \in 0 .. m + 1 /\ m # m + 1 /\ k # 0 /\ k - 1 = m
          BY <4>1
        <5>2. h[k] = Step(k, f[m]) /\ h[m] = f[m]
          BY <4>1, <5>1
        <5> QED
          BY <5>1, <5>2
      <4>2. CASE k # m + 1
        <5>1. k \in 0 .. m /\ h[k] = f[k]
          BY <4>2
        <5>2. k # 0 => k - 1 \in 0 .. m + 1 /\ k - 1 # m + 1 /\ h[k - 1] = f[k - 1]
          BY <5>1
        <5>3. f[k] = IF k = 0 THEN <<<<>>>> ELSE Step(k, f[k - 1])
          BY <3>1, <5>1
        <5> QED
          BY <5>1, <5>2, <5>3
      <4> QED
        BY <4>1, <4>2
    <3>3. h = [k \in 0 .. m + 1 |-> h[k]]
      OBVIOUS
    <3>4. Q(m + 1, h)
      <4> HIDE DEF h
      <4> QED
        BY <3>2, <3>3
    <3> HIDE DEF h, Q
    <3> QED
      BY <3>4
  <2>3. n \in T
    <3> HIDE DEF T, n
    <3> QED
      BY <1>1, <2>1, <2>2, SetInduction
  <2> HIDE DEF Q, n
  <2> QED
    BY <2>3
<1>4. lists[0] = <<<<>>>> /\ \A k \in 1 .. n : lists[k] = Step(k, lists[k - 1])
  <2>1. lists = [k \in 0 .. n |-> IF k = 0 THEN <<<<>>>> ELSE Step(k, lists[k - 1])]
    BY <1>3
  <2> HIDE DEF lists, Step, n
  <2> QED
    BY <1>1, <2>1
<1> HIDE DEF lists, Q, T
<1> DEFINE S == ItemTerms(items)
           U == {k \in Nat : k <= n => lists[k] \in Seq(Seq(S)) /\ Len(lists[k]) = k + 1}
<1>5. 0 \in U
  <2>1. <<<<>>>> \in Seq(Seq(S)) /\ Len(<<<<>>>>) = 1
    <3> HIDE DEF S
    <3> QED
      OBVIOUS
  <2>2. lists[0] = <<<<>>>>
    BY <1>4
  <2>3. lists[0] \in Seq(Seq(S)) /\ Len(lists[0]) = 0 + 1
    BY <2>1, <2>2
  <2> HIDE DEF S
  <2> QED
    BY <2>3
<1>6. ASSUME NEW k \in Nat, k \in U PROVE k + 1 \in U
  <2> SUFFICES ASSUME k + 1 <= n
               PROVE  lists[k + 1] \in Seq(Seq(S)) /\ Len(lists[k + 1]) = k + 2
    OBVIOUS
  <2>1. /\ k + 1 \in 1 .. n /\ (k + 1) - 1 = k
        /\ lists[k] \in Seq(Seq(S)) /\ Len(lists[k]) = k + 1
    BY <1>1, <1>6
  <2>2. lists[k + 1] = Append(lists[k], AddItem(r, lists[k], items[k + 1]))
    BY <1>4, <2>1
  <2>3. AddItem(r, lists[k], items[k + 1]) \in Seq(S)
    <3> DEFINE item == items[k + 1]
    <3>1. ASSUME IsRep(item)
          PROVE  item.since \in Nat /\ item.since < k + 1 /\ item.n \in Counts
      <4>1. item \in Terms \cup [since : Nat, n : Counts] /\ "since" \in DOMAIN item
        BY <1>1, <2>1, <3>1 DEF IsRep
      <4>2. item \in [since : Nat, n : Counts]
        BY <4>1 DEF Terms
      <4>3. item.since < k + 1
        BY <1>1, <2>1, <4>1 DEF Items
      <4> QED
        BY <4>2, <4>3
    <3>2. ~IsRep(item) => item \in S
      BY <1>1, <2>1 DEF ItemTerms
    <3>3. lists[k] # <<>>
      BY <2>1
    <3> HIDE DEF item, S
    <3> QED
      BY <2>1, <3>1, <3>2, <3>3, AddedItem DEF item
  <2> HIDE DEF S
  <2> QED
    BY <2>1, <2>2, <2>3
<1>7. lists[n] \in Seq(Seq(S)) /\ Len(lists[n]) = n + 1
  <2>1. n \in U
    <3> HIDE DEF U, n
    <3> QED
      BY <1>1, <1>5, <1>6, SetInduction
  <2> QED
    BY <1>1, <2>1
<1>8. Last(lists[n]) \in Seq(S)
  <2>1. Len(lists[n]) \in 1 .. Len(lists[n])
    BY <1>1, <1>7
  <2> HIDE DEF S, n
  <2> QED
    BY <1>7, <2>1 DEF Last
<1> QED
  BY <1>2, <1>8


LEMMA BodyOf ==
    ASSUME NEW b \in Bodies
    PROVE  /\ b.op = "const" => b \in [op : {"const"}, name : STRING, value : Numbers, range : Ranges,
                                       flags : SUBSET Flags]
           /\ b.op = "expr" => b \in [op : {"expr"}, name : STRING, expr : Exprs, range : Ranges,
                                      flags : SUBSET Flags]
           /\ b.op = "scan" => b \in [op : {"scan"}, name : STRING, n : Counts, range : Ranges \ {NoRange},
                                      flags : SUBSET Flags]
           /\ b.op = "pwl" => b \in [op : {"pwl"}, name : STRING, pattern : STRING,
                                     ctrl : [PwlControls -> Exprs \cup {NoExpr}]]
           /\ b.op = "pattern" => b \in [op : {"pattern"}, name : STRING, noi : STRING, items : Items]
           /\ b.op = "lsq_fit" => b.x \in Exprs /\ b.y \in Exprs
           /\ b.op \in {"const", "expr", "scan", "pwl", "pattern", "monitor", "lsq_fit", "snapshot",
                        "sim_anneal", "sa_schedule", "baysian_opt"}
           /\ "range" \in DOMAIN b => b.op \in {"const", "expr", "scan"}
  BY DEF Bodies

LEMMA ExprSeq ==
    /\ Exprs \subseteq Seq(Node) /\ NoExpr \in Seq(Node)
    /\ \A e \in Exprs : e # NoExpr
  BY DEF Exprs, NoExpr

LEMMA PatternCounted ==
    ASSUME NEW r, NEW items \in Items
    PROVE  /\ PatternErrors(r, items) \in Nat
           /\ PatternErrors(r, items) = 0 => \A t \in ItemTerms(items) : NullNodes(r, t.expr) = {}
<1> DEFINE terms == {k \in DOMAIN items : ~IsRep(items[k])}
           es == [k \in terms |-> items[k].expr]
           nulls == {k \in terms : IsNull(r, items[k].expr)}
           reps == {k \in DOMAIN items \ terms : Below(items[k].n, 1)}
<1>1. items \in Seq(Terms \cup [since : Nat, n : Counts])
  BY DEF Items
<1>2. IsFiniteSet(DOMAIN items)
  <2>1. DOMAIN items = 1 .. Len(items) /\ Len(items) \in Nat
    BY <1>1
  <2> QED
    BY <2>1, FS_Interval
<1>3. IsFiniteSet(terms) /\ IsFiniteSet(nulls) /\ IsFiniteSet(reps)
  <2>1. terms \subseteq DOMAIN items /\ nulls \subseteq DOMAIN items /\ reps \subseteq DOMAIN items
    OBVIOUS
  <2> HIDE DEF terms, nulls, reps
  <2> QED
    BY <1>2, <2>1, FS_Subset
<1>4. \A k \in terms : es[k] \in Seq(Node)
  <2> SUFFICES ASSUME NEW k \in terms PROVE items[k].expr \in Seq(Node)
    OBVIOUS
  <2>1. items[k] \in Terms \cup [since : Nat, n : Counts] /\ ~IsRep(items[k])
    BY <1>1
  <2>2. items[k] \in Terms
    BY <2>1 DEF IsRep
  <2> QED
    BY <2>2, ExprSeq DEF Terms
<1>5. /\ ExprsErrors(r, es) \in Nat
      /\ ExprsErrors(r, es) = 0 => \A k \in terms : NullNodes(r, es[k]) = {}
  <2>1. DOMAIN es = terms
    OBVIOUS
  <2> HIDE DEF terms, es
  <2> QED
    BY <1>3, <1>4, <2>1, ExprsCounted
<1>6. Cardinality(nulls) \in Nat /\ Cardinality(reps) \in Nat
  BY <1>3, FS_CardinalityType
<1>7. PatternErrors(r, items) = ExprsErrors(r, es) + Cardinality(nulls) + Cardinality(reps)
  BY DEF PatternErrors
<1>8. \A t \in ItemTerms(items) : \E k \in terms : t = items[k] /\ es[k] = t.expr
  BY DEF ItemTerms
<1> HIDE DEF terms, es, nulls, reps
<1>9. PatternErrors(r, items) \in Nat /\ (PatternErrors(r, items) = 0 => ExprsErrors(r, es) = 0)
  BY <1>5, <1>6, <1>7
<1> QED
  BY <1>5, <1>8, <1>9

LEMMA BodyCounted ==
    ASSUME NEW r, NEW b \in Bodies
    PROVE  /\ BodyErrors(r, b) \in Nat
           /\ BodyErrors(r, b) = 0 =>
                 /\ "range" \in DOMAIN b => ~BadRange(b.range)
                 /\ b.op = "expr" => NullNodes(r, b.expr) = {}
                 /\ b.op = "pwl" => \A k \in PwlControls : NullNodes(r, b.ctrl[k]) = {}
                 /\ b.op = "pattern" => \A t \in ItemTerms(b.items) : NullNodes(r, t.expr) = {}
<1> DEFINE ranged == IF "range" \in DOMAIN b /\ BadRange(b.range) THEN 1 ELSE 0
           rest == CASE b.op = "expr" -> ExprErrors(r, b.expr)
                     [] b.op = "pwl" -> ExprsErrors(r, b.ctrl)
                     [] b.op = "lsq_fit" -> ExprErrors(r, b.x) + ExprErrors(r, b.y)
                     [] b.op = "pattern" -> PatternErrors(r, b.items)
                     [] OTHER -> 0
<1>1. BodyErrors(r, b) = ranged + rest
  BY DEF BodyErrors
<1>2. ranged \in Nat /\ (ranged = 0 => ~("range" \in DOMAIN b /\ BadRange(b.range)))
  OBVIOUS
<1>3. /\ rest \in Nat
      /\ rest = 0 =>
            /\ b.op = "expr" => NullNodes(r, b.expr) = {}
            /\ b.op = "pwl" => \A k \in PwlControls : NullNodes(r, b.ctrl[k]) = {}
            /\ b.op = "pattern" => \A t \in ItemTerms(b.items) : NullNodes(r, t.expr) = {}
  <2>1. CASE b.op = "expr"
    <3>1. b.expr \in Seq(Node)
      BY <2>1, BodyOf, ExprSeq
    <3> QED
      BY <2>1, <3>1, ExprCounted
  <2>2. CASE b.op = "pwl"
    <3>1. b.ctrl \in [PwlControls -> Exprs \cup {NoExpr}]
      BY <2>2, BodyOf
    <3>2. DOMAIN b.ctrl = PwlControls /\ \A k \in PwlControls : b.ctrl[k] \in Seq(Node)
      BY <3>1, ExprSeq
    <3>3. IsFiniteSet(PwlControls)
      <4>1. PwlControls = {"rise"} \cup ({"fall"} \cup ({"width"} \cup ({"high"} \cup {"low"})))
        BY DEF PwlControls
      <4>2. /\ IsFiniteSet({"rise"}) /\ IsFiniteSet({"fall"}) /\ IsFiniteSet({"width"})
            /\ IsFiniteSet({"high"}) /\ IsFiniteSet({"low"})
        BY FS_Singleton
      <4>3. IsFiniteSet({"high"} \cup {"low"})
        BY <4>2, FS_Union
      <4>4. IsFiniteSet({"width"} \cup ({"high"} \cup {"low"}))
        BY <4>2, <4>3, FS_Union
      <4>5. IsFiniteSet({"fall"} \cup ({"width"} \cup ({"high"} \cup {"low"})))
        BY <4>2, <4>4, FS_Union
      <4> QED
        BY <4>1, <4>2, <4>5, FS_Union
    <3>4. /\ ExprsErrors(r, b.ctrl) \in Nat
          /\ ExprsErrors(r, b.ctrl) = 0 => \A k \in PwlControls : NullNodes(r, b.ctrl[k]) = {}
      BY <3>2, <3>3, ExprsCounted
    <3> QED
      BY <2>2, <3>4
  <2>3. CASE b.op = "lsq_fit"
    <3>1. b.x \in Seq(Node) /\ b.y \in Seq(Node)
      BY <2>3, BodyOf, ExprSeq
    <3>2. ExprErrors(r, b.x) \in Nat /\ ExprErrors(r, b.y) \in Nat
      BY <3>1, ExprCounted
    <3> QED
      BY <2>3, <3>2
  <2>4. CASE b.op = "pattern"
    <3>1. b.items \in Items
      BY <2>4, BodyOf
    <3> QED
      BY <2>4, <3>1, PatternCounted
  <2>5. CASE b.op \notin {"expr", "pwl", "lsq_fit", "pattern"}
    BY <2>5
  <2> QED
    BY <2>1, <2>2, <2>3, <2>4, <2>5
<1> HIDE DEF ranged, rest
<1> QED
  BY <1>1, <1>2, <1>3


LEMMA RegistrySeqs ==
    ASSUME NEW r, IsRegistry(r)
    PROVE  /\ Len(r.params) \in Nat /\ DOMAIN r.params = 1 .. Len(r.params)
           /\ \A i \in 1 .. Len(r.params) : r.params[i] \in Params
           /\ Len(r.patterns) \in Nat /\ DOMAIN r.patterns = 1 .. Len(r.patterns)
           /\ \A j \in 1 .. Len(r.patterns) : r.patterns[j] \in Patterns
<1>1. r.params \in Seq(Params) /\ r.patterns \in Seq(Patterns)
  BY DEF IsRegistry
<1> QED
  BY <1>1

LEMMA FirstParamsAre ==
    ASSUME NEW r, IsRegistry(r), NEW n \in 0 .. Len(r.params)
    PROVE  /\ FirstParams(r, n).params \in Seq(Params) /\ Len(FirstParams(r, n).params) = n
           /\ \A k \in 1 .. n : FirstParams(r, n).params[k] = r.params[k]
           /\ FirstParams(r, n).patterns = r.patterns
           /\ FirstParams(r, n).nois = r.nois /\ FirstParams(r, n).lsqs = r.lsqs
<1>1. DOMAIN r = Fields /\ r.params \in Seq(Params)
  BY DEF IsRegistry
<1>2. /\ FirstParams(r, n).params = SubSeq(r.params, 1, n)
      /\ FirstParams(r, n).patterns = r.patterns
      /\ FirstParams(r, n).nois = r.nois /\ FirstParams(r, n).lsqs = r.lsqs
  BY <1>1 DEF FirstParams, Fields
<1>3. Len(r.params) \in Nat /\ \A k \in 1 .. Len(r.params) : r.params[k] \in Params
  BY <1>1
<1>4. /\ SubSeq(r.params, 1, n) \in Seq(Params) /\ Len(SubSeq(r.params, 1, n)) = n
      /\ \A k \in 1 .. n : SubSeq(r.params, 1, n)[k] = r.params[k]
  BY <1>1, <1>3
<1> QED
  BY <1>2, <1>4

LEMMA CleanOld ==
    ASSUME NEW r, NEW q, IsRegistry(r), IsRegistry(q), Grows(r, q), Clean(r)
    PROVE  /\ \A i \in 1 .. Len(r.params) : ParamClean(q, i)
           /\ \A j \in 1 .. Len(r.patterns) : EntriesClean(q, j)
<1>1. r.patterns \in Seq(Patterns) /\ q.patterns \in Seq(Patterns)
  BY DEF IsRegistry
<1>2. ASSUME NEW i \in 1 .. Len(r.params) PROVE ParamClean(q, i)
  <2>1. ParamClean(r, i) /\ q.params[i] = r.params[i]
    BY RegistrySeqs DEF Clean, Grows
  <2> DEFINE p == r.params[i]
             rp == FirstParams(r, i - 1)
             qp == FirstParams(q, i - 1)
  <2>2. i - 1 \in 0 .. Len(r.params) /\ i - 1 \in 0 .. Len(q.params)
        /\ \A k \in 1 .. i - 1 : k \in 1 .. Len(r.params)
    BY DEF Grows
  <2>3. Grows(rp, qp) /\ rp.patterns \in Seq(Patterns) /\ qp.patterns \in Seq(Patterns)
    <3>1. /\ Len(rp.params) = i - 1 /\ \A k \in 1 .. i - 1 : rp.params[k] = r.params[k]
          /\ rp.patterns = r.patterns /\ rp.nois = r.nois /\ rp.lsqs = r.lsqs
      BY <2>2, FirstParamsAre
    <3>2. /\ Len(qp.params) = i - 1 /\ \A k \in 1 .. i - 1 : qp.params[k] = q.params[k]
          /\ qp.patterns = q.patterns /\ qp.nois = q.nois /\ qp.lsqs = q.lsqs
      BY <2>2, FirstParamsAre
    <3> HIDE DEF rp, qp
    <3> QED
      BY <1>1, <2>2, <3>1, <3>2 DEF Grows
  <2>4. p.kind = "expr" => NullNodes(qp, p.body.expr) = {}
    <3> HIDE DEF rp, qp
    <3> SUFFICES ASSUME p.kind = "expr" PROVE NullNodes(qp, p.body.expr) = {}
      OBVIOUS
    <3>1. NullNodes(rp, p.body.expr) = {}
      BY <2>1 DEF ParamClean, rp
    <3> QED
      BY <2>3, <3>1, CleanStays
  <2>5. p.kind = "pwl" =>
           /\ FindPattern(q, p.body.pattern) # 0
           /\ \A k \in PwlControls : p.body.ctrl[k] \in Exprs /\ NullNodes(q, p.body.ctrl[k]) = {}
    BY <1>1, <2>1, StaysFound, CleanStays DEF ParamClean
  <2> QED
    BY <2>1, <2>4, <2>5 DEF ParamClean
<1>3. ASSUME NEW j \in 1 .. Len(r.patterns) PROVE EntriesClean(q, j)
  <2>1. EntriesClean(r, j) /\ q.patterns[j] = r.patterns[j]
    BY RegistrySeqs DEF Clean, Grows
  <2> QED
    BY <1>1, <2>1, CleanStays DEF EntriesClean
<1> QED
  BY <1>2, <1>3

\* Definitions of anything but a parameter.
LEMMA OthersAdded ==
    ASSUME NEW r, NEW q, RegistryOK(r), IsRegistry(q), q.params = r.params, Grows(r, q),
           OneOptimizer(q), q.errs = 0 => r.errs = 0,
           q.errs = 0 => \A j \in Len(r.patterns) + 1 .. Len(q.patterns) :
                            \A k \in DOMAIN q.patterns[j].entries :
                                NullNodes(r, q.patterns[j].entries[k].expr) = {}
    PROVE  RegistryOK(q)
<1>1. Unique(q) /\ \A i \in DOMAIN q.params : ConstantOK(q.params[i])
  BY DEF RegistryOK, Unique
<1>2. ASSUME q.errs = 0 PROVE Clean(q)
  <2>1. /\ \A i \in 1 .. Len(r.params) : ParamClean(q, i)
        /\ \A j \in 1 .. Len(r.patterns) : EntriesClean(q, j)
    BY <1>2, CleanOld DEF RegistryOK
  <2>2. r.patterns \in Seq(Patterns) /\ q.patterns \in Seq(Patterns)
    BY DEF IsRegistry, RegistryOK
  <2>3. \A j \in Len(r.patterns) + 1 .. Len(q.patterns) : EntriesClean(q, j)
    BY <1>2, <2>2, CleanStays DEF EntriesClean
  <2>4. DOMAIN q.params = 1 .. Len(r.params) /\ DOMAIN q.patterns = 1 .. Len(q.patterns)
    BY RegistrySeqs
  <2>5. \A j \in 1 .. Len(q.patterns) : j \in 1 .. Len(r.patterns) \/ j \in Len(r.patterns) + 1 .. Len(q.patterns)
    BY DEF Grows
  <2> QED
    BY <2>1, <2>3, <2>4, <2>5 DEF Clean
<1> QED
  BY <1>1, <1>2 DEF RegistryOK

\* Definition of a parameter.
LEMMA ParamAdded ==
    ASSUME NEW r, NEW q, RegistryOK(r), IsRegistry(q), NEW p \in Params,
           q.params = Append(r.params, p), q.patterns = r.patterns,
           q.nois = r.nois, q.lsqs = r.lsqs, q.anneal = r.anneal, q.bo = r.bo,
           FindParameter(r, p.name) = 0, ConstantOK(p), q.errs = 0 => r.errs = 0,
           q.errs = 0 /\ p.kind = "expr" => NullNodes(r, p.body.expr) = {},
           q.errs = 0 /\ p.kind = "pwl" =>
              /\ FindPattern(r, p.body.pattern) # 0
              /\ \A k \in PwlControls : p.body.ctrl[k] \in Exprs /\ NullNodes(r, p.body.ctrl[k]) = {}
    PROVE  RegistryOK(q)
<1> DEFINE n == Len(r.params)
<1>1. IsRegistry(r) /\ r.params \in Seq(Params) /\ n \in Nat
  BY DEF RegistryOK, IsRegistry
<1>2. /\ Len(q.params) = n + 1 /\ DOMAIN q.params = 1 .. n + 1 /\ DOMAIN r.params = 1 .. n
      /\ q.params[n + 1] = p /\ \A i \in 1 .. n : q.params[i] = r.params[i]
  BY <1>1
<1> HIDE DEF n
<1>3. \A i \in 1 .. n + 1 : i \in 1 .. n \/ i = n + 1
  BY <1>1
<1>4. Len(r.patterns) \in Nat /\ DOMAIN r.patterns = 1 .. Len(r.patterns)
  BY <1>1, RegistrySeqs
<1>5. Grows(r, q)
  BY <1>1, <1>2, <1>4 DEF Grows, n
<1>6. Unique(q)
  <2>1. \A i \in 1 .. n : r.params[i].name # p.name
    BY <1>1, Found DEF n
  <2>2. Unique(r)
    BY DEF RegistryOK
  <2> QED
    BY <1>2, <1>3, <2>1, <2>2 DEF Unique
<1>7. \A i \in DOMAIN q.params : ConstantOK(q.params[i])
  BY <1>2, <1>3 DEF RegistryOK
<1>8. OneOptimizer(q)
  BY <1>5, StaysFound DEF RegistryOK, OneOptimizer
<1>9. ASSUME q.errs = 0 PROVE Clean(q)
  <2>1. /\ \A i \in 1 .. n : ParamClean(q, i)
        /\ \A j \in DOMAIN q.patterns : EntriesClean(q, j)
    BY <1>1, <1>4, <1>5, <1>9, CleanOld DEF RegistryOK, n
  <2> DEFINE qp == FirstParams(q, n)
  <2>2. r.patterns \in Seq(Patterns) /\ q.patterns \in Seq(Patterns)
    BY <1>1 DEF IsRegistry
  <2>3. Grows(r, qp) /\ qp.patterns = q.patterns
    <3>1. n \in 0 .. Len(q.params)
      BY <1>1, <1>2
    <3>2. /\ Len(qp.params) = n /\ \A k \in 1 .. n : qp.params[k] = q.params[k]
          /\ qp.patterns = q.patterns /\ qp.nois = q.nois /\ qp.lsqs = q.lsqs
      BY <3>1, FirstParamsAre
    <3> HIDE DEF qp
    <3> QED
      BY <1>1, <1>2, <1>4, <3>2 DEF Grows, n
  <2>4. p.kind = "expr" => NullNodes(qp, p.body.expr) = {}
    <3> HIDE DEF qp
    <3> QED
      BY <1>9, <2>2, <2>3, CleanStays
  <2>5. p.kind = "pwl" =>
           /\ FindPattern(q, p.body.pattern) # 0
           /\ \A k \in PwlControls : p.body.ctrl[k] \in Exprs /\ NullNodes(q, p.body.ctrl[k]) = {}
    BY <1>5, <1>9, <2>2, StaysFound, CleanStays
  <2>6. (n + 1) - 1 = n
    BY <1>1
  <2>7. ParamClean(q, n + 1)
    BY <1>2, <2>4, <2>5, <2>6 DEF ParamClean
  <2> QED
    BY <1>2, <1>3, <2>1, <2>7 DEF Clean
<1> QED
  BY <1>6, <1>7, <1>8, <1>9 DEF RegistryOK


LEMMA RangeTyped ==
    ASSUME NEW b, b.range \in Ranges, Below(VMin(b), VMax(b))
    PROVE  /\ VMin(b) \in Int /\ VMax(b) \in Int /\ VMin(b) < VMax(b)
           /\ HasRange(b) => VMin(b) \in Finite /\ VMax(b) \in Finite
           /\ ~HasRange(b) => VMin(b) = -Unbounded /\ VMax(b) = Unbounded
<1>1. IsFinite(VMin(b)) /\ IsFinite(VMax(b)) /\ VMin(b) < VMax(b)
  BY DEF Below
<1>2. CASE ~HasRange(b)
  BY <1>1, <1>2 DEF VMin, VMax, Unbounded
<1>3. CASE HasRange(b)
  <2>1. b.range \in Numbers \X Numbers
    BY <1>3 DEF HasRange, Ranges
  <2>2. b.range[1] \in Numbers /\ b.range[2] \in Numbers
    BY <2>1
  <2>3. VMin(b) \in Finite /\ VMax(b) \in Finite
    BY <1>1, <1>3, <2>2 DEF VMin, VMax, Numbers, IsFinite
  <2> QED
    BY <1>1, <1>3, <2>3 DEF Finite, Unbounded
<1> QED
  BY <1>2, <1>3

LEMMA ConstantAccepted ==
    ASSUME NEW r, NEW b \in Bodies, b.op = "const", ~RefuseParamConstant(r, b), ~Aborts(b)
    PROVE  ConstantOK(Parameter(b))
<1> DEFINE p == Parameter(b)
<1>1. /\ b.value \in Numbers /\ b.range \in Ranges /\ b.flags \in SUBSET Flags
  BY BodyOf
<1>2. p.body = b /\ p.lo = VMin(b) /\ p.hi = VMax(b) /\ p.flags = b.flags
  BY DEF Parameter
<1>3. VMin(b) \in Int /\ VMax(b) \in Int /\ IsFinite(VMin(b)) /\ IsFinite(VMax(b))
  <2>1. Below(VMin(b), VMax(b))
    BY DEF Aborts
  <2> QED
    BY <1>1, <2>1, RangeTyped DEF Below
<1>4. IsFinite(b.value) => b.value \in Int
  BY <1>1 DEF IsFinite, Numbers, Finite, Unbounded
<1>5. ~HasRange(b) => "tune" \notin b.flags /\ "log_map" \notin b.flags
  BY DEF RefuseParamConstant
<1>6. IsFinite(b.value) => VMin(b) <= b.value /\ b.value <= VMax(b)
  BY <1>3, <1>4 DEF RefuseParamConstant, Below
<1>7. "log_map" \in b.flags => VMin(b) > 0
  <2>1. IsFinite(0)
    BY RegistryAssumption DEF IsFinite
  <2> QED
    BY <1>3, <2>1 DEF RefuseParamConstant, AtMost
<1> HIDE DEF p
<1> QED
  BY <1>2, <1>5, <1>6, <1>7 DEF ConstantOK, p

\* Each step of a handler changes one field.
LEMMA WithField ==
    ASSUME NEW r, IsRegistry(r), NEW x \in Fields, NEW q, DOMAIN q = Fields,
           \A y \in Fields : y # x => q[y] = r[y],
           x = "params" => q[x] \in Seq(Params), x = "patterns" => q[x] \in Seq(Patterns),
           x = "errs" => q[x] \in Nat
    PROVE  IsRegistry(q)
<1>1. "params" \in Fields /\ "patterns" \in Fields /\ "errs" \in Fields
  BY DEF Fields
<1>2. q["params"] \in Seq(Params)
  BY <1>1 DEF IsRegistry
<1>3. q["patterns"] \in Seq(Patterns)
  BY <1>1 DEF IsRegistry
<1>4. q["errs"] \in Nat
  BY <1>1 DEF IsRegistry
<1> QED
  BY <1>2, <1>3, <1>4 DEF IsRegistry

LEMMA ErrorKeeps ==
    ASSUME NEW r, RegistryOK(r), NEW n \in Nat
    PROVE  RegistryOK([r EXCEPT !.errs = @ + n])
<1> DEFINE q == [r EXCEPT !.errs = @ + n]
<1>1. IsRegistry(r) /\ r.errs \in Nat /\ OneOptimizer(r)
  BY DEF RegistryOK, IsRegistry
<1>2. /\ DOMAIN q = Fields /\ q["errs"] = r.errs + n /\ r.errs + n \in Nat
      /\ \A y \in Fields : y # "errs" => q[y] = r[y]
      /\ "errs" \in Fields
  <2>1. q = [r EXCEPT !["errs"] = r["errs"] + n]
    OBVIOUS
  <2> HIDE DEF q
  <2> QED
    BY <1>1, <2>1 DEF Fields, IsRegistry
<1> HIDE DEF q
<1>3. IsRegistry(q)
  BY <1>1, <1>2, WithField
<1>4. /\ q.params = r.params /\ q.patterns = r.patterns /\ q.nois = r.nois
      /\ q.lsqs = r.lsqs /\ q.anneal = r.anneal /\ q.bo = r.bo /\ (q.errs = 0 => r.errs = 0)
  BY <1>1, <1>2 DEF Fields
<1>5. Grows(r, q)
  BY <1>1, <1>4, RegistrySeqs DEF Grows
<1>6. OneOptimizer(q)
  BY <1>1, <1>4 DEF OneOptimizer, FindParameter
<1>7. \A j : j \in Len(r.patterns) + 1 .. Len(q.patterns) => FALSE
  BY <1>1, <1>4, RegistrySeqs
<1> QED
  BY <1>3, <1>4, <1>5, <1>6, <1>7, OthersAdded DEF q

\* The handlers keep the registry sound.
LEMMA DefineKeeps ==
    ASSUME NEW r, RegistryOK(r), NEW b \in Bodies
    PROVE  RegistryOK(Define(r, b))
<1> DEFINE e == BodyErrors(r, b)
           parsed == [r EXCEPT !.errs = @ + BodyErrors(r, b)]
<1>1. IsRegistry(r) /\ r.errs \in Nat /\ OneOptimizer(r)
  BY DEF RegistryOK, IsRegistry
<1>2. e \in Nat
  BY BodyCounted
<1>3. /\ IsRegistry(parsed) /\ parsed.errs = r.errs + e
      /\ \A y \in Fields : y # "errs" => parsed[y] = r[y]
  <2>1. r.errs + e \in Nat /\ "errs" \in Fields
    BY <1>1, <1>2 DEF Fields
  <2>2. /\ DOMAIN parsed = Fields /\ parsed["errs"] = r.errs + e
        /\ \A y \in Fields : y # "errs" => parsed[y] = r[y]
    <3> HIDE DEF e
    <3>1. parsed = [r EXCEPT !["errs"] = r["errs"] + e]
      BY DEF e
    <3> HIDE DEF parsed
    <3> QED
      BY <1>1, <2>1, <3>1 DEF IsRegistry
  <2> HIDE DEF parsed, e
  <2> QED
    BY <1>1, <2>1, <2>2, WithField
<1>4. /\ parsed.params = r.params /\ parsed.patterns = r.patterns /\ parsed.nois = r.nois
      /\ parsed.lsqs = r.lsqs /\ parsed.anneal = r.anneal /\ parsed.bo = r.bo
      /\ parsed.errs \in Nat /\ (parsed.errs = 0 => r.errs = 0 /\ e = 0)
  BY <1>1, <1>2, <1>3 DEF Fields
<1>5. Grows(r, r)
  BY <1>1, RegistrySeqs DEF Grows
<1>6. Define(r, b) = IF Refused(r, b) THEN [parsed EXCEPT !.errs = @ + 1]
                     ELSE IF Aborts(b) THEN [parsed EXCEPT !.aborted = TRUE]
                     ELSE Added(parsed, b)
  BY DEF Define
<1> HIDE DEF parsed
<1> DEFINE q == Define(r, b)
<1>7. CASE Refused(r, b)
  <2>1. q = [parsed EXCEPT !.errs = @ + 1]
    BY <1>6, <1>7
  <2>2. RegistryOK(parsed)
    BY <1>2, ErrorKeeps DEF parsed, e
  <2> HIDE DEF q
  <2> QED
    BY <2>1, <2>2, ErrorKeeps DEF q
<1>8. CASE ~Refused(r, b) /\ Aborts(b)
  <2>1. /\ DOMAIN q = Fields /\ \A y \in Fields : y # "aborted" => q[y] = parsed[y]
        /\ "aborted" \in Fields
    <3>1. q = [parsed EXCEPT !["aborted"] = TRUE]
      BY <1>6, <1>8
    <3> HIDE DEF q
    <3> QED
      BY <1>3, <3>1 DEF Fields, IsRegistry
  <2> HIDE DEF q
  <2>2. IsRegistry(q) /\ \A y \in Fields : y # "aborted" => q[y] = parsed[y]
    BY <1>3, <2>1, WithField
  <2>3. /\ q.params = r.params /\ q.patterns = r.patterns /\ q.nois = r.nois
        /\ q.lsqs = r.lsqs /\ q.anneal = r.anneal /\ q.bo = r.bo /\ (q.errs = 0 => r.errs = 0)
    BY <1>4, <2>2 DEF Fields
  <2>4. Grows(r, q)
    BY <1>5, <2>3 DEF Grows
  <2>5. OneOptimizer(q)
    BY <1>1, <2>3 DEF OneOptimizer, FindParameter
  <2>6. \A j : j \in Len(r.patterns) + 1 .. Len(q.patterns) => FALSE
    BY <1>1, <2>3, RegistrySeqs
  <2> QED
    BY <2>2, <2>3, <2>4, <2>5, <2>6, OthersAdded DEF q
<1>9. ASSUME ~Refused(r, b), ~Aborts(b), b.op \in {"const", "expr", "scan", "pwl"}
      PROVE  RegistryOK(q)
  <2> DEFINE p == Parameter(b)
  <2>1. q = [parsed EXCEPT !["params"] = Append(parsed["params"], p)] /\ "params" \in Fields
    BY <1>6, <1>9 DEF Added, Fields
  <2>2. /\ p \in Params /\ p.name = b.name /\ p.body = b /\ p.kind = b.op
    BY <1>9 DEF Params, ParamBodies, Parameter
  <2> HIDE DEF q, p
  <2>3. Append(parsed.params, p) \in Seq(Params)
    BY <1>3, <2>2 DEF IsRegistry
  <2>4. /\ IsRegistry(q) /\ q["params"] = Append(parsed.params, p)
        /\ \A y \in Fields : y # "params" => q[y] = parsed[y]
    <3>1. /\ DOMAIN q = Fields /\ q["params"] = Append(parsed.params, p)
          /\ \A y \in Fields : y # "params" => q[y] = parsed[y]
      BY <1>3, <2>1 DEF IsRegistry
    <3> QED
      BY <1>3, <2>1, <2>3, <3>1, WithField
  <2>5. /\ q.params = Append(r.params, p) /\ q.patterns = r.patterns /\ q.nois = r.nois
        /\ q.lsqs = r.lsqs /\ q.anneal = r.anneal /\ q.bo = r.bo
        /\ q.errs = 0 => r.errs = 0 /\ e = 0
    BY <1>4, <2>4 DEF Fields
  <2>6. ~Redefines(r, b)
    <3>1. CASE b.op = "const"
      <4>1. ~RefuseParamConstant(r, b)
        BY <1>9, <3>1 DEF Refused
      <4> QED
        BY <4>1 DEF RefuseParamConstant
    <3>2. CASE b.op = "expr"
      <4>1. ~RefuseParamExpression(r, b)
        BY <1>9, <3>2 DEF Refused
      <4> QED
        BY <4>1 DEF RefuseParamExpression
    <3>3. CASE b.op = "scan"
      <4>1. ~RefuseParamScan(r, b)
        BY <1>9, <3>3 DEF Refused
      <4>2. Redefines(r, b) => RefuseParamScan(r, b)
        BY DEF RefuseParamScan
      <4> QED
        BY <4>1, <4>2
    <3>4. CASE b.op = "pwl"
      <4>1. ~RefuseParamPwl(r, b)
        BY <1>9, <3>4 DEF Refused
      <4> QED
        BY <4>1 DEF RefuseParamPwl
    <3> QED
      BY <1>9, <3>1, <3>2, <3>3, <3>4
  <2>7. FindParameter(r, p.name) = 0
    BY <2>2, <2>6 DEF Redefines
  <2>8. ConstantOK(p)
    <3>1. CASE b.op = "const"
      BY <1>9, <3>1, ConstantAccepted DEF Refused, p
    <3>2. CASE b.op # "const"
      BY <2>2, <3>2 DEF ConstantOK
    <3> QED
      BY <3>1, <3>2
  <2>9. q.errs = 0 /\ p.kind = "expr" => NullNodes(r, p.body.expr) = {}
    BY <2>2, <2>5, BodyCounted
  <2>10. ASSUME q.errs = 0, p.kind = "pwl"
         PROVE  /\ FindPattern(r, p.body.pattern) # 0
                /\ \A k \in PwlControls : p.body.ctrl[k] \in Exprs /\ NullNodes(r, p.body.ctrl[k]) = {}
    <3>1. ~RefuseParamPwl(r, b) /\ b.op = "pwl"
      BY <1>9, <2>2, <2>10 DEF Refused
    <3>2. b.ctrl \in [PwlControls -> Exprs \cup {NoExpr}]
      BY <3>1, BodyOf
    <3>3. \A k \in PwlControls : b.ctrl[k] \in Exprs
      BY <3>1, <3>2 DEF RefuseParamPwl
    <3>4. FindPattern(r, b.pattern) # 0
      BY <3>1 DEF RefuseParamPwl
    <3>5. \A k \in PwlControls : NullNodes(r, b.ctrl[k]) = {}
      BY <2>5, <2>10, <3>1, BodyCounted
    <3> QED
      BY <2>2, <3>3, <3>4, <3>5
  <2> QED
    BY <2>2, <2>4, <2>5, <2>7, <2>8, <2>9, <2>10, ParamAdded DEF q
<1>10. ASSUME ~Refused(r, b), ~Aborts(b), b.op = "pattern"
       PROVE  RegistryOK(q)
  <2> DEFINE entries == PatternTerms(parsed, b.items)
             t == [name |-> b.name, entries |-> entries]
             n == Len(r.patterns)
  <2>1. q = [parsed EXCEPT !["patterns"] = Append(parsed["patterns"], t)] /\ "patterns" \in Fields
    BY <1>6, <1>10 DEF Added, Fields
  <2>2. b.items \in Items /\ b.name \in STRING
    BY <1>10, BodyOf
  <2>3. entries \in Seq(ItemTerms(b.items))
    BY <2>2, PatternTermsFrom
  <2>4. ItemTerms(b.items) \subseteq Terms
    <3> SUFFICES ASSUME NEW j \in DOMAIN b.items, ~IsRep(b.items[j]) PROVE b.items[j] \in Terms
      BY DEF ItemTerms
    <3>1. b.items[j] \in Terms \cup [since : Nat, n : Counts]
      BY <2>2 DEF Items
    <3> QED
      BY <3>1 DEF IsRep
  <2>5. t \in Patterns
    <3> HIDE DEF entries
    <3>1. entries \in Seq(Terms)
      BY <2>3, <2>4
    <3> QED
      BY <2>2, <3>1 DEF Patterns
  <2>6. t.entries = entries
    OBVIOUS
  <2> HIDE DEF q, t
  <2>7. Append(parsed.patterns, t) \in Seq(Patterns)
    BY <1>3, <2>5 DEF IsRegistry
  <2>8. /\ IsRegistry(q) /\ q["patterns"] = Append(parsed.patterns, t)
        /\ \A y \in Fields : y # "patterns" => q[y] = parsed[y]
    <3>1. /\ DOMAIN q = Fields /\ q["patterns"] = Append(parsed.patterns, t)
          /\ \A y \in Fields : y # "patterns" => q[y] = parsed[y]
      BY <1>3, <2>1 DEF IsRegistry
    <3> QED
      BY <1>3, <2>1, <2>7, <3>1, WithField
  <2>9. /\ q.params = r.params /\ q.patterns = Append(r.patterns, t) /\ q.nois = r.nois
        /\ q.lsqs = r.lsqs /\ q.anneal = r.anneal /\ q.bo = r.bo
        /\ q.errs = 0 => r.errs = 0 /\ e = 0
    BY <1>4, <2>8 DEF Fields
  <2>10. /\ n \in Nat /\ Len(q.patterns) = n + 1 /\ q.patterns[n + 1] = t
         /\ \A j \in 1 .. n : q.patterns[j] = r.patterns[j]
    BY <1>1, <2>9 DEF IsRegistry
  <2> HIDE DEF n
  <2>11. Grows(r, q)
    BY <1>1, <1>5, <2>9, <2>10 DEF Grows, n
  <2>12. OneOptimizer(q)
    BY <1>1, <2>9 DEF OneOptimizer, FindParameter
  <2>13. ASSUME q.errs = 0, NEW j \in n + 1 .. Len(q.patterns), NEW k \in DOMAIN q.patterns[j].entries
         PROVE  NullNodes(r, q.patterns[j].entries[k].expr) = {}
    <3>1. j = n + 1
      BY <2>10
    <3>2. q.patterns[j].entries = entries
      BY <2>6, <2>10, <3>1
    <3> HIDE DEF entries
    <3>3. entries[k] \in ItemTerms(b.items)
      BY <2>3, <3>2
    <3>4. \A u \in ItemTerms(b.items) : NullNodes(r, u.expr) = {}
      BY <1>10, <2>9, <2>13, BodyCounted
    <3> QED
      BY <3>2, <3>3, <3>4
  <2> QED
    BY <2>8, <2>9, <2>11, <2>12, <2>13, OthersAdded DEF q, n
<1>11. ASSUME ~Refused(r, b), ~Aborts(b),
              b.op \notin {"const", "expr", "scan", "pwl", "pattern"}
       PROVE  RegistryOK(q)
  <2> DEFINE Changes(x, v) ==
                /\ q = [parsed EXCEPT ![x] = v]
                /\ x = "nois" => v = parsed.nois \cup {b.name}
                /\ x = "lsqs" => v = parsed.lsqs \cup {b.name}
                /\ x = "anneal" => (\/ b.op = "sim_anneal"
                                    \/ b.op = "sa_schedule")
                /\ x = "bo" => b.op = "baysian_opt"
  <2>0. PICK x \in {"nois", "lsqs", "anneal", "bo", "snapshot"} : \E v : Changes(x, v)
    <3>1. q = Added(parsed, b)
      BY <1>6, <1>11
    <3>2. CASE b.op = "monitor"
      <4> DEFINE value == parsed.nois \cup {b.name}
      <4>1. q = [parsed EXCEPT !["nois"] = value]
        BY <3>1, <3>2 DEF Added
      <4> HIDE DEF q
      <4>2. Changes("nois", value)
        BY <4>1
      <4> HIDE DEF Changes, value
      <4> QED
        BY <4>2
    <3>3. CASE b.op = "lsq_fit"
      <4> DEFINE value == parsed.lsqs \cup {b.name}
      <4>1. q = [parsed EXCEPT !["lsqs"] = value]
        BY <3>1, <3>3 DEF Added
      <4> HIDE DEF q
      <4>2. Changes("lsqs", value)
        BY <4>1
      <4> HIDE DEF Changes, value
      <4> QED
        BY <4>2
    <3>4. CASE b.op = "sim_anneal"
      <4> DEFINE value == <<>>
      <4>1. q = [parsed EXCEPT !["anneal"] = value]
        BY <3>1, <3>4 DEF Added
      <4> HIDE DEF q
      <4>2. Changes("anneal", value)
        BY <3>4, <4>1
      <4> HIDE DEF Changes, value
      <4> QED
        BY <4>2
    <3>5. CASE b.op = "sa_schedule"
      <4> DEFINE value == Append(parsed.anneal, <<b.temp, b.n>>)
      <4>1. q = [parsed EXCEPT !["anneal"] = value]
        BY <3>1, <3>5 DEF Added
      <4> HIDE DEF q
      <4>2. Changes("anneal", value)
        BY <3>5, <4>1
      <4> HIDE DEF Changes, value
      <4> QED
        BY <4>2
    <3>6. CASE b.op = "baysian_opt"
      <4> DEFINE value == BOMode(b.attrs)
      <4>1. q = [parsed EXCEPT !["bo"] = value]
        BY <3>1, <3>6 DEF Added
      <4> HIDE DEF q
      <4>2. Changes("bo", value)
        BY <3>6, <4>1
      <4> HIDE DEF Changes, value
      <4> QED
        BY <4>2
    <3>7. CASE b.op = "snapshot"
      <4> DEFINE value == <<b.start, b.freq>>
      <4>1. q = [parsed EXCEPT !["snapshot"] = value]
        BY <3>1, <3>7 DEF Added
      <4> HIDE DEF q
      <4>2. Changes("snapshot", value)
        BY <4>1
      <4> HIDE DEF Changes, value
      <4> QED
        BY <4>2
    <3> QED
      BY <1>11, <3>2, <3>3, <3>4, <3>5, <3>6, <3>7, BodyOf
  <2>1. PICK v : Changes(x, v)
    BY <2>0
  <2> HIDE DEF q
  <2>2. x \in Fields /\ x \notin {"params", "patterns", "errs"}
    BY DEF Fields
  <2>3. /\ IsRegistry(q) /\ q[x] = v
        /\ \A y \in Fields : y # x => q[y] = parsed[y]
    <3>1. /\ DOMAIN q = Fields /\ q[x] = v
          /\ \A y \in Fields : y # x => q[y] = parsed[y]
      BY <1>3, <2>1, <2>2 DEF IsRegistry
    <3> QED
      BY <1>3, <2>2, <3>1, WithField
  <2>4. q.params = r.params /\ q.patterns = r.patterns /\ (q.errs = 0 => r.errs = 0)
    BY <1>4, <2>2, <2>3 DEF Fields
  <2>5. r.nois \subseteq q.nois /\ r.lsqs \subseteq q.lsqs
    <3>1. "nois" \in Fields /\ "lsqs" \in Fields
      BY DEF Fields
    <3>2. r.nois \subseteq q.nois
      BY <1>4, <2>1, <2>3, <3>1
    <3>3. r.lsqs \subseteq q.lsqs
      BY <1>4, <2>1, <2>3, <3>1
    <3> QED
      BY <3>2, <3>3
  <2>6. Grows(r, q)
    BY <1>5, <2>4, <2>5 DEF Grows
  <2>7. OneOptimizer(q)
    <3>1. \A name : FindParameter(q, name) = FindParameter(r, name)
      BY <2>4 DEF FindParameter
    <3>2. "anneal" \in Fields /\ "bo" \in Fields
      BY DEF Fields
    <3>3. CASE x = "anneal"
      <4>1. q.bo = r.bo
        BY <1>4, <2>3, <3>2, <3>3
      <4>2. r.bo = "none" /\ FindParameter(r, "EVAL") # 0
        <5>1. CASE b.op = "sim_anneal"
          BY <1>11, <5>1 DEF Refused, RefuseSimAnneal
        <5>2. CASE b.op = "sa_schedule"
          BY <1>1, <1>11, <5>2 DEF Refused, RefuseAdd2SASched, OneOptimizer
        <5> QED
          BY <2>1, <3>3, <5>1, <5>2
      <4> QED
        BY <3>1, <4>1, <4>2 DEF OneOptimizer
    <3>4. CASE x = "bo"
      <4>1. q.anneal = r.anneal
        BY <1>4, <2>3, <3>2, <3>4
      <4>2. r.anneal = NoAnneal /\ FindParameter(r, "OBJECTIVE") # 0
        BY <1>11, <2>1, <3>4 DEF Refused, RefuseBO
      <4> QED
        BY <3>1, <4>1, <4>2 DEF OneOptimizer
    <3>5. CASE x \notin {"anneal", "bo"}
      <4>1. q.anneal = r.anneal /\ q.bo = r.bo
        BY <1>4, <2>3, <3>2, <3>5
      <4> QED
        BY <1>1, <3>1, <4>1 DEF OneOptimizer
    <3> QED
      BY <3>3, <3>4, <3>5
  <2>8. \A j : j \in Len(r.patterns) + 1 .. Len(q.patterns) => FALSE
    BY <1>1, <2>4, RegistrySeqs
  <2> QED
    BY <2>3, <2>4, <2>6, <2>7, <2>8, OthersAdded DEF q
<1> QED
  BY <1>7, <1>8, <1>9, <1>10, <1>11


RegistryInv == RegistryOK(registry) /\ (pc = "accepted" => registry.errs = 0)

LEMMA EmptyOK == RegistryOK(EmptyRegistry)
<1> DEFINE r == EmptyRegistry
<1>1. DOMAIN r = Fields
  BY DEF EmptyRegistry, Fields
<1>2. /\ r.params = <<>> /\ r.patterns = <<>> /\ r.errs = 0 /\ r.anneal = NoAnneal
      /\ r.bo = "none"
  BY DEF EmptyRegistry
<1>3. <<>> \in Seq(Params) /\ <<>> \in Seq(Patterns) /\ DOMAIN <<>> = {}
  OBVIOUS
<1> HIDE DEF r
<1>4. IsRegistry(r)
  BY <1>1, <1>2, <1>3 DEF IsRegistry
<1>5. Unique(r) /\ Clean(r) /\ OneOptimizer(r)
  BY <1>2, <1>3 DEF Unique, Clean, OneOptimizer
<1> QED
  BY <1>2, <1>3, <1>4, <1>5 DEF RegistryOK, r

\* The body of a pragma that is not an include.
LEMMA PragmaBody ==
    ASSUME NEW statement \in LineStart, statement.kind = "PRAGMA", ~IsInclude(statement)
    PROVE  statement.body \in Bodies
  BY DEF LineStart, Whole, Part, IsInclude

LEMMA RegistryInvInit == Init => RegistryInv
  BY EmptyOK DEF Init, RegistryInv

LEMMA RegistryInvStep == DeckInv /\ RegistryInv /\ [Next]_vars => RegistryInv'
<1> SUFFICES ASSUME DeckInv, RegistryInv, [Next]_vars PROVE RegistryInv'
  OBVIOUS
<1>1. RegistryOK(registry) /\ open \in LineStart \cup {NoStatement}
  BY DEF RegistryInv, DeckInv, StackOK
<1>2. registry.errs \in Nat
  BY <1>1 DEF RegistryOK, IsRegistry
<1>3. RegistryOK([registry EXCEPT !.errs = @ + 1])
  BY <1>1, ErrorKeeps
<1>4. CASE \/ ReadText \/ BlankLine \/ BeginStatement \/ ContinueStatement \/ EndOfFile
           \/ UNCHANGED vars
  BY <1>4 DEF RegistryInv, ReadText, BlankLine, BeginStatement, ContinueStatement, EndOfFile, vars
<1>5. CASE ReadSubstitution
  BY <1>1, <1>3, <1>5 DEF RegistryInv, ReadSubstitution
<1>6. CASE EndStatement
  <2>1. pc = "reading" /\ open # NoStatement
    BY <1>6 DEF EndStatement
  <2>2. CASE IsInclude(open)
    BY <1>1, <1>3, <1>6, <2>1, <2>2 DEF RegistryInv, EndStatement, StartInclude
  <2>3. CASE ~IsInclude(open)
    <3>1. /\ registry' = IF open.kind = "PRAGMA" THEN Define(registry, open.body) ELSE registry
          /\ pc' \in {"aborted", "ended", "reading"}
      BY <1>6, <2>1, <2>3 DEF EndStatement
    <3>2. open.kind = "PRAGMA" => RegistryOK(Define(registry, open.body))
      BY <1>1, <2>1, <2>3, PragmaBody, DefineKeeps
    <3> QED
      BY <1>1, <3>1, <3>2 DEF RegistryInv
  <2> QED
    BY <2>2, <2>3
<1>7. CASE SyntaxError
  BY <1>7 DEF RegistryInv, SyntaxError
<1>8. CASE Finish
  <2>1. registry' = registry /\ pc' = IF registry.errs > 0 THEN "refused" ELSE "accepted"
    BY <1>8 DEF Finish
  <2>2. pc' = "accepted" => registry.errs = 0
    BY <1>2, <2>1
  <2> QED
    BY <1>1, <2>1, <2>2 DEF RegistryInv
<1> QED
  BY <1>4, <1>5, <1>6, <1>7, <1>8 DEF Next

\* The registry is sound after any sequence of pragmas, whatever their errors
\* (define_param_constant() to define_bo()).
THEOREM RegistrySound == Spec => [](DeckInv /\ RegistryInv)
<1>1. Init => DeckInv /\ RegistryInv
  BY DeckInvInit, RegistryInvInit
<1>2. DeckInv /\ RegistryInv /\ [Next]_vars => (DeckInv /\ RegistryInv)'
  BY DeckInvStep, RegistryInvStep
<1> QED
  BY <1>1, <1>2, PTL DEF Spec

\* The first three parts of AcceptedIsSound.
LEMMA SoundNames ==
    ASSUME RegistryInv, pc = "accepted"
    PROVE  NamesUnique /\ RefersBack /\ OptimizerReady
<1>1. RegistryOK(registry) /\ Clean(registry)
  BY DEF RegistryInv, RegistryOK
<1>2. NamesUnique
  BY <1>1 DEF NamesUnique, RegistryOK, Unique
<1>3. RefersBack
  <2> SUFFICES ASSUME NEW i \in DOMAIN registry.params, registry.params[i].kind = "expr"
               PROVE  ExprErrors(PrefixOf(i - 1), registry.params[i].body.expr) = 0
    BY DEF RefersBack
  <2>1. PrefixOf(i - 1) = FirstParams(registry, i - 1)
    BY DEF PrefixOf, FirstParams
  <2>2. NullNodes(FirstParams(registry, i - 1), registry.params[i].body.expr) = {}
    BY <1>1 DEF Clean, ParamClean
  <2> QED
    BY <2>1, <2>2, FS_EmptySet DEF ExprErrors
<1>4. OptimizerReady
  BY <1>1 DEF OptimizerReady, RegistryOK, OneOptimizer
<1> QED
  BY <1>2, <1>3, <1>4


(***************************************************************************)
(* Evaluation                                                              *)
(***************************************************************************)
Values == Int \cup {NoValue}

LEMMA ValuesFinite ==
    /\ Exit \notin Values
    /\ \A v \in Values : IsFinite(v) => v \in Int
    /\ Int \subseteq Values /\ NoValue \in Values
  BY RegistryAssumption DEF Values, IsFinite

LEMMA Func1Typed ==
    ASSUME NEW name \in {"isfinite", "abs", "not_op"}, NEW v \in Values
    PROVE  Func1(name, v) \in Values
<1>1. v # Exit
  BY ValuesFinite
<1>2. CASE name = "isfinite"
  BY <1>1, <1>2 DEF Func1, Values
<1>3. CASE name = "not_op"
  BY <1>1, <1>3 DEF Func1, Values
<1>4. CASE name = "abs"
  BY <1>1, <1>4 DEF Func1, Values
<1> QED
  BY <1>2, <1>3, <1>4

LEMMA BinaryTyped ==
    ASSUME NEW op \in Arithmetic \cup Comparisons, NEW l \in Int, NEW r \in Int
    PROVE  Binary(op, l, r) \in Values
<1> DEFINE truth(b) == IF b THEN 1 ELSE 0
<1>1. \A b \in BOOLEAN : truth(b) \in Values
  BY DEF Values
<1>2. CASE op \in {"addition", "subtraction", "multiplication"}
  <2>1. l + r \in Values /\ l - r \in Values /\ l * r \in Values
    BY DEF Values
  <2> QED
    BY <1>2, <2>1 DEF Binary
<1>3. CASE op = "division"
  <2>1. Binary(op, l, r) = IF r = 0 THEN NoValue ELSE IF r > 0 THEN l \div r ELSE (-l) \div (-r)
    BY <1>3 DEF Binary
  <2>2. r > 0 => l \div r \in Int
    OBVIOUS
  <2>3. r < 0 => (-l) \div (-r) \in Int
    OBVIOUS
  <2>4. r = 0 \/ r > 0 \/ r < 0
    OBVIOUS
  <2> QED
    BY <2>1, <2>2, <2>3, <2>4 DEF Values
<1>4. CASE op \in {"comp_eq", "comp_ne", "comp_gt", "comp_ge", "comp_lt", "comp_le"}
  <2>1. Binary(op, l, r) \in {0, 1}
    BY <1>4 DEF Binary
  <2> QED
    BY <2>1 DEF Values
<1> QED
  BY <1>2, <1>3, <1>4 DEF Arithmetic, Comparisons

\* The parameters that a node refers to have the same value in both.
NodeAgree(r, node, c, d) ==
    /\ node.op = "p_reference" => /\ c[FindParameter(r, node.name)] = d[FindParameter(r, node.name)]
                                  /\ c[FindParameter(r, node.name)] \in Values
    /\ node.op = "function1" => node.name \in Func1Tab

LEMMA NodeValues ==
    ASSUME NEW r, NEW node \in Node, NEW c, NEW d, NodeAgree(r, node, c, d), NEW before,
           Len(node.args) = Arity(node.op),
           \A a \in DOMAIN node.args : before[node.args[a]] \in Values
    PROVE  /\ NodeValue(r, node, before, c) = NodeValue(r, node, before, d)
           /\ NodeValue(r, node, before, c) \in Values
<1> DEFINE arg(i) == before[node.args[i]]
           Same == /\ NodeValue(r, node, before, c) = NodeValue(r, node, before, d)
                   /\ NodeValue(r, node, before, c) \in Values
<1>1. node.args \in Seq(Nat) /\ DOMAIN node.args = 1 .. Arity(node.op)
      /\ \A i \in 1 .. Arity(node.op) : arg(i) \in Values
  BY DEF Node
<1>2. /\ node.op \in {"constant", "p_reference", "function2", "test_select"}
                       \cup Func1Ops \cup Arithmetic \cup Comparisons
      /\ node.value \in Numbers
  BY DEF Node
<1>3. /\ Func1Ops = {"function1", "not_op"}
      /\ Arithmetic = {"addition", "subtraction", "multiplication", "division"}
      /\ Comparisons = {"comp_eq", "comp_ne", "comp_gt", "comp_ge", "comp_lt", "comp_le"}
  BY DEF Func1Ops, Arithmetic, Comparisons
<1> HIDE DEF arg
<1>4. CASE node.op = "constant"
  <2>1. NodeValue(r, node, before, c) = node.value /\ NodeValue(r, node, before, d) = node.value
    BY <1>3, <1>4 DEF NodeValue
  <2>2. Numbers \subseteq Values
    BY DEF Numbers, Finite, Values
  <2> QED
    BY <1>2, <2>1, <2>2
<1>5. CASE node.op = "p_reference"
  <2>1. /\ NodeValue(r, node, before, c) = c[FindParameter(r, node.name)]
        /\ NodeValue(r, node, before, d) = d[FindParameter(r, node.name)]
    BY <1>3, <1>5 DEF NodeValue
  <2> QED
    BY <1>5, <2>1 DEF NodeAgree
<1>6. CASE node.op \in {"function1", "not_op"}
  <2>1. Arity(node.op) = 1
    BY <1>3, <1>6 DEF Arity
  <2>2. arg(1) \in Values
    BY <1>1, <2>1
  <2> DEFINE name == IF node.op = "not_op" THEN "not_op" ELSE node.name
  <2>3. name \in {"isfinite", "abs", "not_op"}
    BY <1>6 DEF NodeAgree, Func1Tab
  <2>4. /\ NodeValue(r, node, before, c) = Func1(name, arg(1))
        /\ NodeValue(r, node, before, d) = Func1(name, arg(1))
    BY <1>3, <1>6 DEF NodeValue, arg
  <2> HIDE DEF name
  <2> QED
    BY <2>2, <2>3, <2>4, Func1Typed
<1>7. CASE node.op = "function2"
  <2>1. Arity(node.op) = 1
    BY <1>3, <1>7 DEF Arity
  <2>2. arg(1) # Exit
    BY <1>1, <2>1, ValuesFinite
  <2> DEFINE result == IF IsFinite(arg(1)) /\ node.name = "fit_ok" THEN 0 ELSE NoValue
  <2>3. NodeValue(r, node, before, c) = result /\ NodeValue(r, node, before, d) = result
    BY <1>3, <1>7, <2>2 DEF NodeValue, arg
  <2> QED
    BY <2>3, ValuesFinite
<1>8. CASE node.op = "test_select"
  <2>1. Arity(node.op) = 3
    BY <1>3, <1>8 DEF Arity
  <2>2. arg(1) \in Values /\ arg(2) \in Values /\ arg(3) \in Values
    BY <1>1, <2>1
  <2> DEFINE result == IF ~IsFinite(arg(1)) THEN arg(1) ELSE IF arg(1) > 0 THEN arg(2) ELSE arg(3)
  <2>3. NodeValue(r, node, before, c) = result /\ NodeValue(r, node, before, d) = result
    BY <1>3, <1>8 DEF NodeValue, arg
  <2> QED
    BY <2>2, <2>3
<1>9. CASE node.op \in Arithmetic \cup Comparisons
  <2>1. Arity(node.op) = 2
    BY <1>3, <1>9 DEF Arity
  <2>2. arg(1) \in Values /\ arg(2) \in Values
    BY <1>1, <2>1
  <2> DEFINE result == IF node.op \in Comparisons /\ arg(2) = Exit THEN Exit
                       ELSE IF ~IsFinite(arg(1)) THEN arg(1)
                       ELSE IF ~IsFinite(arg(2)) THEN arg(2)
                       ELSE Binary(node.op, arg(1), arg(2))
  <2>3. NodeValue(r, node, before, c) = result /\ NodeValue(r, node, before, d) = result
    BY <1>3, <1>9 DEF NodeValue, arg
  <2>4. IsFinite(arg(1)) /\ IsFinite(arg(2)) => Binary(node.op, arg(1), arg(2)) \in Values
    BY <1>9, <2>2, ValuesFinite, BinaryTyped
  <2>5. result \in Values
    BY <2>2, <2>4, ValuesFinite
  <2> HIDE DEF result
  <2> QED
    BY <2>3, <2>5
<1> QED
  BY <1>2, <1>3, <1>4, <1>5, <1>6, <1>7, <1>8, <1>9

\* get_value() satisfies its equations.
Evaluates(values, r, e, current) ==
    /\ values[0] = <<>>
    /\ \A k \in 1 .. Len(e) :
          values[k] = Append(values[k - 1], NodeValue(r, e[k], values[k - 1], current))
    /\ GetValue(r, e, current) = Last(values[Len(e)])

LEMMA GetValueSolves ==
    ASSUME NEW r, NEW e, Len(e) \in Nat, NEW current
    PROVE  \E values : Evaluates(values, r, e, current)
<1> DEFINE n == Len(e)
           Step(k, before) == Append(before, NodeValue(r, e[k], before, current))
           Q(m, f) == f = [k \in 0 .. m |-> IF k = 0 THEN <<>> ELSE Step(k, f[k - 1])]
           T == {m \in Nat : \E f : Q(m, f)}
           values == CHOOSE f : Q(n, f)
<1>1. GetValue(r, e, current) = Last(values[n])
  BY DEF GetValue
<1>2. Q(n, values)
  <2>1. 0 \in T
    <3>1. Q(0, [k \in 0 .. 0 |-> <<>>])
      OBVIOUS
    <3> QED
      BY <3>1
  <2>2. ASSUME NEW m \in Nat, m \in T PROVE m + 1 \in T
    <3>1. PICK f : Q(m, f)
      BY <2>2
    <3> HIDE DEF Step
    <3> DEFINE h == [k \in 0 .. m + 1 |-> IF k = m + 1 THEN Step(m + 1, f[m]) ELSE f[k]]
    <3>2. ASSUME NEW k \in 0 .. m + 1
          PROVE  h[k] = IF k = 0 THEN <<>> ELSE Step(k, h[k - 1])
      <4>1. CASE k = m + 1
        <5>1. m \in 0 .. m + 1 /\ m # m + 1 /\ k # 0 /\ k - 1 = m
          BY <4>1
        <5>2. h[k] = Step(k, f[m]) /\ h[m] = f[m]
          BY <4>1, <5>1
        <5> QED
          BY <5>1, <5>2
      <4>2. CASE k # m + 1
        <5>1. k \in 0 .. m /\ h[k] = f[k]
          BY <4>2
        <5>2. k # 0 => k - 1 \in 0 .. m + 1 /\ k - 1 # m + 1 /\ h[k - 1] = f[k - 1]
          BY <5>1
        <5>3. f[k] = IF k = 0 THEN <<>> ELSE Step(k, f[k - 1])
          BY <3>1, <5>1
        <5> QED
          BY <5>1, <5>2, <5>3
      <4> QED
        BY <4>1, <4>2
    <3>3. h = [k \in 0 .. m + 1 |-> h[k]]
      OBVIOUS
    <3>4. Q(m + 1, h)
      <4> HIDE DEF h
      <4> QED
        BY <3>2, <3>3
    <3> HIDE DEF h, Q
    <3> QED
      BY <3>4
  <2>3. n \in T
    <3> HIDE DEF T, n
    <3> QED
      BY <2>1, <2>2, SetInduction DEF n
  <2> HIDE DEF Q, n
  <2> QED
    BY <2>3
<1>3. values[0] = <<>> /\ \A k \in 1 .. n : values[k] = Step(k, values[k - 1])
  <2>1. values = [k \in 0 .. n |-> IF k = 0 THEN <<>> ELSE Step(k, values[k - 1])]
    BY <1>2
  <2>2. n \in Nat
    OBVIOUS
  <2> HIDE DEF values, Step, n
  <2> QED
    BY <2>1, <2>2
<1> HIDE DEF values, Q, T
<1>4. Evaluates(values, r, e, current)
  BY <1>1, <1>3 DEF Evaluates
<1> QED
  BY <1>4

\* An expression has one value as long as those it refers to have.
LEMMA ValueOf ==
    ASSUME NEW r, NEW e \in Exprs, NEW c, NEW d,
           \A k \in DOMAIN e : NodeAgree(r, e[k], c, d)
    PROVE  GetValue(r, e, c) = GetValue(r, e, d) /\ GetValue(r, e, c) \in Values
<1> DEFINE n == Len(e)
<1>1. /\ e \in Seq(Node) /\ n \in Nat \ {0} /\ DOMAIN e = 1 .. n
      /\ \A k \in 1 .. n : /\ e[k] \in Node /\ Len(e[k].args) = Arity(e[k].op)
                           /\ \A a \in DOMAIN e[k].args : e[k].args[a] \in 1 .. k - 1
  <2>1. e \in Seq(Node) /\ e # <<>>
    BY DEF Exprs
  <2>2. Len(e) \in Nat \ {0} /\ DOMAIN e = 1 .. Len(e) /\ \A k \in 1 .. Len(e) : e[k] \in Node
    BY <2>1
  <2> QED
    BY <2>1, <2>2 DEF Exprs
<1>2. PICK v : Evaluates(v, r, e, c)
  BY <1>1, GetValueSolves
<1>3. PICK w : Evaluates(w, r, e, d)
  BY <1>1, GetValueSolves
<1> HIDE DEF n
<1> DEFINE T == {k \in Nat : k <= n => v[k] \in Seq(Values) /\ Len(v[k]) = k /\ w[k] = v[k]}
<1>4. 0 \in T
  <2>1. v[0] \in Seq(Values) /\ Len(v[0]) = 0 /\ w[0] = v[0]
    BY <1>2, <1>3 DEF Evaluates
  <2> QED
    BY <2>1
<1>5. ASSUME NEW k \in Nat, k \in T PROVE k + 1 \in T
  <2> SUFFICES ASSUME k + 1 <= n
               PROVE  /\ v[k + 1] \in Seq(Values) /\ Len(v[k + 1]) = k + 1
                      /\ w[k + 1] = v[k + 1]
    OBVIOUS
  <2>1. k + 1 \in 1 .. n /\ (k + 1) - 1 = k
    BY <1>1
  <2>2. v[k] \in Seq(Values) /\ Len(v[k]) = k /\ w[k] = v[k]
    BY <1>1, <1>5
  <2> DEFINE node == e[k + 1]
  <2>3. /\ v[k + 1] = Append(v[k], NodeValue(r, node, v[k], c))
        /\ w[k + 1] = Append(v[k], NodeValue(r, node, v[k], d))
    BY <1>2, <1>3, <2>1, <2>2 DEF Evaluates, n
  <2>4. \A a \in DOMAIN node.args : v[k][node.args[a]] \in Values
    <3>1. \A a \in DOMAIN node.args : node.args[a] \in 1 .. k
      BY <1>1, <2>1
    <3>2. \A i \in 1 .. k : v[k][i] \in Values
      BY <2>2
    <3> QED
      BY <3>1, <3>2
  <2>5. node \in Node /\ Len(node.args) = Arity(node.op) /\ NodeAgree(r, node, c, d)
    BY <1>1, <2>1
  <2> HIDE DEF node
  <2>6. /\ NodeValue(r, node, v[k], c) = NodeValue(r, node, v[k], d)
        /\ NodeValue(r, node, v[k], c) \in Values
    BY <2>4, <2>5, NodeValues
  <2> QED
    BY <2>2, <2>3, <2>6
<1>6. n \in T
  <2> HIDE DEF T
  <2> QED
    BY <1>1, <1>4, <1>5, SetInduction
<1>7. v[n] \in Seq(Values) /\ Len(v[n]) = n /\ w[n] = v[n]
  BY <1>1, <1>6
<1>8. Last(v[n]) \in Values
  BY <1>1, <1>7 DEF Last
<1> QED
  BY <1>2, <1>3, <1>7, <1>8 DEF Evaluates, n


\* get_cur_value() satisfies its equations.
Pulled(cur, r, left, locked, i) ==
    IF left = 0 \/ (r.params[i].kind = "expr" /\ i \in locked) THEN Exit
    ELSE OwnValue(r, r.params[i], cur[left - 1][locked \cup {i}])
Pulls(cur, r) ==
    /\ \A left \in 0 .. Len(r.params) : \A locked \in SUBSET DOMAIN r.params :
          \A i \in DOMAIN r.params : cur[left][locked][i] = Pulled(cur, r, left, locked, i)
    /\ CurValues(r) = cur[Len(r.params)][{}]

LEMMA PullsAt ==
    ASSUME NEW cur, NEW r, Pulls(cur, r), NEW left \in 0 .. Len(r.params),
           NEW locked \in SUBSET DOMAIN r.params, NEW i \in DOMAIN r.params
    PROVE  cur[left][locked][i] = Pulled(cur, r, left, locked, i)
  BY DEF Pulls

LEMMA CurValuesSolves ==
    ASSUME NEW r, Len(r.params) \in Nat
    PROVE  \E cur : Pulls(cur, r)
<1> DEFINE n == Len(r.params)
           D == DOMAIN r.params
           Step(left, prev) ==
               [locked \in SUBSET D |-> [i \in D |->
                   IF left = 0 \/ (r.params[i].kind = "expr" /\ i \in locked) THEN Exit
                   ELSE OwnValue(r, r.params[i], prev[locked \cup {i}])]]
           Q(m, f) == f = [k \in 0 .. m |-> Step(k, f[k - 1])]
           T == {m \in Nat : \E f : Q(m, f)}
           cur == CHOOSE f : Q(n, f)
<1>1. CurValues(r) = cur[n][{}]
  BY DEF CurValues
<1>2. \A x, y : Step(0, x) = Step(0, y)
  OBVIOUS
<1>3. Q(n, cur)
  <2> HIDE DEF Step
  <2>1. 0 \in T
    <3> DEFINE h == [k \in 0 .. 0 |-> Step(0, <<>>)]
    <3>1. h = [k \in 0 .. 0 |-> Step(k, h[k - 1])]
      <4>1. \A k \in 0 .. 0 : h[k] = Step(k, h[k - 1])
        BY <1>2
      <4>2. h = [k \in 0 .. 0 |-> h[k]]
        OBVIOUS
      <4> HIDE DEF h
      <4> QED
        BY <4>1, <4>2
    <3> HIDE DEF h
    <3> QED
      BY <3>1
  <2>2. ASSUME NEW m \in Nat, m \in T PROVE m + 1 \in T
    <3>1. PICK f : Q(m, f)
      BY <2>2
    <3> DEFINE h == [k \in 0 .. m + 1 |-> IF k = m + 1 THEN Step(m + 1, f[m]) ELSE f[k]]
    <3>2. ASSUME NEW k \in 0 .. m + 1
          PROVE  h[k] = Step(k, h[k - 1])
      <4>1. CASE k = m + 1
        <5>1. m \in 0 .. m + 1 /\ m # m + 1 /\ k - 1 = m
          BY <4>1
        <5>2. h[k] = Step(k, f[m]) /\ h[m] = f[m]
          BY <4>1, <5>1
        <5> QED
          BY <5>1, <5>2
      <4>2. CASE k # m + 1
        <5>1. k \in 0 .. m /\ h[k] = f[k]
          BY <4>2
        <5>2. f[k] = Step(k, f[k - 1])
          BY <3>1, <5>1
        <5>3. CASE k = 0
          <6> HIDE DEF h
          <6> QED
            BY <1>2, <5>1, <5>2, <5>3
        <5>4. CASE k # 0
          <6>1. k - 1 \in 0 .. m + 1 /\ k - 1 # m + 1 /\ h[k - 1] = f[k - 1]
            BY <5>1, <5>4
          <6> QED
            BY <5>1, <5>2, <6>1
        <5> QED
          BY <5>3, <5>4
      <4> QED
        BY <4>1, <4>2
    <3>3. h = [k \in 0 .. m + 1 |-> h[k]]
      OBVIOUS
    <3>4. Q(m + 1, h)
      <4> HIDE DEF h
      <4> QED
        BY <3>2, <3>3
    <3> HIDE DEF h, Q
    <3> QED
      BY <3>4
  <2>3. n \in T
    <3> HIDE DEF T, n
    <3> QED
      BY <2>1, <2>2, SetInduction DEF n
  <2> HIDE DEF Q, n
  <2> QED
    BY <2>3
<1>4. \A left \in 0 .. n : cur[left] = Step(left, cur[left - 1])
  <2>1. cur = [k \in 0 .. n |-> Step(k, cur[k - 1])]
    BY <1>3
  <2> HIDE DEF cur, Step, n
  <2> QED
    BY <2>1
<1> HIDE DEF cur, Q, T
<1>5. ASSUME NEW left \in 0 .. n, NEW locked \in SUBSET D, NEW i \in D
      PROVE  cur[left][locked][i] = Pulled(cur, r, left, locked, i)
  <2> DEFINE prev == cur[left - 1]
  <2>1. cur[left] = Step(left, prev)
    BY <1>4
  <2> HIDE DEF prev, n
  <2>2. cur[left][locked] =
            [j \in D |->
                IF left = 0 \/ (r.params[j].kind = "expr" /\ j \in locked) THEN Exit
                ELSE OwnValue(r, r.params[j], prev[locked \cup {j}])]
    BY <2>1
  <2>3. cur[left][locked][i] =
            IF left = 0 \/ (r.params[i].kind = "expr" /\ i \in locked) THEN Exit
            ELSE OwnValue(r, r.params[i], prev[locked \cup {i}])
    BY <2>2
  <2> QED
    BY <2>3 DEF prev, Pulled
<1>6. Pulls(cur, r)
  BY <1>1, <1>5 DEF Pulls
<1> QED
  BY <1>6

InOrder(upto, r) ==
    /\ upto[0] = <<>>
    /\ \A k \in 1 .. Len(r.params) :
          upto[k] = Append(upto[k - 1], OwnValue(r, r.params[k], upto[k - 1]))
    /\ ValuesInOrder(r) = upto[Len(r.params)]

LEMMA ValuesInOrderSolves ==
    ASSUME NEW r, Len(r.params) \in Nat
    PROVE  \E upto : InOrder(upto, r)
<1> DEFINE n == Len(r.params)
           Step(k, before) == Append(before, OwnValue(r, r.params[k], before))
           Q(m, f) == f = [k \in 0 .. m |-> IF k = 0 THEN <<>> ELSE Step(k, f[k - 1])]
           T == {m \in Nat : \E f : Q(m, f)}
           upto == CHOOSE f : Q(n, f)
<1>1. ValuesInOrder(r) = upto[n]
  BY DEF ValuesInOrder
<1>2. Q(n, upto)
  <2>1. 0 \in T
    <3>1. Q(0, [k \in 0 .. 0 |-> <<>>])
      OBVIOUS
    <3> QED
      BY <3>1
  <2>2. ASSUME NEW m \in Nat, m \in T PROVE m + 1 \in T
    <3>1. PICK f : Q(m, f)
      BY <2>2
    <3> HIDE DEF Step
    <3> DEFINE h == [k \in 0 .. m + 1 |-> IF k = m + 1 THEN Step(m + 1, f[m]) ELSE f[k]]
    <3>2. ASSUME NEW k \in 0 .. m + 1
          PROVE  h[k] = IF k = 0 THEN <<>> ELSE Step(k, h[k - 1])
      <4>1. CASE k = m + 1
        <5>1. m \in 0 .. m + 1 /\ m # m + 1 /\ k # 0 /\ k - 1 = m
          BY <4>1
        <5>2. h[k] = Step(k, f[m]) /\ h[m] = f[m]
          BY <4>1, <5>1
        <5> QED
          BY <5>1, <5>2
      <4>2. CASE k # m + 1
        <5>1. k \in 0 .. m /\ h[k] = f[k]
          BY <4>2
        <5>2. k # 0 => k - 1 \in 0 .. m + 1 /\ k - 1 # m + 1 /\ h[k - 1] = f[k - 1]
          BY <5>1
        <5>3. f[k] = IF k = 0 THEN <<>> ELSE Step(k, f[k - 1])
          BY <3>1, <5>1
        <5> QED
          BY <5>1, <5>2, <5>3
      <4> QED
        BY <4>1, <4>2
    <3>3. h = [k \in 0 .. m + 1 |-> h[k]]
      OBVIOUS
    <3>4. Q(m + 1, h)
      <4> HIDE DEF h
      <4> QED
        BY <3>2, <3>3
    <3> HIDE DEF h, Q
    <3> QED
      BY <3>4
  <2>3. n \in T
    <3> HIDE DEF T, n
    <3> QED
      BY <2>1, <2>2, SetInduction DEF n
  <2> HIDE DEF Q, n
  <2> QED
    BY <2>3
<1>3. upto[0] = <<>> /\ \A k \in 1 .. n : upto[k] = Step(k, upto[k - 1])
  <2>1. upto = [k \in 0 .. n |-> IF k = 0 THEN <<>> ELSE Step(k, upto[k - 1])]
    BY <1>2
  <2>2. n \in Nat
    OBVIOUS
  <2> HIDE DEF upto, Step, n
  <2> QED
    BY <2>1, <2>2
<1> HIDE DEF upto, Q, T
<1>4. InOrder(upto, r)
  BY <1>1, <1>3 DEF InOrder
<1> QED
  BY <1>4

\* What a clean expression refers to is a parameter before it.
LEMMA RefersTo ==
    ASSUME NEW r, IsRegistry(r), Unique(r), NEW n \in 0 .. Len(r.params), NEW e,
           NullNodes(FirstParams(r, n), e) = {}, NEW k \in DOMAIN e
    PROVE  /\ e[k].op = "p_reference" => FindParameter(r, e[k].name) \in 1 .. n
           /\ e[k].op = "function1" => e[k].name \in Func1Tab
<1>1. ~NullNode(FirstParams(r, n), e[k])
  BY DEF NullNodes
<1>2. ASSUME e[k].op = "p_reference" PROVE FindParameter(r, e[k].name) \in 1 .. n
  <2> DEFINE q == FirstParams(r, n)
             name == e[k].name
             j == FindParameter(r, name)
  <2>1. FindParameter(q, name) # 0
    BY <1>1, <1>2 DEF NullNode
  <2>2. Len(q.params) = n /\ \A i \in 1 .. n : q.params[i] = r.params[i]
    BY FirstParamsAre
  <2> HIDE DEF q
  <2>3. PICK i \in 1 .. n : r.params[i].name = name
    BY <2>1, <2>2, Found
  <2>4. Len(r.params) \in Nat /\ DOMAIN r.params = 1 .. Len(r.params)
    BY RegistrySeqs
  <2>5. i \in 1 .. Len(r.params)
    BY <2>3, <2>4
  <2>6. j \in 0 .. Len(r.params) /\ j # 0 /\ r.params[j].name = name
    BY <2>3, <2>4, <2>5, Found
  <2>7. j \in 1 .. Len(r.params)
    BY <2>4, <2>6
  <2> HIDE DEF j
  <2>8. j = i
    BY <2>3, <2>4, <2>5, <2>6, <2>7 DEF Unique
  <2> QED
    BY <2>3, <2>8 DEF j
<1>3. ASSUME e[k].op = "function1" PROVE e[k].name \in Func1Tab
  BY <1>1, <1>3 DEF NullNode
<1> QED
  BY <1>2, <1>3

LEMMA ParamIs ==
    ASSUME NEW p \in Params
    PROVE  /\ p.body \in Bodies /\ p = Parameter(p.body) /\ p.kind = p.body.op /\ p.name = p.body.name
           /\ p.kind \in {"const", "expr", "scan", "pwl"}
           /\ p.lo \in Int /\ p.hi \in Int
           /\ p.kind = "const" => p.lo = VMin(p.body) /\ p.hi = VMax(p.body) /\ p.lo < p.hi
                                  /\ Below(VMin(p.body), VMax(p.body))
<1>1. PICK b \in ParamBodies : p = Parameter(b)
  BY DEF Params
<1>2. b \in Bodies /\ b.op \in {"const", "expr", "scan", "pwl"}
  BY DEF ParamBodies
<1>3. p.body = b /\ p.kind = b.op /\ p.name = b.name
      /\ p.lo = (IF b.op = "pwl" THEN -Unbounded ELSE VMin(b))
      /\ p.hi = (IF b.op = "pwl" THEN Unbounded ELSE VMax(b))
  BY <1>1 DEF Parameter
<1>4. ASSUME b.op # "pwl"
      PROVE  /\ Below(VMin(b), VMax(b))
             /\ VMin(b) \in Int /\ VMax(b) \in Int /\ VMin(b) < VMax(b)
  <2>1. b.range \in Ranges
    BY <1>2, <1>4, BodyOf
  <2>2. ~Aborts(b)
    BY DEF ParamBodies
  <2>3. Below(VMin(b), VMax(b))
    <3>1. CASE b.op \in {"const", "expr"}
      BY <2>2, <3>1 DEF Aborts
    <3>2. CASE b.op = "scan"
      BY <2>2, <3>2 DEF Aborts
    <3> QED
      BY <1>2, <1>4, <3>1, <3>2
  <2> QED
    BY <2>1, <2>3, RangeTyped
<1> QED
  BY <1>1, <1>2, <1>3, <1>4 DEF Unbounded

\* The value of a parameter depends on those before it only.
LEMMA OwnValueOf ==
    ASSUME NEW r, IsRegistry(r), Unique(r), NEW i \in 1 .. Len(r.params), ParamClean(r, i),
           NEW c, NEW d, \A j \in 1 .. i - 1 : c[j] = d[j] /\ c[j] \in Values
    PROVE  /\ OwnValue(r, r.params[i], c) = OwnValue(r, r.params[i], d)
           /\ OwnValue(r, r.params[i], c) \in Values
<1> DEFINE p == r.params[i]
<1>1. p \in Params /\ Len(r.params) \in Nat
  BY RegistrySeqs
<1>2. /\ p.body \in Bodies /\ p.kind = p.body.op
      /\ p.kind \in {"const", "expr", "scan", "pwl"} /\ p.lo \in Int /\ p.hi \in Int
  BY <1>1, ParamIs
<1>3. CASE p.kind = "expr"
  <2> DEFINE e == p.body.expr
  <2>1. e \in Exprs
    BY <1>2, <1>3, BodyOf
  <2>2. NullNodes(FirstParams(r, i - 1), e) = {}
    BY <1>3 DEF ParamClean
  <2>3. i - 1 \in 0 .. Len(r.params)
    BY <1>1
  <2> HIDE DEF e
  <2>4. \A k \in DOMAIN e : NodeAgree(r, e[k], c, d)
    <3> SUFFICES ASSUME NEW k \in DOMAIN e PROVE NodeAgree(r, e[k], c, d)
      OBVIOUS
    <3>1. /\ e[k].op = "p_reference" => FindParameter(r, e[k].name) \in 1 .. i - 1
          /\ e[k].op = "function1" => e[k].name \in Func1Tab
      BY <2>2, <2>3, RefersTo
    <3> QED
      BY <3>1 DEF NodeAgree
  <2>5. GetValue(r, e, c) = GetValue(r, e, d) /\ GetValue(r, e, c) \in Values
    BY <2>1, <2>4, ValueOf
  <2>6. /\ OwnValue(r, p, c) = Clamp(p, GetValue(r, e, c))
        /\ OwnValue(r, p, d) = Clamp(p, GetValue(r, e, d))
    BY <1>3 DEF OwnValue, e
  <2>7. \A v \in Values : Clamp(p, v) \in Values
    BY <1>2, ValuesFinite DEF Clamp
  <2> QED
    BY <2>5, <2>6, <2>7
<1>4. CASE p.kind = "const"
  <2>1. p.body.value \in Numbers
    BY <1>2, <1>4, BodyOf
  <2>2. OwnValue(r, p, c) = p.body.value /\ OwnValue(r, p, d) = p.body.value
    BY <1>4 DEF OwnValue
  <2>3. Numbers \subseteq Values
    BY DEF Numbers, Finite, Values
  <2> QED
    BY <2>1, <2>2, <2>3
<1>5. CASE p.kind = "scan"
  <2>1. OwnValue(r, p, c) = p.lo /\ OwnValue(r, p, d) = p.lo
    BY <1>5 DEF OwnValue
  <2> QED
    BY <1>2, <2>1, ValuesFinite
<1>6. CASE p.kind = "pwl"
  <2>1. OwnValue(r, p, c) = NoValue /\ OwnValue(r, p, d) = NoValue
    BY <1>6 DEF OwnValue
  <2> QED
    BY <2>1, ValuesFinite
<1> QED
  BY <1>2, <1>3, <1>4, <1>5, <1>6

\* The pull evaluation gives every parameter the value it has in the order of
\* the deck, and never meets a lock.
LEMMA PullIsOrder ==
    ASSUME NEW r, IsRegistry(r), Unique(r), \A i \in 1 .. Len(r.params) : ParamClean(r, i)
    PROVE  \A i \in 1 .. Len(r.params) :
              CurValues(r)[i] = ValuesInOrder(r)[i] /\ CurValues(r)[i] \in Values
<1> DEFINE n == Len(r.params)
<1>1. n \in Nat /\ DOMAIN r.params = 1 .. n
  BY RegistrySeqs
<1>2. PICK cur : Pulls(cur, r)
  BY <1>1, CurValuesSolves
<1>3. PICK upto : InOrder(upto, r)
  BY <1>1, ValuesInOrderSolves
<1> DEFINE Agree(m, c) == \A i \in 1 .. m : c[i] = upto[m][i] /\ c[i] \in Values
           T == {m \in Nat : m <= n =>
                   /\ Len(upto[m]) = m /\ upto[m] \in Seq(Values)
                   /\ \A left \in m .. n, locked \in SUBSET (1 .. n) :
                         locked \cap (1 .. m) = {} => Agree(m, cur[left][locked])}
<1>4. 0 \in T
  <2>1. upto[0] = <<>>
    BY <1>3 DEF InOrder
  <2>2. Len(upto[0]) = 0 /\ upto[0] \in Seq(Values)
    BY <2>1
  <2>3. \A c : Agree(0, c)
    OBVIOUS
  <2> HIDE DEF Agree
  <2> QED
    BY <2>2, <2>3
<1>5. ASSUME NEW m \in Nat, m \in T PROVE m + 1 \in T
  <2> SUFFICES ASSUME m + 1 <= n
               PROVE  /\ Len(upto[m + 1]) = m + 1 /\ upto[m + 1] \in Seq(Values)
                      /\ \A left \in m + 1 .. n, locked \in SUBSET (1 .. n) :
                            locked \cap (1 .. m + 1) = {} => Agree(m + 1, cur[left][locked])
    OBVIOUS
  <2> DEFINE own == OwnValue(r, r.params[m + 1], upto[m])
  <2>1. /\ Len(upto[m]) = m /\ upto[m] \in Seq(Values)
        /\ \A left \in m .. n, locked \in SUBSET (1 .. n) :
              locked \cap (1 .. m) = {} => Agree(m, cur[left][locked])
    BY <1>1, <1>5
  <2>2. m + 1 \in 1 .. n /\ (m + 1) - 1 = m
    BY <1>1
  <2>3. upto[m + 1] = Append(upto[m], own)
    BY <1>3, <2>2 DEF InOrder
  <2>4. \A j \in 1 .. m : upto[m][j] \in Values
    BY <2>1
  <2>5. own \in Values
    BY <2>2, <2>4, OwnValueOf
  <2> HIDE DEF own
  <2>6. /\ Len(upto[m + 1]) = m + 1 /\ upto[m + 1] \in Seq(Values)
        /\ upto[m + 1][m + 1] = own /\ \A j \in 1 .. m : upto[m + 1][j] = upto[m][j]
    BY <2>1, <2>3, <2>5
  <2>7. ASSUME NEW left \in m + 1 .. n, NEW locked \in SUBSET (1 .. n),
               locked \cap (1 .. m + 1) = {}
        PROVE  Agree(m + 1, cur[left][locked])
    <3>1. left \in m .. n /\ left - 1 \in m .. n /\ left \in 0 .. n /\ left # 0
      BY <1>1
    <3>2. locked \cap (1 .. m) = {} /\ m + 1 \notin locked
          /\ (locked \cup {m + 1}) \cap (1 .. m) = {}
          /\ locked \cup {m + 1} \in SUBSET (1 .. n)
      BY <2>2, <2>7
    <3>3. Agree(m, cur[left][locked]) /\ Agree(m, cur[left - 1][locked \cup {m + 1}])
      BY <2>1, <3>1, <3>2
    <3>4. cur[left][locked][m + 1]
              = OwnValue(r, r.params[m + 1], cur[left - 1][locked \cup {m + 1}])
      <4>1. locked \in SUBSET DOMAIN r.params /\ m + 1 \in DOMAIN r.params
            /\ left \in 0 .. Len(r.params)
        BY <1>1, <2>2, <3>1
      <4>2. cur[left][locked][m + 1] = Pulled(cur, r, left, locked, m + 1)
        BY <1>2, <4>1, PullsAt
      <4> QED
        BY <3>1, <3>2, <4>2 DEF Pulled
    <3>5. OwnValue(r, r.params[m + 1], cur[left - 1][locked \cup {m + 1}]) = own
      <4> DEFINE c == cur[left - 1][locked \cup {m + 1}]
      <4>1. \A j \in 1 .. (m + 1) - 1 : c[j] = upto[m][j] /\ c[j] \in Values
        BY <2>2, <3>3
      <4>2. ParamClean(r, m + 1)
        BY <2>2
      <4> HIDE DEF c
      <4>3. OwnValue(r, r.params[m + 1], c) = OwnValue(r, r.params[m + 1], upto[m])
        BY <2>2, <4>1, <4>2, OwnValueOf
      <4> QED
        BY <4>3 DEF c, own
    <3>6. \A i \in 1 .. m + 1 : i \in 1 .. m \/ i = m + 1
      OBVIOUS
    <3> QED
      BY <2>5, <2>6, <3>3, <3>4, <3>5, <3>6
  <2> HIDE DEF Agree
  <2> QED
    BY <2>6, <2>7
<1>6. n \in T
  <2> HIDE DEF T, n
  <2> QED
    BY <1>1, <1>4, <1>5, SetInduction
<1>7. Agree(n, cur[n][{}])
  <2>1. n \in n .. n /\ {} \in SUBSET (1 .. n) /\ {} \cap (1 .. n) = {} /\ n <= n
    BY <1>1
  <2> HIDE DEF Agree, n
  <2> QED
    BY <1>6, <2>1
<1> QED
  BY <1>2, <1>3, <1>7 DEF Pulls, InOrder


LEMMA SoundPull ==
    ASSUME RegistryInv, pc = "accepted"
    PROVE  PullAgreesWithOrder
<1>1. RegistryOK(registry) /\ Clean(registry)
  BY DEF RegistryInv, RegistryOK
<1>2. IsRegistry(registry) /\ Unique(registry)
  BY <1>1 DEF RegistryOK
<1>3. DOMAIN registry.params = 1 .. Len(registry.params)
  BY <1>2, RegistrySeqs
<1>4. \A i \in 1 .. Len(registry.params) : ParamClean(registry, i)
  BY <1>1, <1>3 DEF Clean
<1>5. \A i \in 1 .. Len(registry.params) :
          CurValues(registry)[i] = ValuesInOrder(registry)[i] /\ CurValues(registry)[i] \in Values
  BY <1>2, <1>4, PullIsOrder
<1> QED
  BY <1>3, <1>5, ValuesFinite DEF PullAgreesWithOrder

\* The value of an expression whose references are all defined.
LEMMA ValueKnown ==
    ASSUME NEW r, IsRegistry(r), Unique(r), NEW e \in Exprs, NullNodes(r, e) = {},
           NEW c, \A j \in 1 .. Len(r.params) : c[j] \in Values
    PROVE  GetValue(r, e, c) \in Values
<1> DEFINE n == Len(r.params)
           q == FirstParams(r, n)
<1>1. n \in Nat /\ n \in 0 .. n
  BY RegistrySeqs
<1>2. /\ q.params \in Seq(Params) /\ Len(q.params) = n
      /\ \A k \in 1 .. n : q.params[k] = r.params[k]
      /\ q.patterns = r.patterns /\ q.nois = r.nois /\ q.lsqs = r.lsqs
  BY <1>1, FirstParamsAre
<1>3. r.patterns \in Seq(Patterns) /\ Len(r.patterns) \in Nat
  BY RegistrySeqs DEF IsRegistry
<1> HIDE DEF q
<1>4. Grows(r, q)
  BY <1>1, <1>2, <1>3 DEF Grows
<1>5. NullNodes(q, e) = {}
  BY <1>2, <1>3, <1>4, CleanStays
<1>6. \A k \in DOMAIN e : NodeAgree(r, e[k], c, c)
  <2> SUFFICES ASSUME NEW k \in DOMAIN e PROVE NodeAgree(r, e[k], c, c)
    OBVIOUS
  <2>1. /\ e[k].op = "p_reference" => FindParameter(r, e[k].name) \in 1 .. n
        /\ e[k].op = "function1" => e[k].name \in Func1Tab
    BY <1>1, <1>5, RefersTo DEF q
  <2> QED
    BY <2>1 DEF NodeAgree
<1> QED
  BY <1>6, ValueOf

\* get_times() satisfies its equations.
AddsTimes(acc, es) ==
    /\ acc[0] = [t_abs |-> 0, result |-> <<>>]
    /\ \A k \in 1 .. Len(es) : acc[k] = AddTime(acc[k - 1], es[k])
    /\ GetTimes(es) = acc[Len(es)].result

LEMMA GetTimesSolves ==
    ASSUME NEW es, Len(es) \in Nat
    PROVE  \E acc : AddsTimes(acc, es)
<1> DEFINE n == Len(es)
           start == [t_abs |-> 0, result |-> <<>>]
           Step(k, before) == AddTime(before, es[k])
           Q(m, f) == f = [k \in 0 .. m |-> IF k = 0 THEN start ELSE Step(k, f[k - 1])]
           T == {m \in Nat : \E f : Q(m, f)}
           acc == CHOOSE f : Q(n, f)
<1>1. GetTimes(es) = acc[n].result
  BY DEF GetTimes
<1> HIDE DEF start
<1>2. Q(n, acc)
  <2>1. 0 \in T
    <3>1. Q(0, [k \in 0 .. 0 |-> start])
      OBVIOUS
    <3> QED
      BY <3>1
  <2>2. ASSUME NEW m \in Nat, m \in T PROVE m + 1 \in T
    <3>1. PICK f : Q(m, f)
      BY <2>2
    <3> HIDE DEF Step
    <3> DEFINE h == [k \in 0 .. m + 1 |-> IF k = m + 1 THEN Step(m + 1, f[m]) ELSE f[k]]
    <3>2. ASSUME NEW k \in 0 .. m + 1
          PROVE  h[k] = IF k = 0 THEN start ELSE Step(k, h[k - 1])
      <4>1. CASE k = m + 1
        <5>1. m \in 0 .. m + 1 /\ m # m + 1 /\ k # 0 /\ k - 1 = m
          BY <4>1
        <5>2. h[k] = Step(k, f[m]) /\ h[m] = f[m]
          BY <4>1, <5>1
        <5> QED
          BY <5>1, <5>2
      <4>2. CASE k # m + 1
        <5>1. k \in 0 .. m /\ h[k] = f[k]
          BY <4>2
        <5>2. k # 0 => k - 1 \in 0 .. m + 1 /\ k - 1 # m + 1 /\ h[k - 1] = f[k - 1]
          BY <5>1
        <5>3. f[k] = IF k = 0 THEN start ELSE Step(k, f[k - 1])
          BY <3>1, <5>1
        <5> QED
          BY <5>1, <5>2, <5>3
      <4> QED
        BY <4>1, <4>2
    <3>3. h = [k \in 0 .. m + 1 |-> h[k]]
      OBVIOUS
    <3>4. Q(m + 1, h)
      <4> HIDE DEF h
      <4> QED
        BY <3>2, <3>3
    <3> HIDE DEF h, Q
    <3> QED
      BY <3>4
  <2>3. n \in T
    <3> HIDE DEF T, n
    <3> QED
      BY <2>1, <2>2, SetInduction DEF n
  <2> HIDE DEF Q, n
  <2> QED
    BY <2>3
<1>3. acc[0] = start /\ \A k \in 1 .. n : acc[k] = Step(k, acc[k - 1])
  <2>1. acc = [k \in 0 .. n |-> IF k = 0 THEN start ELSE Step(k, acc[k - 1])]
    BY <1>2
  <2>2. n \in Nat
    OBVIOUS
  <2> HIDE DEF acc, Step, n
  <2> QED
    BY <2>1, <2>2
<1> HIDE DEF acc, Q, T
<1>4. AddsTimes(acc, es)
  BY <1>1, <1>3 DEF AddsTimes, start
<1> QED
  BY <1>4

LEMMA GetTimesTyped ==
    ASSUME NEW es, Len(es) \in Nat, \A k \in 1 .. Len(es) : es[k].dt \in Int
    PROVE  GetTimes(es) \in Seq(Int)
<1>1. PICK acc : AddsTimes(acc, es)
  BY GetTimesSolves
<1> DEFINE n == Len(es)
           Typed(a) == a.t_abs \in Int /\ a.result \in Seq(Int)
           T == {m \in Nat : m <= n => Typed(acc[m])}
<1>2. 0 \in T
  <2>1. acc[0].t_abs = 0 /\ acc[0].result = <<>>
    BY <1>1 DEF AddsTimes
  <2>2. <<>> \in Seq(Int)
    OBVIOUS
  <2>3. Typed(acc[0])
    BY <2>1, <2>2
  <2> HIDE DEF Typed
  <2> QED
    BY <2>3
<1>3. ASSUME NEW m \in Nat, m \in T PROVE m + 1 \in T
  <2> SUFFICES ASSUME m + 1 <= n PROVE Typed(acc[m + 1])
    OBVIOUS
  <2>1. Typed(acc[m]) /\ m + 1 \in 1 .. n /\ (m + 1) - 1 = m
    BY <1>3
  <2>2. acc[m + 1] = AddTime(acc[m], es[m + 1]) /\ es[m + 1].dt \in Int
    BY <1>1, <2>1 DEF AddsTimes
  <2> DEFINE a == acc[m]
             te == es[m + 1]
             t == IF te.is_relative THEN a.t_abs + te.dt ELSE te.dt
  <2>3. t \in Int
    BY <2>1, <2>2
  <2>4. Append(a.result, t) \in Seq(Int)
    <3> HIDE DEF t, a
    <3> QED
      BY <2>1, <2>3 DEF a
  <2> HIDE DEF a, te
  <2>5. \/ AddTime(a, te) = a
        \/ AddTime(a, te) = [t_abs |-> t, result |-> a.result]
        \/ AddTime(a, te) = [t_abs |-> t, result |-> Append(a.result, t)]
    BY DEF AddTime
  <2> HIDE DEF t
  <2>6. Typed(AddTime(a, te))
    <3>1. Typed(a)
      BY <2>1 DEF a
    <3>2. Typed([t_abs |-> t, result |-> a.result])
          /\ Typed([t_abs |-> t, result |-> Append(a.result, t)])
      BY <2>3, <2>4, <3>1
    <3> HIDE DEF Typed
    <3> QED
      BY <2>5, <3>1, <3>2
  <2> QED
    BY <2>2, <2>6 DEF a, te
<1>4. n \in T
  <2> HIDE DEF T, n
  <2> QED
    BY <1>2, <1>3, SetInduction DEF n
<1> QED
  BY <1>1, <1>4 DEF AddsTimes


LEMMA Tabulated ==
    ASSUME NEW n \in Nat, NEW s, DOMAIN s = 1 .. n, s = [k \in 1 .. n |-> s[k]]
    PROVE  Len(s) = n
<1> DEFINE S == {s[k] : k \in 1 .. n}
<1>1. s \in [1 .. n -> S]
  <2>1. \A k \in 1 .. n : s[k] \in S
    OBVIOUS
  <2> HIDE DEF S
  <2> QED
    BY <2>1
<1> HIDE DEF S
<1>2. s \in Seq(S)
  BY <1>1
<1>3. Len(s) \in Nat /\ DOMAIN s = 1 .. Len(s)
  BY <1>2
<1> QED
  BY <1>3

LEMMA PatternTimesTyped ==
    ASSUME NEW r, IsRegistry(r), Unique(r), NEW name, FindPattern(r, name) # 0,
           \A j \in DOMAIN r.patterns : EntriesClean(r, j),
           NEW c, \A j \in 1 .. Len(r.params) : c[j] \in Values
    PROVE  PatternTimes(r, name, c) \in Seq(Int)
<1> DEFINE j == FindPattern(r, name)
           entries == r.patterns[j].entries
           n == Len(entries)
           dt(e) == LET v == GetValue(r, e.expr, c) IN IF IsFinite(v) THEN v ELSE -1
           es == [k \in DOMAIN entries |->
                    [dt |-> dt(entries[k]), is_relative |-> entries[k].is_relative]]
<1>1. j \in DOMAIN r.patterns /\ r.patterns[j] \in Patterns
  <2>1. Len(r.patterns) \in Nat /\ DOMAIN r.patterns = 1 .. Len(r.patterns)
        /\ \A i \in 1 .. Len(r.patterns) : r.patterns[i] \in Patterns
    BY RegistrySeqs
  <2>2. j \in 1 .. Len(r.patterns)
    BY <2>1, FoundPattern
  <2> QED
    BY <2>1, <2>2
<1>2. entries \in Seq(Terms)
  BY <1>1 DEF Patterns
<1>3. \A k \in DOMAIN entries : NullNodes(r, entries[k].expr) = {}
  BY <1>1 DEF EntriesClean
<1> HIDE DEF j, entries
<1>4. n \in Nat /\ DOMAIN entries = 1 .. n /\ \A k \in 1 .. n : entries[k] \in Terms
  BY <1>2
<1>5. ASSUME NEW k \in 1 .. n PROVE dt(entries[k]) \in Int
  <2>1. entries[k].expr \in Exprs
    BY <1>4 DEF Terms
  <2>2. GetValue(r, entries[k].expr, c) \in Values
    BY <1>3, <1>4, <2>1, ValueKnown
  <2> QED
    BY <2>2, ValuesFinite
<1>6. DOMAIN es = 1 .. n /\ \A k \in 1 .. n : es[k].dt = dt(entries[k])
  <2> HIDE DEF dt, n
  <2> QED
    BY <1>4
<1>7. Len(es) = n
  <2>1. es = [k \in 1 .. n |-> es[k]]
    <3> HIDE DEF dt, n
    <3> QED
      BY <1>4
  <2> HIDE DEF es, n
  <2> QED
    BY <1>4, <1>6, <2>1, Tabulated
<1>8. PatternTimes(r, name, c) = GetTimes(es)
  BY DEF PatternTimes, j, entries
<1> HIDE DEF es, dt, n
<1>9. \A k \in 1 .. Len(es) : es[k].dt \in Int
  BY <1>5, <1>6, <1>7
<1>10. GetTimes(es) \in Seq(Int)
  BY <1>4, <1>7, <1>9, GetTimesTyped
<1> QED
  BY <1>8, <1>10

\* The points of a waveform: four of each pulse, after the first one.
Points(w, v, times, L) ==
    /\ DOMAIN w = 1 .. 4 * L + 1 /\ Len(w) = 4 * L + 1 /\ w[1] = <<0, v["low"]>>
    /\ \A k \in 2 .. 4 * L + 1 : w[k] = Pulse(v, times[(k + 2) \div 4])[((k - 2) % 4) + 1]

LEMMA PulsePoints ==
    ASSUME NEW v, v["low"] \in Int, v["high"] \in Int,
           v["rise"] \in Nat, v["width"] \in Nat, v["fall"] \in Nat,
           NEW L \in Nat, NEW times, \A j \in 1 .. L : times[j] \in Int,
           NEW w, Points(w, v, times, L)
    PROVE  /\ Len(w) % 4 = 1
           /\ w[Len(w)][2] = w[1][2]
           /\ \A k \in 2 .. Len(w) : k % 4 # 2 => w[k - 1][1] <= w[k][1]
<1> DEFINE n == 4 * L + 1
<1>1. n % 4 = 1 /\ n \in Nat
  OBVIOUS
<1>2. ASSUME NEW t \in Int
      PROVE  LET u == Pulse(v, t)
             IN  u[1][1] <= u[2][1] /\ u[2][1] <= u[3][1] /\ u[3][1] <= u[4][1] /\ u[4][2] = v["low"]
  BY <1>2 DEF Pulse
<1>3. w[n][2] = w[1][2]
  <2>1. CASE L = 0
    BY <2>1
  <2>2. CASE L # 0
    <3>1. n \in 2 .. 4 * L + 1 /\ (n + 2) \div 4 = L /\ ((n - 2) % 4) + 1 = 4
      BY <2>2
    <3>2. w[n] = Pulse(v, times[L])[4]
      BY <3>1 DEF Points
    <3>3. times[L] \in Int
      BY <2>2
    <3>4. Pulse(v, times[L])[4][2] = v["low"]
      BY <1>2, <3>3
    <3>5. w[1][2] = v["low"]
      BY DEF Points
    <3> QED
      BY <3>2, <3>4, <3>5
  <2> QED
    BY <2>1, <2>2
<1>4. ASSUME NEW k \in 2 .. n, k % 4 # 2
      PROVE  w[k - 1][1] <= w[k][1]
  <2> DEFINE j == (k + 2) \div 4
             i == (k - 2) % 4
  <2> HIDE DEF n
  <2>a. k \in Int /\ 2 <= k /\ k <= 4 * L + 1
    BY <1>1, <1>4 DEF n
  <2>b. i \in 0 .. 3 /\ j \in Int /\ k = 4 * j + i - 2
    BY <2>a
  <2>c. i # 0
    <3>1. k % 4 # 2
      BY <1>4
    <3> QED
      BY <2>a, <3>1
  <2>1. j \in 1 .. L /\ i \in 1 .. 3
    <3> HIDE DEF i, j
    <3> QED
      BY <2>a, <2>b, <2>c
  <2>2. k - 1 \in 2 .. n /\ ((k - 1) + 2) \div 4 = j /\ ((k - 1) - 2) % 4 = i - 1
    <3>1. k - 1 \in 2 .. n
      <4> HIDE DEF i, j
      <4> QED
        BY <2>a, <2>b, <2>c, <2>1, <1>1 DEF n
    <3>2. ((k - 1) + 2) \div 4 = j
      BY <2>a, <2>c
    <3>3. ((k - 1) - 2) % 4 = i - 1
      BY <2>a, <2>c
    <3> QED
      BY <3>1, <3>2, <3>3
  <2>3. w[k] = Pulse(v, times[j])[i + 1] /\ w[k - 1] = Pulse(v, times[j])[(i - 1) + 1]
    BY <1>4, <2>2 DEF n, Points
  <2>4. times[j] \in Int
    BY <2>1
  <2> HIDE DEF i, j, n
  <2>5. CASE i = 1
    BY <1>2, <2>3, <2>4, <2>5
  <2>6. CASE i = 2
    BY <1>2, <2>3, <2>4, <2>6
  <2>7. CASE i = 3
    BY <1>2, <2>3, <2>4, <2>7
  <2> QED
    BY <2>1, <2>5, <2>6, <2>7
<1>5. Len(w) = n
  BY DEF Points
<1> QED
  BY <1>1, <1>3, <1>4, <1>5

LEMMA SoundWaveforms ==
    ASSUME RegistryInv, pc = "accepted"
    PROVE  PwlWellFormed
<1> DEFINE r == registry
           c == CurValues(r)
<1>1. RegistryOK(r) /\ Clean(r)
  BY DEF RegistryInv, RegistryOK
<1>2. IsRegistry(r) /\ Unique(r)
  BY <1>1 DEF RegistryOK
<1>3. DOMAIN r.params = 1 .. Len(r.params) /\ Len(r.params) \in Nat
      /\ \A i \in 1 .. Len(r.params) : r.params[i] \in Params
  BY <1>2, RegistrySeqs
<1>4. \A i \in 1 .. Len(r.params) : ParamClean(r, i)
  BY <1>1, <1>3 DEF Clean
<1>5. \A i \in 1 .. Len(r.params) : c[i] \in Values
  BY <1>2, <1>4, PullIsOrder
<1>6. \A j \in DOMAIN r.patterns : EntriesClean(r, j)
  BY <1>1 DEF Clean
<1> SUFFICES ASSUME NEW p \in ToSet(r.params), p.kind = "pwl", Waveform(r, p, c) # NoWave
             PROVE  LET w == Waveform(r, p, c)
                        starts == {k \in DOMAIN w : k % 4 = 2}
                        apart == \A k \in starts : w[k][1] >= w[k - 1][1]
                    IN  /\ Len(w) % 4 = 1
                        /\ w[Len(w)][2] = w[1][2]
                        /\ apart => \A k \in 2 .. Len(w) : w[k - 1][1] <= w[k][1]
  BY DEF PwlWellFormed
<1> HIDE DEF c
<1>7. PICK i \in 1 .. Len(r.params) : p = r.params[i]
  BY <1>3 DEF ToSet
<1>8. /\ FindPattern(r, p.body.pattern) # 0
      /\ \A k \in PwlControls : p.body.ctrl[k] \in Exprs /\ NullNodes(r, p.body.ctrl[k]) = {}
  BY <1>4, <1>7 DEF ParamClean
<1> DEFINE v == [k \in PwlControls |-> GetValue(r, p.body.ctrl[k], c)]
           times == PatternTimes(r, p.body.pattern, c)
           L == Len(times)
           w == [k \in 1 .. 4 * L + 1 |->
                   IF k = 1 THEN <<0, v.low>>
                   ELSE Pulse(v, times[(k + 2) \div 4])[((k - 2) % 4) + 1]]
<1>9. times \in Seq(Int)
  BY <1>2, <1>5, <1>6, <1>8, PatternTimesTyped
<1>10. \A k \in PwlControls : v[k] \in Values
  BY <1>2, <1>5, <1>8, ValueKnown
<1>11. /\ Waveform(r, p, c) = w
       /\ \A k \in PwlControls : IsFinite(v[k])
       /\ ~(v.rise < 0 \/ v.fall < 0 \/ v.width < 0)
  BY DEF Waveform
<1> HIDE DEF v, times
<1>12. \A k \in PwlControls : v[k] \in Int
  BY <1>10, <1>11, ValuesFinite
<1>13. /\ v["low"] \in Int /\ v["high"] \in Int
       /\ v["rise"] \in Nat /\ v["width"] \in Nat /\ v["fall"] \in Nat
  BY <1>11, <1>12 DEF PwlControls
<1>14. L \in Nat /\ \A j \in 1 .. L : times[j] \in Int
  BY <1>9
<1> HIDE DEF L
<1>15. /\ DOMAIN w = 1 .. 4 * L + 1 /\ w[1] = <<0, v["low"]>>
       /\ \A k \in 2 .. 4 * L + 1 :
             w[k] = Pulse(v, times[(k + 2) \div 4])[((k - 2) % 4) + 1]
  <2> DEFINE m == 4 * L + 1
  <2>1. m \in Nat /\ 1 \in 1 .. m /\ \A k \in 2 .. m : k \in 1 .. m /\ k # 1
    BY <1>14
  <2>2. DOMAIN w = 1 .. m
    OBVIOUS
  <2>3. w[1] = <<0, v["low"]>>
    BY <2>1
  <2>4. \A k \in 2 .. m : w[k] = Pulse(v, times[(k + 2) \div 4])[((k - 2) % 4) + 1]
    <3> HIDE DEF m
    <3> QED
      BY <2>1 DEF m
  <2> QED
    BY <2>2, <2>3, <2>4
<1>16. Len(w) = 4 * L + 1
  <2> DEFINE m == 4 * L + 1
  <2>1. m \in Nat
    BY <1>14
  <2>2. DOMAIN w = 1 .. m /\ w = [k \in 1 .. m |-> w[k]]
    BY <1>15
  <2> HIDE DEF m, w
  <2>3. Len(w) = m
    BY <2>1, <2>2, Tabulated
  <2> QED
    BY <2>3 DEF m
<1> HIDE DEF w
<1>17. /\ Len(w) % 4 = 1
       /\ w[Len(w)][2] = w[1][2]
       /\ \A k \in 2 .. Len(w) : k % 4 # 2 => w[k - 1][1] <= w[k][1]
  <2>1. Points(w, v, times, L)
    BY <1>15, <1>16 DEF Points
  <2> QED
    BY <1>13, <1>14, <2>1, PulsePoints
<1>18. ASSUME \A k \in {k \in DOMAIN w : k % 4 = 2} : w[k][1] >= w[k - 1][1],
              NEW k \in 2 .. Len(w)
       PROVE  w[k - 1][1] <= w[k][1]
  <2>1. CASE k % 4 = 2
    <3>1. k \in DOMAIN w
      BY <1>14, <1>15, <1>16
    <3> QED
      BY <1>18, <2>1, <3>1
  <2> QED
    BY <1>17, <2>1
<1> QED
  BY <1>11, <1>17, <1>18


\* The elements of a sequence that are at some positions.
Chosen(f, s, P) ==
    /\ f[0] = <<>>
    /\ \A k \in 1 .. Len(s) :
          f[k] = IF k \in P THEN Append(f[k - 1], s[k]) ELSE f[k - 1]
    /\ ElementsAt(s, P) = f[Len(s)]

LEMMA ElementsAtSolves ==
    ASSUME NEW s, Len(s) \in Nat, NEW P
    PROVE  \E f : Chosen(f, s, P)
<1> DEFINE n == Len(s)
           start == <<>>
           Step(k, before) == IF k \in P THEN Append(before, s[k]) ELSE before
           Q(m, f) == f = [k \in 0 .. m |-> IF k = 0 THEN start ELSE Step(k, f[k - 1])]
           T == {m \in Nat : \E f : Q(m, f)}
           sol == CHOOSE f : Q(n, f)
<1>1. ElementsAt(s, P) = sol[n]
  BY DEF ElementsAt
<1> HIDE DEF start
<1>2. Q(n, sol)
  <2>1. 0 \in T
    <3>1. Q(0, [k \in 0 .. 0 |-> start])
      OBVIOUS
    <3> QED
      BY <3>1
  <2>2. ASSUME NEW m \in Nat, m \in T PROVE m + 1 \in T
    <3>1. PICK f : Q(m, f)
      BY <2>2
    <3> HIDE DEF Step
    <3> DEFINE h == [k \in 0 .. m + 1 |-> IF k = m + 1 THEN Step(m + 1, f[m]) ELSE f[k]]
    <3>2. ASSUME NEW k \in 0 .. m + 1
          PROVE  h[k] = IF k = 0 THEN start ELSE Step(k, h[k - 1])
      <4>1. CASE k = m + 1
        <5>1. m \in 0 .. m + 1 /\ m # m + 1 /\ k # 0 /\ k - 1 = m
          BY <4>1
        <5>2. h[k] = Step(k, f[m]) /\ h[m] = f[m]
          BY <4>1, <5>1
        <5> QED
          BY <5>1, <5>2
      <4>2. CASE k # m + 1
        <5>1. k \in 0 .. m /\ h[k] = f[k]
          BY <4>2
        <5>2. k # 0 => k - 1 \in 0 .. m + 1 /\ k - 1 # m + 1 /\ h[k - 1] = f[k - 1]
          BY <5>1
        <5>3. f[k] = IF k = 0 THEN start ELSE Step(k, f[k - 1])
          BY <3>1, <5>1
        <5> QED
          BY <5>1, <5>2, <5>3
      <4> QED
        BY <4>1, <4>2
    <3>3. h = [k \in 0 .. m + 1 |-> h[k]]
      OBVIOUS
    <3>4. Q(m + 1, h)
      <4> HIDE DEF h
      <4> QED
        BY <3>2, <3>3
    <3> HIDE DEF h, Q
    <3> QED
      BY <3>4
  <2>3. n \in T
    <3> HIDE DEF T, n
    <3> QED
      BY <2>1, <2>2, SetInduction DEF n
  <2> HIDE DEF Q, n
  <2> QED
    BY <2>3
<1>3. sol[0] = start /\ \A k \in 1 .. n : sol[k] = Step(k, sol[k - 1])
  <2>1. sol = [k \in 0 .. n |-> IF k = 0 THEN start ELSE Step(k, sol[k - 1])]
    BY <1>2
  <2>2. n \in Nat
    OBVIOUS
  <2> HIDE DEF sol, Step, n
  <2> QED
    BY <2>1, <2>2
<1> HIDE DEF sol, Q, T
<1>4. Chosen(sol, s, P)
  BY <1>1, <1>3 DEF Chosen, start
<1> QED
  BY <1>4

(***************************************************************************)
(* What is tuned: the handlers have checked the range and the value.       *)
(***************************************************************************)
LEMMA SoundTunable ==
    ASSUME RegistryInv
    PROVE  TunableMapped
<1> SUFFICES ASSUME NEW i \in Tunable(registry)
             PROVE  LET p == registry.params[i]
                    IN  /\ -Unbounded < p.lo /\ p.lo < p.hi /\ p.hi < Unbounded
                        /\ IsFinite(p.body.value) =>
                              p.lo <= p.body.value /\ p.body.value <= p.hi
                        /\ "log_map" \in p.flags => p.lo > 0
  BY DEF TunableMapped
<1> DEFINE p == registry.params[i]
           b == p.body
<1>1. i \in DOMAIN registry.params /\ p.kind = "const" /\ "tune" \in p.flags
  BY DEF Tunable
<1>2. IsRegistry(registry) /\ ConstantOK(p)
  BY <1>1 DEF RegistryInv, RegistryOK
<1>3. p \in Params
  BY <1>1, <1>2, RegistrySeqs
<1>4. b \in Bodies /\ b.op = "const" /\ p.lo = VMin(b) /\ p.hi = VMax(b) /\ p.lo < p.hi
  BY <1>1, <1>3, ParamIs
<1>5. HasRange(b)
  BY <1>1, <1>2 DEF ConstantOK
<1>6. b.range \in Ranges
  BY <1>4, BodyOf
<1>7. p.lo \in Finite /\ p.hi \in Finite
  BY <1>3, <1>4, <1>5, <1>6, ParamIs, RangeTyped
<1>8. -Unbounded < p.lo /\ p.hi < Unbounded
  <2>1. \A v \in Finite : -Unbounded < v /\ v < Unbounded
    BY DEF Finite, Unbounded
  <2> HIDE DEF p
  <2> QED
    BY <1>7, <2>1
<1> QED
  BY <1>1, <1>2, <1>4, <1>8 DEF ConstantOK, p, b

(***************************************************************************)
(* A deck that read_cir_file() accepts can be used as it is: names are     *)
(* unique, references go back, the pull evaluation of get_cur_value() gives*)
(* the values of the order of the deck and meets no cycle, the optimizer   *)
(* has its objective, waveforms are in the order of time, and what is tuned*)
(* has a range that maps to 0 .. 1, with its value in it.                  *)
(***************************************************************************)
THEOREM AcceptedAlwaysSound == Spec => []AcceptedIsSound
<1>1. DeckInv /\ RegistryInv => AcceptedIsSound
  BY SoundNames, SoundPull, SoundWaveforms, SoundTunable DEF AcceptedIsSound
<1> QED
  BY <1>1, RegistrySound, PTL


(***************************************************************************)
(* Lines out of elements.                                                  *)
(***************************************************************************)
NoLines == [done |-> <<>>, line |-> <<>>]
Puts(f, list) ==
    /\ f[0] = NoLines
    /\ \A k \in 1 .. Len(list) : f[k] = AddElement(f[k - 1], list[k])
    /\ InLines(list) = f[Len(list)]

LEMMA InLinesSolves ==
    ASSUME NEW list, Len(list) \in Nat
    PROVE  \E f : Puts(f, list)
<1> DEFINE n == Len(list)
           start == [done |-> <<>>, line |-> <<>>]
           Step(k, before) == AddElement(before, list[k])
           Q(m, f) == f = [k \in 0 .. m |-> IF k = 0 THEN start ELSE Step(k, f[k - 1])]
           T == {m \in Nat : \E f : Q(m, f)}
           sol == CHOOSE f : Q(n, f)
<1>1. InLines(list) = sol[n]
  BY DEF InLines
<1> HIDE DEF start
<1>2. Q(n, sol)
  <2>1. 0 \in T
    <3>1. Q(0, [k \in 0 .. 0 |-> start])
      OBVIOUS
    <3> QED
      BY <3>1
  <2>2. ASSUME NEW m \in Nat, m \in T PROVE m + 1 \in T
    <3>1. PICK f : Q(m, f)
      BY <2>2
    <3> HIDE DEF Step
    <3> DEFINE h == [k \in 0 .. m + 1 |-> IF k = m + 1 THEN Step(m + 1, f[m]) ELSE f[k]]
    <3>2. ASSUME NEW k \in 0 .. m + 1
          PROVE  h[k] = IF k = 0 THEN start ELSE Step(k, h[k - 1])
      <4>1. CASE k = m + 1
        <5>1. m \in 0 .. m + 1 /\ m # m + 1 /\ k # 0 /\ k - 1 = m
          BY <4>1
        <5>2. h[k] = Step(k, f[m]) /\ h[m] = f[m]
          BY <4>1, <5>1
        <5> QED
          BY <5>1, <5>2
      <4>2. CASE k # m + 1
        <5>1. k \in 0 .. m /\ h[k] = f[k]
          BY <4>2
        <5>2. k # 0 => k - 1 \in 0 .. m + 1 /\ k - 1 # m + 1 /\ h[k - 1] = f[k - 1]
          BY <5>1
        <5>3. f[k] = IF k = 0 THEN start ELSE Step(k, f[k - 1])
          BY <3>1, <5>1
        <5> QED
          BY <5>1, <5>2, <5>3
      <4> QED
        BY <4>1, <4>2
    <3>3. h = [k \in 0 .. m + 1 |-> h[k]]
      OBVIOUS
    <3>4. Q(m + 1, h)
      <4> HIDE DEF h
      <4> QED
        BY <3>2, <3>3
    <3> HIDE DEF h, Q
    <3> QED
      BY <3>4
  <2>3. n \in T
    <3> HIDE DEF T, n
    <3> QED
      BY <2>1, <2>2, SetInduction DEF n
  <2> HIDE DEF Q, n
  <2> QED
    BY <2>3
<1>3. sol[0] = start /\ \A k \in 1 .. n : sol[k] = Step(k, sol[k - 1])
  <2>1. sol = [k \in 0 .. n |-> IF k = 0 THEN start ELSE Step(k, sol[k - 1])]
    BY <1>2
  <2>2. n \in Nat
    OBVIOUS
  <2> HIDE DEF sol, Step, n
  <2> QED
    BY <2>1, <2>2
<1> HIDE DEF sol, Q, T
<1>4. Puts(sol, list)
  BY <1>1, <1>3 DEF Puts, start, NoLines
<1> QED
  BY <1>4

\* One more element.
LEMMA InLinesAppend ==
    ASSUME NEW S, NEW list \in Seq(S), NEW e \in S
    PROVE  InLines(Append(list, e)) = AddElement(InLines(list), e)
<1> DEFINE n == Len(list)
           longer == Append(list, e)
<1>1. n \in Nat /\ Len(longer) = n + 1 /\ longer[n + 1] = e /\ \A k \in 1 .. n : longer[k] = list[k]
  OBVIOUS
<1> HIDE DEF longer
<1>2. PICK f : Puts(f, list)
  BY <1>1, InLinesSolves
<1>3. PICK g : Puts(g, longer)
  BY <1>1, InLinesSolves
<1> DEFINE T == {m \in Nat : m <= n => f[m] = g[m]}
<1>4. 0 \in T
  BY <1>2, <1>3 DEF Puts
<1>5. ASSUME NEW m \in Nat, m \in T PROVE m + 1 \in T
  <2> SUFFICES ASSUME m + 1 <= n PROVE f[m + 1] = g[m + 1]
    OBVIOUS
  <2>1. f[m] = g[m] /\ m + 1 \in 1 .. n /\ m + 1 \in 1 .. n + 1 /\ (m + 1) - 1 = m
    BY <1>1, <1>5
  <2>2. f[m + 1] = AddElement(f[m], list[m + 1])
    BY <1>2, <2>1 DEF Puts
  <2>3. g[m + 1] = AddElement(g[m], longer[m + 1])
    BY <1>1, <1>3, <2>1 DEF Puts
  <2> QED
    BY <1>1, <2>1, <2>2, <2>3
<1>6. n \in T
  <2> HIDE DEF T, n
  <2> QED
    BY <1>1, <1>4, <1>5, SetInduction
<1>7. n <= n /\ n + 1 \in 1 .. n + 1 /\ (n + 1) - 1 = n
  BY <1>1
<1>8. g[n + 1] = AddElement(g[n], e)
  BY <1>1, <1>3, <1>7 DEF Puts
<1>9. InLines(list) = f[n] /\ InLines(longer) = g[n + 1]
  BY <1>1, <1>2, <1>3 DEF Puts
<1> QED
  BY <1>6, <1>7, <1>8, <1>9 DEF longer

LineSets(S) == [done : Seq(Seq(S)), line : Seq(S)]

LEMMA AddElementTyped ==
    ASSUME NEW S, NEW out \in LineSets(S), NEW e \in S
    PROVE  AddElement(out, e) \in LineSets(S)
<1> DEFINE done == out.done
           line == out.line
           X == Seq(S)
<1>1. done \in Seq(X) /\ line \in X /\ out = [done |-> done, line |-> line]
  BY DEF LineSets
<1>2. Append(line, e) \in X /\ <<>> \in X
  BY <1>1
<1> HIDE DEF done, line, X
<1>3. Append(done, line) \in Seq(X) /\ Append(done, Append(line, e)) \in Seq(X)
  BY <1>1, <1>2
<1> DEFINE a == Append(line, e)
           b == Append(done, line)
           c == Append(done, Append(line, e))
<1>4. \/ AddElement(out, e) = [done |-> b, line |-> <<>>]
      \/ AddElement(out, e) = [done |-> c, line |-> <<>>]
      \/ AddElement(out, e) = [done |-> done, line |-> a]
  BY <1>1 DEF AddElement, done, line
<1> HIDE DEF a, b, c
<1>5. a \in X /\ b \in Seq(X) /\ c \in Seq(X)
  BY <1>2, <1>3 DEF a, b, c
<1>6. LineSets(S) = [done : Seq(X), line : X]
  BY DEF LineSets, X
<1>7. /\ [done |-> b, line |-> <<>>] \in [done : Seq(X), line : X]
      /\ [done |-> c, line |-> <<>>] \in [done : Seq(X), line : X]
      /\ [done |-> done, line |-> a] \in [done : Seq(X), line : X]
  BY <1>1, <1>2, <1>5
<1> QED
  BY <1>4, <1>6, <1>7

LEMMA InLinesTyped ==
    ASSUME NEW S, NEW list \in Seq(S)
    PROVE  InLines(list) \in LineSets(S)
<1> DEFINE n == Len(list)
<1>1. n \in Nat /\ \A k \in 1 .. n : list[k] \in S
  OBVIOUS
<1>2. PICK f : Puts(f, list)
  BY <1>1, InLinesSolves
<1> DEFINE T == {m \in Nat : m <= n => f[m] \in LineSets(S)}
<1>3. 0 \in T
  <2>1. f[0] = NoLines
    BY <1>2 DEF Puts
  <2>2. <<>> \in Seq(S) /\ <<>> \in Seq(Seq(S))
    OBVIOUS
  <2>3. NoLines \in LineSets(S)
    BY <2>2 DEF NoLines, LineSets
  <2> QED
    BY <2>1, <2>3
<1>4. ASSUME NEW m \in Nat, m \in T PROVE m + 1 \in T
  <2> SUFFICES ASSUME m + 1 <= n PROVE f[m + 1] \in LineSets(S)
    OBVIOUS
  <2>1. f[m] \in LineSets(S) /\ m + 1 \in 1 .. n /\ (m + 1) - 1 = m
    BY <1>1, <1>4
  <2>2. f[m + 1] = AddElement(f[m], list[m + 1])
    BY <1>2, <2>1 DEF Puts
  <2> QED
    BY <1>1, <2>1, <2>2, AddElementTyped
<1>5. n \in T
  <2> HIDE DEF T, n
  <2> QED
    BY <1>1, <1>3, <1>4, SetInduction
<1> QED
  BY <1>1, <1>2, <1>5 DEF Puts

\* After a newline no line is begun.
LEMMA InLinesNewLine ==
    ASSUME NEW S, NEW list \in Seq(S), list # <<>>, Last(list) = NewLine
    PROVE  InLines(list).line = <<>>
<1> DEFINE n == Len(list)
<1>1. n \in Nat /\ n \in 1 .. n /\ Last(list) = list[n]
  BY DEF Last
<1>2. PICK f : Puts(f, list)
  BY <1>1, InLinesSolves
<1>3. InLines(list) = AddElement(f[n - 1], NewLine)
  BY <1>1, <1>2 DEF Puts
<1>4. AddElement(f[n - 1], NewLine) = [done |-> Append(f[n - 1].done, f[n - 1].line), line |-> <<>>]
  BY DEF AddElement
<1> QED
  BY <1>3, <1>4

(***************************************************************************)
(* The lines that are not blank.                                           *)
(***************************************************************************)
Solid(s) == ElementsAt(s, {n \in DOMAIN s : s[n] # <<>>})

\* Only the elements of the sequence count, not what comes after them.
LEMMA ChosenAgree ==
    ASSUME NEW S, NEW s \in Seq(S), NEW x \in S, NEW P, NEW R,
           \A k \in 1 .. Len(s) : k \in P <=> k \in R
    PROVE  ElementsAt(Append(s, x), R) =
               IF Len(s) + 1 \in R THEN Append(ElementsAt(s, P), x) ELSE ElementsAt(s, P)
<1> DEFINE n == Len(s)
           longer == Append(s, x)
<1>1. n \in Nat /\ Len(longer) = n + 1 /\ longer[n + 1] = x /\ \A k \in 1 .. n : longer[k] = s[k]
  OBVIOUS
<1> HIDE DEF longer
<1>2. PICK f : Chosen(f, s, P)
  BY <1>1, ElementsAtSolves
<1>3. PICK g : Chosen(g, longer, R)
  <2>1. Len(longer) \in Nat
    BY <1>1
  <2> QED
    BY <2>1, ElementsAtSolves
<1> DEFINE T == {m \in Nat : m <= n => f[m] = g[m]}
<1>4. 0 \in T
  BY <1>2, <1>3 DEF Chosen
<1>5. ASSUME NEW m \in Nat, m \in T PROVE m + 1 \in T
  <2> SUFFICES ASSUME m + 1 <= n PROVE f[m + 1] = g[m + 1]
    OBVIOUS
  <2>1. f[m] = g[m] /\ m + 1 \in 1 .. n /\ m + 1 \in 1 .. n + 1 /\ (m + 1) - 1 = m
    BY <1>1, <1>5
  <2>2. f[m + 1] = IF m + 1 \in P THEN Append(f[m], s[m + 1]) ELSE f[m]
    BY <1>2, <2>1 DEF Chosen
  <2>3. g[m + 1] = IF m + 1 \in R THEN Append(g[m], longer[m + 1]) ELSE g[m]
    BY <1>1, <1>3, <2>1 DEF Chosen
  <2>4. m + 1 \in P <=> m + 1 \in R
    BY <2>1
  <2> QED
    BY <1>1, <2>1, <2>2, <2>3, <2>4
<1>6. n \in T
  <2> HIDE DEF T, n
  <2> QED
    BY <1>1, <1>4, <1>5, SetInduction
<1>7. n <= n /\ n + 1 \in 1 .. n + 1 /\ (n + 1) - 1 = n
  BY <1>1
<1>8. g[n + 1] = IF n + 1 \in R THEN Append(g[n], x) ELSE g[n]
  BY <1>1, <1>3, <1>7 DEF Chosen
<1>9. ElementsAt(s, P) = f[n] /\ ElementsAt(longer, R) = g[n + 1]
  BY <1>1, <1>2, <1>3 DEF Chosen
<1> QED
  BY <1>6, <1>7, <1>8, <1>9 DEF longer

LEMMA SolidAppend ==
    ASSUME NEW S, NEW s \in Seq(Seq(S)), NEW x \in Seq(S)
    PROVE  Solid(Append(s, x)) = IF x # <<>> THEN Append(Solid(s), x) ELSE Solid(s)
<1> DEFINE X == Seq(S)
           P == {n \in DOMAIN s : s[n] # <<>>}
           longer == Append(s, x)
           R == {n \in DOMAIN longer : longer[n] # <<>>}
           n == Len(s)
<1>1. s \in Seq(X) /\ x \in X
  OBVIOUS
<1> HIDE DEF X
<1>2. /\ n \in Nat /\ DOMAIN s = 1 .. n /\ DOMAIN longer = 1 .. n + 1
      /\ longer[n + 1] = x /\ \A k \in 1 .. n : longer[k] = s[k]
  BY <1>1
<1> HIDE DEF n, longer
<1>3. \A k \in 1 .. n : k \in P <=> k \in R
  BY <1>2
<1>4. n + 1 \in R <=> x # <<>>
  BY <1>2
<1> HIDE DEF P, R
<1>5. ElementsAt(Append(s, x), R) = IF n + 1 \in R THEN Append(ElementsAt(s, P), x) ELSE ElementsAt(s, P)
  BY <1>1, <1>3, ChosenAgree DEF n
<1> QED
  BY <1>4, <1>5 DEF Solid, P, R, longer

LEMMA ElementsTyped ==
    ASSUME NEW S, NEW s \in Seq(S), NEW P
    PROVE  ElementsAt(s, P) \in Seq(S)
<1> DEFINE n == Len(s)
<1>1. n \in Nat /\ \A k \in 1 .. n : s[k] \in S
  OBVIOUS
<1>2. PICK f : Chosen(f, s, P)
  BY <1>1, ElementsAtSolves
<1> DEFINE T == {m \in Nat : m <= n => f[m] \in Seq(S)}
<1>3. 0 \in T
  <2>1. f[0] = <<>> /\ <<>> \in Seq(S)
    BY <1>2 DEF Chosen
  <2> QED
    BY <2>1
<1>4. ASSUME NEW m \in Nat, m \in T PROVE m + 1 \in T
  <2> SUFFICES ASSUME m + 1 <= n PROVE f[m + 1] \in Seq(S)
    OBVIOUS
  <2>1. f[m] \in Seq(S) /\ m + 1 \in 1 .. n /\ (m + 1) - 1 = m
    BY <1>1, <1>4
  <2>2. f[m + 1] = IF m + 1 \in P THEN Append(f[m], s[m + 1]) ELSE f[m]
    BY <1>2, <2>1 DEF Chosen
  <2>3. Append(f[m], s[m + 1]) \in Seq(S)
    BY <1>1, <2>1
  <2> QED
    BY <2>1, <2>2, <2>3
<1>5. n \in T
  <2> HIDE DEF T, n
  <2> QED
    BY <1>1, <1>3, <1>4, SetInduction
<1> QED
  BY <1>1, <1>2, <1>5 DEF Chosen


Tabulates(s, n) == DOMAIN s = 1 .. n /\ s = [k \in 1 .. n |-> s[k]]

LEMMA AppendIs ==
    ASSUME NEW n \in Nat, NEW s, Tabulates(s, n), NEW t, Tabulates(t, n + 1),
           \A k \in 1 .. n : t[k] = s[k]
    PROVE  t = Append(s, t[n + 1])
<1> DEFINE y == t[n + 1]
           m == n + 1
           S == {t[k] : k \in 1 .. m}
<1>1. m \in Nat /\ n + 1 \in 1 .. m /\ \A k \in 1 .. n : k \in 1 .. m
  OBVIOUS
<1>2. \A k \in 1 .. m : t[k] \in S
  OBVIOUS
<1>3. y \in S /\ \A k \in 1 .. n : s[k] \in S
  BY <1>1
<1>9. /\ DOMAIN s = 1 .. n /\ s = [k \in 1 .. n |-> s[k]]
      /\ DOMAIN t = 1 .. m /\ t = [k \in 1 .. m |-> t[k]]
  BY DEF Tabulates
<1> HIDE DEF S, m
<1>4. t \in [1 .. m -> S] /\ s \in [1 .. n -> S]
  BY <1>2, <1>3, <1>9
<1>5. t \in Seq(S) /\ s \in Seq(S)
  BY <1>1, <1>4
<1>6. Len(t) = m /\ Len(s) = n
  BY <1>1, <1>9, Tabulated
<1>7. /\ Append(s, y) \in Seq(S) /\ Len(Append(s, y)) = m
      /\ \A k \in 1 .. n : Append(s, y)[k] = s[k]
      /\ Append(s, y)[n + 1] = y
  BY <1>3, <1>5, <1>6, AppendProperties DEF m
<1>8. ASSUME NEW k \in 1 .. m PROVE t[k] = Append(s, y)[k]
  <2>1. k \in 1 .. n \/ k = n + 1
    BY DEF m
  <2> QED
    BY <1>7, <2>1
<1> QED
  BY <1>5, <1>6, <1>7, <1>8, SeqEqual

LEMMA EmptyIs ==
    ASSUME NEW s, DOMAIN s = {}, s = [k \in DOMAIN s |-> s[k]]
    PROVE  s = <<>>
<1>1. DOMAIN s = 1 .. 0
  OBVIOUS
<1>2. s \in [1 .. 0 -> {}]
  BY <1>1
<1>3. s \in Seq({})
  BY <1>2
<1>4. Len(s) = 0
  BY <1>1, Tabulated
<1> QED
  BY <1>3, <1>4, EmptySeq

(***************************************************************************)
(* Printing line by line: the blank lines are the same before and after.   *)
(***************************************************************************)
PrintedAll(s, c) == [k \in DOMAIN s |-> Printed(s[k], c)]

LEMMA PrintedBlank ==
    ASSUME NEW S, NEW line \in Seq(S), NEW c
    PROVE  Printed(line, c) = <<>> <=> line = <<>>
<1> DEFINE p == Printed(line, c)
<1>1. DOMAIN p = DOMAIN line /\ p = [k \in DOMAIN p |-> p[k]]
  BY DEF Printed
<1> HIDE DEF p
<1>2. ASSUME line = <<>> PROVE p = <<>>
  <2>1. DOMAIN p = {}
    BY <1>1, <1>2
  <2> QED
    BY <1>1, <2>1, EmptyIs
<1>3. ASSUME line # <<>> PROVE p # <<>>
  <2>1. 1 \in DOMAIN line
    BY <1>3
  <2> QED
    BY <1>1, <2>1
<1> QED
  BY <1>2, <1>3 DEF p

LEMMA PrintedAppend ==
    ASSUME NEW S, NEW s \in Seq(S), NEW x \in S, NEW c
    PROVE  PrintedAll(Append(s, x), c) = Append(PrintedAll(s, c), Printed(x, c))
<1> DEFINE n == Len(s)
           longer == Append(s, x)
           p == PrintedAll(s, c)
           q == PrintedAll(longer, c)
           y == Printed(x, c)
<1>1. /\ n \in Nat /\ DOMAIN s = 1 .. n /\ DOMAIN longer = 1 .. n + 1
      /\ longer[n + 1] = x /\ \A k \in 1 .. n : longer[k] = s[k]
  OBVIOUS
<1> HIDE DEF n, longer
<1>2. Tabulates(p, n) /\ \A k \in 1 .. n : p[k] = Printed(s[k], c)
  BY <1>1 DEF PrintedAll, Tabulates
<1>3. Tabulates(q, n + 1) /\ \A k \in 1 .. n + 1 : q[k] = Printed(longer[k], c)
  BY <1>1 DEF PrintedAll, Tabulates
<1> HIDE DEF p, q
<1>4. \A k \in 1 .. n : k \in 1 .. n + 1
  BY <1>1
<1>5. n + 1 \in 1 .. n + 1
  BY <1>1
<1>6. \A k \in 1 .. n : q[k] = p[k]
  BY <1>1, <1>2, <1>3, <1>4
<1>7. q[n + 1] = y
  BY <1>1, <1>3, <1>5
<1>8. q = Append(p, q[n + 1])
  BY <1>1, <1>2, <1>3, <1>6, AppendIs
<1> QED
  BY <1>7, <1>8 DEF q, p, longer

LEMMA PrintedSolid ==
    ASSUME NEW S, NEW s \in Seq(Seq(S)), NEW c
    PROVE  LET t == PrintedAll(s, c)
           IN  ElementsAt(t, {n \in DOMAIN t : t[n] # <<>>}) = PrintedAll(Solid(s), c)
<1> DEFINE X == Seq(S)
           n == Len(s)
           t == PrintedAll(s, c)
           P == {k \in DOMAIN s : s[k] # <<>>}
           R == {k \in DOMAIN t : t[k] # <<>>}
<1>1. \A line \in X : Printed(line, c) = <<>> <=> line = <<>>
  BY PrintedBlank
<1>2. s \in Seq(X)
  OBVIOUS
<1> HIDE DEF X
<1>3. n \in Nat /\ DOMAIN s = 1 .. n /\ \A k \in 1 .. n : s[k] \in X
  BY <1>2
<1> HIDE DEF n
<1>4. DOMAIN t = 1 .. n /\ t = [k \in 1 .. n |-> t[k]] /\ \A k \in 1 .. n : t[k] = Printed(s[k], c)
  BY <1>3 DEF PrintedAll
<1> HIDE DEF t
<1>5. Len(t) = n
  BY <1>3, <1>4, Tabulated
<1>6. \A k \in 1 .. n : k \in P <=> k \in R
  BY <1>1, <1>3, <1>4
<1> HIDE DEF P, R
<1>7. PICK f : Chosen(f, s, P)
  BY <1>3, ElementsAtSolves DEF n
<1>8. PICK g : Chosen(g, t, R)
  BY <1>3, <1>5, ElementsAtSolves
<1> DEFINE T == {m \in Nat : m <= n => f[m] \in Seq(X) /\ g[m] = PrintedAll(f[m], c)}
<1>9. 0 \in T
  <2>1. f[0] = <<>> /\ g[0] = <<>> /\ <<>> \in Seq(X)
    BY <1>7, <1>8 DEF Chosen
  <2> DEFINE p == PrintedAll(<<>>, c)
  <2>2. DOMAIN p = {} /\ p = [k \in DOMAIN p |-> p[k]]
    BY DEF PrintedAll
  <2> HIDE DEF p
  <2>3. p = <<>>
    BY <2>2, EmptyIs
  <2> QED
    BY <2>1, <2>3 DEF p
<1>10. ASSUME NEW m \in Nat, m \in T PROVE m + 1 \in T
  <2> SUFFICES ASSUME m + 1 <= n PROVE f[m + 1] \in Seq(X) /\ g[m + 1] = PrintedAll(f[m + 1], c)
    OBVIOUS
  <2>1. f[m] \in Seq(X) /\ g[m] = PrintedAll(f[m], c) /\ m + 1 \in 1 .. n /\ (m + 1) - 1 = m
    BY <1>3, <1>10
  <2>2. f[m + 1] = IF m + 1 \in P THEN Append(f[m], s[m + 1]) ELSE f[m]
    BY <1>7, <2>1 DEF Chosen, n
  <2>3. g[m + 1] = IF m + 1 \in R THEN Append(g[m], t[m + 1]) ELSE g[m]
    BY <1>5, <1>8, <2>1 DEF Chosen
  <2>4. /\ m + 1 \in P <=> m + 1 \in R
        /\ t[m + 1] = Printed(s[m + 1], c) /\ s[m + 1] \in X
    BY <1>3, <1>4, <1>6, <2>1
  <2>5. PrintedAll(Append(f[m], s[m + 1]), c) = Append(PrintedAll(f[m], c), Printed(s[m + 1], c))
    BY <2>1, <2>4, PrintedAppend
  <2>6. Append(f[m], s[m + 1]) \in Seq(X)
    BY <2>1, <2>4
  <2> QED
    BY <2>1, <2>2, <2>3, <2>4, <2>5, <2>6
<1>11. n \in T
  <2> HIDE DEF T
  <2> QED
    BY <1>3, <1>9, <1>10, SetInduction
<1>12. ElementsAt(s, P) = f[n] /\ ElementsAt(t, R) = g[n] /\ n <= n
  BY <1>3, <1>5, <1>7, <1>8 DEF Chosen, n
<1>13. ElementsAt(t, R) = PrintedAll(ElementsAt(s, P), c)
  BY <1>11, <1>12
<1> QED
  BY <1>13 DEF Solid, P, R, t

(***************************************************************************)
(* The lines of a file, up to one of them, and those of nested files.      *)
(***************************************************************************)
Writes(f, lines, included) ==
    /\ f[0] = <<>>
    /\ \A k \in 1 .. Len(lines) : f[k] = f[k - 1] \o LineWritten(lines[k], included)
    /\ FileWritten(lines, included) = f[Len(lines)]

LEMMA FileWrittenSolves ==
    ASSUME NEW lines, Len(lines) \in Nat, NEW included
    PROVE  \E f : Writes(f, lines, included)
<1> DEFINE n == Len(lines)
           start == <<>>
           Step(k, before) == before \o LineWritten(lines[k], included)
           Q(m, f) == f = [k \in 0 .. m |-> IF k = 0 THEN start ELSE Step(k, f[k - 1])]
           T == {m \in Nat : \E f : Q(m, f)}
           sol == CHOOSE f : Q(n, f)
<1>1. FileWritten(lines, included) = sol[n]
  BY DEF FileWritten
<1> HIDE DEF start
<1>2. Q(n, sol)
  <2>1. 0 \in T
    <3>1. Q(0, [k \in 0 .. 0 |-> start])
      OBVIOUS
    <3> QED
      BY <3>1
  <2>2. ASSUME NEW m \in Nat, m \in T PROVE m + 1 \in T
    <3>1. PICK f : Q(m, f)
      BY <2>2
    <3> HIDE DEF Step
    <3> DEFINE h == [k \in 0 .. m + 1 |-> IF k = m + 1 THEN Step(m + 1, f[m]) ELSE f[k]]
    <3>2. ASSUME NEW k \in 0 .. m + 1
          PROVE  h[k] = IF k = 0 THEN start ELSE Step(k, h[k - 1])
      <4>1. CASE k = m + 1
        <5>1. m \in 0 .. m + 1 /\ m # m + 1 /\ k # 0 /\ k - 1 = m
          BY <4>1
        <5>2. h[k] = Step(k, f[m]) /\ h[m] = f[m]
          BY <4>1, <5>1
        <5> QED
          BY <5>1, <5>2
      <4>2. CASE k # m + 1
        <5>1. k \in 0 .. m /\ h[k] = f[k]
          BY <4>2
        <5>2. k # 0 => k - 1 \in 0 .. m + 1 /\ k - 1 # m + 1 /\ h[k - 1] = f[k - 1]
          BY <5>1
        <5>3. f[k] = IF k = 0 THEN start ELSE Step(k, f[k - 1])
          BY <3>1, <5>1
        <5> QED
          BY <5>1, <5>2, <5>3
      <4> QED
        BY <4>1, <4>2
    <3>3. h = [k \in 0 .. m + 1 |-> h[k]]
      OBVIOUS
    <3>4. Q(m + 1, h)
      <4> HIDE DEF h
      <4> QED
        BY <3>2, <3>3
    <3> HIDE DEF h, Q
    <3> QED
      BY <3>4
  <2>3. n \in T
    <3> HIDE DEF T, n
    <3> QED
      BY <2>1, <2>2, SetInduction DEF n
  <2> HIDE DEF Q, n
  <2> QED
    BY <2>3
<1>3. sol[0] = start /\ \A k \in 1 .. n : sol[k] = Step(k, sol[k - 1])
  <2>1. sol = [k \in 0 .. n |-> IF k = 0 THEN start ELSE Step(k, sol[k - 1])]
    BY <1>2
  <2>2. n \in Nat
    OBVIOUS
  <2> HIDE DEF sol, Step, n
  <2> QED
    BY <2>1, <2>2
<1> HIDE DEF sol, Q, T
<1>4. Writes(sol, lines, included)
  BY <1>1, <1>3 DEF Writes, start
<1> QED
  BY <1>4

UpTo(lines, included) == CHOOSE f : Writes(f, lines, included)

LEMMA UpToIs ==
    ASSUME NEW lines, Len(lines) \in Nat, NEW included
    PROVE  Writes(UpTo(lines, included), lines, included)
  BY FileWrittenSolves DEF UpTo

\* Written, of any files.
WrittenOf(fs) ==
    LET nested[depth \in 0 .. MaxOpen] ==
            [name \in DOMAIN fs |->
                IF depth = 0 THEN <<>> ELSE FileWritten(fs[name].lines, nested[depth - 1])]
    IN  nested[MaxOpen]["main"]
Nests(f, fs) ==
    /\ \A depth \in 1 .. MaxOpen : \A name \in DOMAIN fs :
          f[depth][name] = FileWritten(fs[name].lines, f[depth - 1])
    /\ WrittenOf(fs) = f[MaxOpen]["main"]

LEMMA WrittenSolves ==
    ASSUME NEW fs
    PROVE  \E f : Nests(f, fs)
<1> DEFINE n == MaxOpen
           D == DOMAIN fs
           Step(depth, prev) ==
               [name \in D |-> IF depth = 0 THEN <<>> ELSE FileWritten(fs[name].lines, prev)]
           Q(m, f) == f = [k \in 0 .. m |-> Step(k, f[k - 1])]
           T == {m \in Nat : \E f : Q(m, f)}
           sol == CHOOSE f : Q(n, f)
<1>0. n \in Nat
  BY DeckAssumption
<1>1. WrittenOf(fs) = sol[n]["main"]
  BY DEF WrittenOf
<1>2. \A x, y : Step(0, x) = Step(0, y)
  OBVIOUS
<1>3. Q(n, sol)
  <2> HIDE DEF Step
  <2>1. 0 \in T
    <3> DEFINE h == [k \in 0 .. 0 |-> Step(0, <<>>)]
    <3>1. h = [k \in 0 .. 0 |-> Step(k, h[k - 1])]
      <4>1. \A k \in 0 .. 0 : h[k] = Step(k, h[k - 1])
        BY <1>2
      <4>2. h = [k \in 0 .. 0 |-> h[k]]
        OBVIOUS
      <4> HIDE DEF h
      <4> QED
        BY <4>1, <4>2
    <3> HIDE DEF h
    <3> QED
      BY <3>1
  <2>2. ASSUME NEW m \in Nat, m \in T PROVE m + 1 \in T
    <3>1. PICK f : Q(m, f)
      BY <2>2
    <3> DEFINE h == [k \in 0 .. m + 1 |-> IF k = m + 1 THEN Step(m + 1, f[m]) ELSE f[k]]
    <3>2. ASSUME NEW k \in 0 .. m + 1
          PROVE  h[k] = Step(k, h[k - 1])
      <4>1. CASE k = m + 1
        <5>1. m \in 0 .. m + 1 /\ m # m + 1 /\ k - 1 = m
          BY <4>1
        <5>2. h[k] = Step(k, f[m]) /\ h[m] = f[m]
          BY <4>1, <5>1
        <5> QED
          BY <5>1, <5>2
      <4>2. CASE k # m + 1
        <5>1. k \in 0 .. m /\ h[k] = f[k]
          BY <4>2
        <5>2. f[k] = Step(k, f[k - 1])
          BY <3>1, <5>1
        <5>3. CASE k = 0
          <6> HIDE DEF h
          <6> QED
            BY <1>2, <5>1, <5>2, <5>3
        <5>4. CASE k # 0
          <6>1. k - 1 \in 0 .. m + 1 /\ k - 1 # m + 1 /\ h[k - 1] = f[k - 1]
            BY <5>1, <5>4
          <6> QED
            BY <5>1, <5>2, <6>1
        <5> QED
          BY <5>3, <5>4
      <4> QED
        BY <4>1, <4>2
    <3>3. h = [k \in 0 .. m + 1 |-> h[k]]
      OBVIOUS
    <3>4. Q(m + 1, h)
      <4> HIDE DEF h
      <4> QED
        BY <3>2, <3>3
    <3> HIDE DEF h, Q
    <3> QED
      BY <3>4
  <2>3. n \in T
    <3> HIDE DEF T, n
    <3> QED
      BY <1>0, <2>1, <2>2, SetInduction
  <2> HIDE DEF Q, n
  <2> QED
    BY <2>3
<1>4. \A depth \in 0 .. n : sol[depth] = Step(depth, sol[depth - 1])
  <2>1. sol = [k \in 0 .. n |-> Step(k, sol[k - 1])]
    BY <1>3
  <2> HIDE DEF sol, Step, n
  <2> QED
    BY <2>1
<1> HIDE DEF sol, Q, T
<1>5. ASSUME NEW depth \in 1 .. n, NEW name \in D
      PROVE  sol[depth][name] = FileWritten(fs[name].lines, sol[depth - 1])
  <2>1. depth \in 0 .. n /\ depth # 0
    BY <1>0
  <2> DEFINE prev == sol[depth - 1]
  <2>2. sol[depth] = Step(depth, prev)
    BY <1>4, <2>1
  <2> HIDE DEF prev
  <2>3. sol[depth][name] = IF depth = 0 THEN <<>> ELSE FileWritten(fs[name].lines, prev)
    BY <2>2
  <2> QED
    BY <2>1, <2>3 DEF prev
<1>6. Nests(sol, fs)
  BY <1>1, <1>5 DEF Nests
<1> QED
  BY <1>6

NestedIn(fs) == CHOOSE f : Nests(f, fs)

LEMMA NestedIs ==
    ASSUME NEW fs
    PROVE  Nests(NestedIn(fs), fs)
  BY WrittenSolves DEF NestedIn


(***************************************************************************)
(* How far the deck has been read.  A file that waits stands behind the    *)
(* line of its include, whose lines are those of the file above it.        *)
(***************************************************************************)
ElementSet ==
    [type : {"text", "parameter", "new_line"}, text : Texts \cup STRING \cup {TranText, ""}]
Outlines == Seq(ElementSet)
ElementOf(token) ==
    IF token.kind = "LINE" THEN TextElement(token.text) ELSE ParameterElement(token.name)

LinesAt(fs, stack, k) == fs[stack[k].file].lines
ReadOf(fs, stack, k, n) == UpTo(LinesAt(fs, stack, k), NestedIn(fs)[MaxOpen - k])[n]

Waits(fs, stack, k) ==
    LET lines == LinesAt(fs, stack, k)
        n == stack[k].line - 1
    IN  /\ stack[k].tok = 1
        /\ n \in 1 .. Len(lines) /\ lines[n] # <<>> /\ IsInclude(lines[n][1])
        /\ lines[n][1].body.file = stack[k + 1].file

\* w[k] is what was written before the file at level k.
Laid(w, fs, stack) ==
    /\ w[1] = <<>> /\ w[1] \in Seq(Outlines)
    /\ \A k \in 1 .. Len(stack) - 1 :
          /\ Waits(fs, stack, k)
          /\ ReadOf(fs, stack, k, stack[k].line - 2) \in Seq(Outlines)
          /\ w[k + 1] = w[k] \o ReadOf(fs, stack, k, stack[k].line - 2)
          /\ w[k + 1] \in Seq(Outlines)

Finished(fs, stack, done) ==
    LET m == Len(stack)
        read == ReadOf(fs, stack, m, stack[m].line - 1)
    IN  /\ read \in Seq(Outlines)
        /\ \E w : Laid(w, fs, stack) /\ w[m] \in Seq(Outlines) /\ Solid(done) = w[m] \o read

\* What each kind of line stands for.
LEMMA LineWrittenIs ==
    ASSUME NEW line \in Lines, NEW included
    PROVE  /\ line = <<>> => LineWritten(line, included) = <<>>
           /\ line # <<>> =>
                 /\ line[1].kind = "COMMENT" => LineWritten(line, included) = <<>>
                 /\ IsInclude(line[1]) => LineWritten(line, included) = included[line[1].body.file]
                 /\ line[1].kind = "PRAGMA" /\ ~IsInclude(line[1]) => LineWritten(line, included) = <<>>
                 /\ line[1].kind = "TRAN" => LineWritten(line, included) = <<<<TextElement(TranText)>>>>
                 /\ line[1].kind = "END" => LineWritten(line, included) = <<<<TextElement(EndText)>>>>
                 /\ line[1].kind \in {"LINE", "PSUB"} =>
                       LineWritten(line, included) = <<[k \in DOMAIN line |-> ElementOf(line[k])]>>
<1>1. line = <<>> => LineWritten(line, included) = <<>>
  BY DEF LineWritten
<1>2. ASSUME line # <<>>, line[1].kind = "COMMENT" PROVE LineWritten(line, included) = <<>>
  <2>1. ~IsInclude(line[1])
    BY <1>2 DEF IsInclude
  <2> QED
    BY <1>2, <2>1 DEF LineWritten
<1>3. ASSUME line # <<>>, IsInclude(line[1])
      PROVE  LineWritten(line, included) = included[line[1].body.file]
  <2>1. line[1].kind = "PRAGMA"
    BY <1>3 DEF IsInclude
  <2> QED
    BY <1>3, <2>1 DEF LineWritten
<1>4. ASSUME line # <<>>, line[1].kind = "PRAGMA", ~IsInclude(line[1])
      PROVE  LineWritten(line, included) = <<>>
  BY <1>4 DEF LineWritten
<1>5. ASSUME line # <<>>, line[1].kind = "TRAN"
      PROVE  LineWritten(line, included) = <<<<TextElement(TranText)>>>>
  <2>1. AddLine(<<>>, TranText) = <<TextElement(TranText)>>
    BY DEF AddLine
  <2>2. ~IsInclude(line[1])
    BY <1>5 DEF IsInclude
  <2> QED
    BY <1>5, <2>1, <2>2 DEF LineWritten
<1>6. ASSUME line # <<>>, line[1].kind = "END"
      PROVE  LineWritten(line, included) = <<<<TextElement(EndText)>>>>
  <2>1. AddLine(<<>>, EndText) = <<TextElement(EndText)>>
    BY DEF AddLine
  <2>2. ~IsInclude(line[1])
    BY <1>6 DEF IsInclude
  <2> QED
    BY <1>6, <2>1, <2>2 DEF LineWritten
<1>7. ASSUME line # <<>>, line[1].kind \in {"LINE", "PSUB"}
      PROVE  LineWritten(line, included) = <<[k \in DOMAIN line |-> ElementOf(line[k])]>>
  <2>1. ~IsInclude(line[1])
    BY <1>7 DEF IsInclude
  <2>2. LineWritten(line, included) =
            <<[k \in DOMAIN line |-> IF line[k].kind = "LINE" THEN TextElement(line[k].text)
                                    ELSE ParameterElement(line[k].name)]>>
    BY <1>7, <2>1 DEF LineWritten
  <2>3. [k \in DOMAIN line |-> IF line[k].kind = "LINE" THEN TextElement(line[k].text)
                               ELSE ParameterElement(line[k].name)]
            = [k \in DOMAIN line |-> ElementOf(line[k])]
    BY DEF ElementOf
  <2> QED
    BY <2>2, <2>3
<1> QED
  BY <1>1, <1>2, <1>3, <1>4, <1>5, <1>6, <1>7

LEMMA LinesAssociative ==
    ASSUME NEW a \in Seq(Outlines), NEW b \in Seq(Outlines), NEW c \in Seq(Outlines)
    PROVE  (a \o b) \o c = a \o (b \o c)
  BY ConcatAssociative

\* The files below the one being read, when only its position changes.
SameBelow(stack, next, m) ==
    /\ Len(stack) = m /\ Len(next) = m
    /\ \A k \in 1 .. m - 1 : next[k] = stack[k]
    /\ next[m].file = stack[m].file

LEMMA LaidSame ==
    ASSUME NEW fs, NEW stack, NEW next, NEW m \in Nat \ {0}, SameBelow(stack, next, m),
           NEW w, Laid(w, fs, stack)
    PROVE  Laid(w, fs, next) /\ \A n : ReadOf(fs, next, m, n) = ReadOf(fs, stack, m, n)
<1>1. \A n : ReadOf(fs, next, m, n) = ReadOf(fs, stack, m, n)
  BY DEF ReadOf, LinesAt, SameBelow
<1>2. \A k \in 1 .. m : next[k].file = stack[k].file
  <2>1. \A k \in 1 .. m : k \in 1 .. m - 1 \/ k = m
    OBVIOUS
  <2> QED
    BY <2>1 DEF SameBelow
<1>3. ASSUME NEW k \in 1 .. m - 1
      PROVE  /\ Waits(fs, next, k)
             /\ ReadOf(fs, next, k, next[k].line - 2) \in Seq(Outlines)
             /\ w[k + 1] = w[k] \o ReadOf(fs, next, k, next[k].line - 2)
             /\ w[k + 1] \in Seq(Outlines)
  <2>1. next[k] = stack[k] /\ k + 1 \in 1 .. m
    BY DEF SameBelow
  <2>2. next[k + 1].file = stack[k + 1].file
    BY <1>2, <2>1
  <2>3. \A n : ReadOf(fs, next, k, n) = ReadOf(fs, stack, k, n)
    BY <2>1 DEF ReadOf, LinesAt
  <2>4. /\ Waits(fs, stack, k)
        /\ ReadOf(fs, stack, k, stack[k].line - 2) \in Seq(Outlines)
        /\ w[k + 1] = w[k] \o ReadOf(fs, stack, k, stack[k].line - 2)
        /\ w[k + 1] \in Seq(Outlines)
    BY DEF Laid, SameBelow
  <2>5. Waits(fs, next, k)
    BY <2>1, <2>2, <2>4 DEF Waits, LinesAt
  <2> QED
    BY <2>1, <2>3, <2>4, <2>5
<1>4. w[1] = <<>> /\ w[1] \in Seq(Outlines)
  BY DEF Laid
<1> QED
  BY <1>1, <1>3, <1>4 DEF Laid, SameBelow

\* Within a line.
LEMMA FinishedInLine ==
    ASSUME NEW fs, NEW stack, NEW next, NEW m \in Nat \ {0}, SameBelow(stack, next, m),
           next[m].line = stack[m].line,
           NEW done, Finished(fs, stack, done)
    PROVE  Finished(fs, next, done)
<1> DEFINE read == ReadOf(fs, stack, m, stack[m].line - 1)
<1>1. PICK w : Laid(w, fs, stack) /\ w[m] \in Seq(Outlines) /\ Solid(done) = w[m] \o read
  BY DEF Finished, SameBelow
<1>2. read \in Seq(Outlines)
  BY DEF Finished, SameBelow
<1>3. Laid(w, fs, next) /\ \A n : ReadOf(fs, next, m, n) = ReadOf(fs, stack, m, n)
  BY <1>1, LaidSame
<1>4. ReadOf(fs, next, m, next[m].line - 1) = read
  BY <1>3
<1> HIDE DEF read
<1> QED
  BY <1>1, <1>2, <1>3, <1>4 DEF Finished, SameBelow

\* At the end of a line.
LEMMA FinishedLine ==
    ASSUME NEW fs, NEW stack, NEW next, NEW m \in Nat \ {0}, SameBelow(stack, next, m),
           NEW l \in Nat \ {0}, stack[m].line = l, next[m].line = l + 1,
           Len(LinesAt(fs, stack, m)) \in Nat, l <= Len(LinesAt(fs, stack, m)),
           NEW added \in Seq(Outlines),
           LineWritten(LinesAt(fs, stack, m)[l], NestedIn(fs)[MaxOpen - m]) = added,
           NEW done, Finished(fs, stack, done),
           NEW longer, Solid(longer) = Solid(done) \o added
    PROVE  Finished(fs, next, longer)
<1> DEFINE read == ReadOf(fs, stack, m, l - 1)
           lines == LinesAt(fs, stack, m)
           included == NestedIn(fs)[MaxOpen - m]
<1>1. PICK w : Laid(w, fs, stack) /\ w[m] \in Seq(Outlines) /\ Solid(done) = w[m] \o read
  BY DEF Finished, SameBelow
<1>2. read \in Seq(Outlines)
  BY DEF Finished, SameBelow
<1>3. Laid(w, fs, next) /\ \A n : ReadOf(fs, next, m, n) = ReadOf(fs, stack, m, n)
  <2>1. Laid(w, fs, stack)
    BY <1>1
  <2> HIDE DEF read, lines, included
  <2> QED
    BY <2>1, LaidSame
<1>4. Writes(UpTo(lines, included), lines, included)
  BY UpToIs
<1>5. l \in 1 .. Len(lines)
  OBVIOUS
<1>6. ReadOf(fs, stack, m, l) = read \o added
  <2>1. UpTo(lines, included)[l] = UpTo(lines, included)[l - 1] \o LineWritten(lines[l], included)
    BY <1>4, <1>5 DEF Writes
  <2> QED
    BY <2>1 DEF ReadOf
<1>7. ReadOf(fs, next, m, next[m].line - 1) = read \o added
  <2>1. next[m].line - 1 = l
    OBVIOUS
  <2> QED
    BY <1>3, <1>6, <2>1
<1> HIDE DEF read
<1>8. read \o added \in Seq(Outlines)
  BY <1>2
<1>9. Solid(longer) = w[m] \o (read \o added)
  <2>1. (w[m] \o read) \o added = w[m] \o (read \o added)
    <3> DEFINE a == w[m]
    <3>1. a \in Seq(Outlines)
      BY <1>1
    <3> HIDE DEF a
    <3>2. (a \o read) \o added = a \o (read \o added)
      BY <1>2, <3>1, LinesAssociative
    <3> QED
      BY <3>2 DEF a
  <2> QED
    BY <1>1, <2>1
<1> QED
  BY <1>1, <1>3, <1>7, <1>8, <1>9 DEF Finished, SameBelow


FilesTyped(fs) ==
    \A name \in DOMAIN fs : /\ Len(fs[name].lines) \in Nat
                            /\ \A n \in 1 .. Len(fs[name].lines) : fs[name].lines[n] \in Lines

LEMMA EmptyLines ==
    /\ <<>> \in Seq(Outlines)
    /\ \A s \in Seq(Outlines) : s \o <<>> = s /\ <<>> \o s = s
  BY ConcatEmptySeq, EmptySeq

LEMMA ReadNothing ==
    ASSUME NEW fs, NEW stack, NEW k, Len(LinesAt(fs, stack, k)) \in Nat
    PROVE  ReadOf(fs, stack, k, 0) = <<>>
<1>1. Writes(UpTo(LinesAt(fs, stack, k), NestedIn(fs)[MaxOpen - k]), LinesAt(fs, stack, k),
             NestedIn(fs)[MaxOpen - k])
  BY UpToIs
<1> QED
  BY <1>1 DEF Writes, ReadOf

\* All of a file is what an include of it stands for.
LEMMA ReadAll ==
    ASSUME NEW fs, FilesTyped(fs), NEW name \in DOMAIN fs, NEW k \in 1 .. MaxOpen
    PROVE  UpTo(fs[name].lines, NestedIn(fs)[MaxOpen - k])[Len(fs[name].lines)] =
               NestedIn(fs)[MaxOpen - k + 1][name]
<1> DEFINE lines == fs[name].lines
           included == NestedIn(fs)[MaxOpen - k]
           depth == MaxOpen - k + 1
<1>1. Len(lines) \in Nat
  BY DEF FilesTyped
<1>2. Writes(UpTo(lines, included), lines, included)
  BY <1>1, UpToIs
<1>3. UpTo(lines, included)[Len(lines)] = FileWritten(lines, included)
  BY <1>2 DEF Writes
<1>4. depth \in 1 .. MaxOpen /\ depth - 1 = MaxOpen - k
  BY DeckAssumption
<1> HIDE DEF depth
<1>5. NestedIn(fs)[depth][name] = FileWritten(fs[name].lines, NestedIn(fs)[depth - 1])
  BY <1>4, NestedIs DEF Nests
<1> QED
  BY <1>3, <1>4, <1>5 DEF depth

\* An include: its file is read before the next line.
LEMMA FinishedInclude ==
    ASSUME NEW fs, FilesTyped(fs), NEW stack, NEW next, NEW m \in Nat \ {0}, Len(stack) = m,
           Len(next) = m + 1, \A k \in 1 .. m - 1 : next[k] = stack[k],
           next[m].file = stack[m].file, stack[m].file \in DOMAIN fs,
           NEW l \in Nat \ {0}, stack[m].line = l, next[m].line = l + 1, next[m].tok = 1,
           l <= Len(LinesAt(fs, stack, m)),
           LinesAt(fs, stack, m)[l] # <<>>, IsInclude(LinesAt(fs, stack, m)[l][1]),
           LinesAt(fs, stack, m)[l][1].body.file = next[m + 1].file,
           next[m + 1].file \in DOMAIN fs, next[m + 1].line = 1,
           NEW done, Finished(fs, stack, done)
    PROVE  Finished(fs, next, done)
<1> DEFINE read == ReadOf(fs, stack, m, l - 1)
           M == m + 1
<1>1. PICK w : Laid(w, fs, stack) /\ w[m] \in Seq(Outlines) /\ Solid(done) = w[m] \o read
  BY DEF Finished
<1>2. read \in Seq(Outlines)
  BY DEF Finished
<1>3. Len(LinesAt(fs, stack, m)) \in Nat /\ Len(LinesAt(fs, next, m)) \in Nat
      /\ LinesAt(fs, next, m) = LinesAt(fs, stack, m) /\ Len(LinesAt(fs, next, m + 1)) \in Nat
  BY DEF FilesTyped, LinesAt
<1> DEFINE longer == w[m] \o read
           v == [k \in 1 .. M |-> IF k = M THEN longer ELSE w[k]]
<1>4. longer \in Seq(Outlines)
  <2> DEFINE a == w[m]
  <2>1. a \in Seq(Outlines)
    BY <1>1
  <2> HIDE DEF a, read
  <2> QED
    BY <1>2, <2>1 DEF a
<1>5. v[M] = longer /\ \A k \in 1 .. m : v[k] = w[k]
  <2>1. M \in 1 .. M /\ \A k \in 1 .. m : k \in 1 .. M /\ k # M
    OBVIOUS
  <2> HIDE DEF M, longer
  <2> QED
    BY <2>1
<1> HIDE DEF v, longer
<1>6. Waits(fs, next, m)
  BY <1>3 DEF Waits
<1>7. \A n : ReadOf(fs, next, m, n) = ReadOf(fs, stack, m, n)
  BY <1>3 DEF ReadOf
<1>8. ReadOf(fs, next, m, next[m].line - 2) = read
  <2>1. next[m].line - 2 = l - 1
    OBVIOUS
  <2> QED
    BY <1>7, <2>1
<1> HIDE DEF read
<1>9. ASSUME NEW k \in 1 .. m
      PROVE  /\ Waits(fs, next, k)
             /\ ReadOf(fs, next, k, next[k].line - 2) \in Seq(Outlines)
             /\ v[k + 1] = v[k] \o ReadOf(fs, next, k, next[k].line - 2)
             /\ v[k + 1] \in Seq(Outlines)
  <2>1. CASE k = m
    <3>1. v[k] = w[m] /\ v[k + 1] = longer
      BY <1>5, <2>1 DEF M
    <3> QED
      BY <1>2, <1>4, <1>6, <1>8, <2>1, <3>1 DEF longer
  <2>2. CASE k # m
    <3>1. k \in 1 .. m - 1 /\ k + 1 \in 1 .. m
      BY <2>2
    <3>2. /\ Waits(fs, stack, k)
          /\ ReadOf(fs, stack, k, stack[k].line - 2) \in Seq(Outlines)
          /\ w[k + 1] = w[k] \o ReadOf(fs, stack, k, stack[k].line - 2)
          /\ w[k + 1] \in Seq(Outlines)
      BY <1>1, <3>1 DEF Laid
    <3>3. next[k] = stack[k] /\ next[k + 1].file = stack[k + 1].file
      <4>1. next[k] = stack[k]
        BY <3>1
      <4>2. k + 1 \in 1 .. m - 1 \/ k + 1 = m
        BY <3>1
      <4> QED
        BY <4>1, <4>2
    <3>4. \A n : ReadOf(fs, next, k, n) = ReadOf(fs, stack, k, n)
      BY <3>3 DEF ReadOf, LinesAt
    <3>5. Waits(fs, next, k)
      BY <3>2, <3>3 DEF Waits, LinesAt
    <3>6. v[k + 1] = w[k + 1] /\ v[k] = w[k]
      BY <1>5, <3>1
    <3> QED
      BY <3>2, <3>3, <3>4, <3>5, <3>6
  <2> QED
    BY <2>1, <2>2
<1>10. Laid(v, fs, next)
  <2>1. v[1] = <<>> /\ v[1] \in Seq(Outlines)
    <3>1. w[1] = <<>> /\ w[1] \in Seq(Outlines)
      BY <1>1 DEF Laid
    <3>2. 1 \in 1 .. m
      OBVIOUS
    <3> QED
      BY <1>5, <3>1, <3>2
  <2>2. Len(next) - 1 = m
    OBVIOUS
  <2> QED
    BY <1>9, <2>1, <2>2 DEF Laid
<1>11. ReadOf(fs, next, m + 1, next[m + 1].line - 1) = <<>>
  <2>1. next[m + 1].line - 1 = 0
    OBVIOUS
  <2> QED
    BY <1>3, <2>1, ReadNothing
<1>12. Solid(done) = v[m + 1] \o <<>> /\ v[m + 1] \in Seq(Outlines)
  BY <1>1, <1>4, <1>5, EmptyLines DEF longer, M
<1> QED
  BY <1>10, <1>11, <1>12, EmptyLines DEF Finished

\* The end of an included file.
LEMMA FinishedReturn ==
    ASSUME NEW fs, FilesTyped(fs), NEW stack, NEW next, NEW p \in Nat \ {0}, Len(stack) = p + 1,
           p + 1 <= MaxOpen, Len(next) = p, \A k \in 1 .. p : next[k] = stack[k],
           stack[p].file \in DOMAIN fs, stack[p + 1].file \in DOMAIN fs, stack[p].line \in Nat,
           stack[p + 1].line = Len(LinesAt(fs, stack, p + 1)) + 1,
           NEW done, Finished(fs, stack, done)
    PROVE  Finished(fs, next, done)
<1> DEFINE m == p + 1
           read == ReadOf(fs, stack, m, stack[m].line - 1)
           n == stack[p].line - 1
           before == ReadOf(fs, stack, p, n - 1)
           lines == LinesAt(fs, stack, p)
           included == NestedIn(fs)[MaxOpen - p]
<1>1. PICK w : Laid(w, fs, stack) /\ w[m] \in Seq(Outlines) /\ Solid(done) = w[m] \o read
  BY DEF Finished
<1>2. read \in Seq(Outlines)
  BY DEF Finished
<1>3. /\ Waits(fs, stack, p)
      /\ ReadOf(fs, stack, p, stack[p].line - 2) \in Seq(Outlines)
      /\ w[p + 1] = w[p] \o ReadOf(fs, stack, p, stack[p].line - 2)
  <2>1. p \in 1 .. Len(stack) - 1
    OBVIOUS
  <2> QED
    BY <1>1, <2>1 DEF Laid
<1>4. before \in Seq(Outlines) /\ w[m] = w[p] \o before
  <2>1. stack[p].line - 2 = n - 1
    OBVIOUS
  <2> QED
    BY <1>3, <2>1
<1>5. w[p] \in Seq(Outlines)
  <2>1. CASE p = 1
    BY <1>1, <2>1 DEF Laid
  <2>2. CASE p # 1
    <3>1. p - 1 \in 1 .. Len(stack) - 1 /\ (p - 1) + 1 = p
      BY <2>2
    <3> QED
      BY <1>1, <3>1 DEF Laid
  <2> QED
    BY <2>1, <2>2
<1>6. /\ n \in 1 .. Len(lines) /\ lines[n] # <<>> /\ IsInclude(lines[n][1])
      /\ lines[n][1].body.file = stack[m].file
  BY <1>3 DEF Waits
<1>7. Len(lines) \in Nat /\ lines[n] \in Lines
  BY <1>6 DEF FilesTyped, LinesAt
<1>8. LineWritten(lines[n], included) = included[stack[m].file]
  BY <1>6, <1>7, LineWrittenIs
<1>9. included[stack[m].file] = read
  <2>1. m \in 1 .. MaxOpen /\ MaxOpen - m + 1 = MaxOpen - p
    BY DeckAssumption
  <2>2. Len(LinesAt(fs, stack, m)) \in Nat
    BY DEF FilesTyped, LinesAt
  <2>3. stack[m].line - 1 = Len(LinesAt(fs, stack, m))
    BY <2>2
  <2>4. stack[m].file \in DOMAIN fs
    OBVIOUS
  <2> DEFINE name == stack[m].file
  <2>5. name \in DOMAIN fs
    BY <2>4
  <2> HIDE DEF name, m
  <2>6. UpTo(fs[name].lines, NestedIn(fs)[MaxOpen - m])[Len(fs[name].lines)] =
            NestedIn(fs)[MaxOpen - m + 1][name]
    BY <2>1, <2>5, ReadAll
  <2>7. read = UpTo(fs[name].lines, NestedIn(fs)[MaxOpen - m])[Len(fs[name].lines)]
    BY <2>3 DEF ReadOf, LinesAt, name
  <2> QED
    BY <2>1, <2>6, <2>7 DEF name
<1>10. ReadOf(fs, stack, p, n) = before \o read
  <2>1. Writes(UpTo(lines, included), lines, included)
    BY <1>7, UpToIs
  <2>2. UpTo(lines, included)[n] = UpTo(lines, included)[n - 1] \o LineWritten(lines[n], included)
    BY <1>6, <2>1 DEF Writes
  <2> HIDE DEF read
  <2> QED
    BY <1>8, <1>9, <2>2 DEF ReadOf
<1> HIDE DEF read, before, lines, included
<1>11. Solid(done) = w[p] \o (before \o read) /\ before \o read \in Seq(Outlines)
  <2> DEFINE a == w[p]
  <2>1. a \in Seq(Outlines)
    BY <1>5
  <2>2. Solid(done) = (a \o before) \o read
    BY <1>1, <1>4
  <2> HIDE DEF a
  <2>3. (a \o before) \o read = a \o (before \o read)
    BY <1>2, <1>4, <2>1, LinesAssociative
  <2>4. before \o read \in Seq(Outlines)
    BY <1>2, <1>4
  <2> QED
    BY <2>2, <2>3, <2>4 DEF a
<1>12. ReadOf(fs, next, p, next[p].line - 1) = before \o read
  <2>1. p \in 1 .. p
    OBVIOUS
  <2>2. next[p] = stack[p]
    BY <2>1
  <2> QED
    BY <1>10, <2>2 DEF ReadOf, LinesAt
<1>13. Laid(w, fs, next)
  <2>1. ASSUME NEW k \in 1 .. p - 1
        PROVE  /\ Waits(fs, next, k)
               /\ ReadOf(fs, next, k, next[k].line - 2) \in Seq(Outlines)
               /\ w[k + 1] = w[k] \o ReadOf(fs, next, k, next[k].line - 2)
               /\ w[k + 1] \in Seq(Outlines)
    <3>1. k \in 1 .. Len(stack) - 1 /\ k \in 1 .. p /\ k + 1 \in 1 .. p
      OBVIOUS
    <3>2. next[k] = stack[k] /\ next[k + 1] = stack[k + 1]
      BY <3>1
    <3>3. /\ Waits(fs, stack, k)
          /\ ReadOf(fs, stack, k, stack[k].line - 2) \in Seq(Outlines)
          /\ w[k + 1] = w[k] \o ReadOf(fs, stack, k, stack[k].line - 2)
          /\ w[k + 1] \in Seq(Outlines)
      BY <1>1, <3>1 DEF Laid
    <3>4. \A i : ReadOf(fs, next, k, i) = ReadOf(fs, stack, k, i)
      BY <3>2 DEF ReadOf, LinesAt
    <3>5. Waits(fs, next, k)
      BY <3>2, <3>3 DEF Waits, LinesAt
    <3> QED
      BY <3>2, <3>3, <3>4, <3>5
  <2>2. w[1] = <<>> /\ w[1] \in Seq(Outlines)
    BY <1>1 DEF Laid
  <2> QED
    BY <2>1, <2>2 DEF Laid
<1> QED
  BY <1>5, <1>11, <1>12, <1>13 DEF Finished

\* At the end of the deck.
LEMMA FinishedAll ==
    ASSUME NEW fs, FilesTyped(fs), NEW stack, Len(stack) = 1, stack[1].file = "main",
           "main" \in DOMAIN fs, stack[1].line = Len(LinesAt(fs, stack, 1)) + 1,
           NEW done, Finished(fs, stack, done)
    PROVE  Solid(done) = WrittenOf(fs)
<1> DEFINE read == ReadOf(fs, stack, 1, stack[1].line - 1)
<1>1. PICK w : Laid(w, fs, stack) /\ w[1] \in Seq(Outlines) /\ Solid(done) = w[1] \o read
  BY DEF Finished
<1>2. read \in Seq(Outlines)
  BY DEF Finished
<1>3. w[1] = <<>>
  BY <1>1 DEF Laid
<1>4. stack[1].line - 1 = Len(LinesAt(fs, stack, 1))
  BY DEF FilesTyped, LinesAt
<1>5. 1 \in 1 .. MaxOpen /\ MaxOpen - 1 + 1 = MaxOpen
  BY DeckAssumption
<1>6. read = NestedIn(fs)[MaxOpen]["main"]
  <2>1. UpTo(fs["main"].lines, NestedIn(fs)[MaxOpen - 1])[Len(fs["main"].lines)] =
            NestedIn(fs)[MaxOpen - 1 + 1]["main"]
    BY <1>5, ReadAll
  <2>2. read = UpTo(fs["main"].lines, NestedIn(fs)[MaxOpen - 1])[Len(fs["main"].lines)]
    BY <1>4 DEF ReadOf, LinesAt
  <2> QED
    BY <1>5, <2>1, <2>2
<1>7. NestedIn(fs)[MaxOpen]["main"] = WrittenOf(fs)
  BY NestedIs DEF Nests
<1> HIDE DEF read
<1>8. Solid(done) = read
  BY <1>1, <1>2, <1>3, EmptyLines
<1> QED
  BY <1>6, <1>7, <1>8

LEMMA FinishedFirst ==
    ASSUME NEW fs, FilesTyped(fs), NEW stack, Len(stack) = 1, stack[1].file \in DOMAIN fs,
           stack[1].line = 1
    PROVE  Finished(fs, stack, <<>>)
<1> DEFINE w == [k \in 1 .. 1 |-> <<>>]
<1>1. ReadOf(fs, stack, 1, stack[1].line - 1) = <<>>
  <2>1. Len(LinesAt(fs, stack, 1)) \in Nat /\ stack[1].line - 1 = 0
    BY DEF FilesTyped, LinesAt
  <2> QED
    BY <2>1, ReadNothing
<1>2. w[1] = <<>>
  OBVIOUS
<1> HIDE DEF w
<1>3. Laid(w, fs, stack)
  <2>1. 1 .. Len(stack) - 1 = {}
    OBVIOUS
  <2> QED
    BY <1>2, <2>1, EmptyLines DEF Laid
<1>4. Solid(<<>>) = <<>>
  <2>1. PICK f : Chosen(f, <<>>, {n \in DOMAIN <<>> : <<>>[n] # <<>>})
    <3>1. Len(<<>>) \in Nat
      OBVIOUS
    <3> QED
      BY <3>1, ElementsAtSolves
  <2>2. Len(<<>>) = 0
    OBVIOUS
  <2> QED
    BY <2>1, <2>2 DEF Chosen, Solid
<1>5. Solid(<<>>) = w[1] \o <<>>
  BY <1>2, <1>4, EmptyLines
<1> QED
  BY <1>1, <1>2, <1>3, <1>5, EmptyLines DEF Finished


Plain == {"LINE", "PSUB"}
Statements == {"COMMENT", "TRAN", "PRAGMA", "PART", "END"}

\* What was read of the line that is being read.
Begun(lines, at, statement, written) ==
    IF statement = NoStatement
    THEN /\ \A k \in 1 .. at.tok - 1 : lines[at.line][k].kind \in Plain
         /\ written = [k \in 1 .. at.tok - 1 |-> ElementOf(lines[at.line][k])]
    ELSE /\ at.line <= Len(lines) /\ at.tok = 2 /\ lines[at.line][1] = statement
         /\ statement.kind \in Statements
         /\ written = <<>>

AsRead(fs, stack, statement, list) ==
    /\ Finished(fs, stack, InLines(list).done)
    /\ Begun(LinesAt(fs, stack, Len(stack)), stack[Len(stack)], statement, InLines(list).line)

Defined(r) == {e \in ElementSet : e.type = "parameter" => FindParameter(r, e.text) # 0}

(***************************************************************************)
(* The element list refers to parameters that are defined; as long as no   *)
(* error was counted its complete lines are those of the files read so far *)
(* and the line begun is the one being read.                               *)
(***************************************************************************)
ReadInv ==
    /\ elements \in Seq(Defined(registry))
    /\ include_file_stack[1].file = "main"
    /\ AllTerminated /\ registry.errs = 0 /\ pc \in {"reading", "ended", "accepted"} =>
           AsRead(files, include_file_stack, open, elements)
    /\ pc = "accepted" => Len(include_file_stack) = 1 /\ Token.kind = "EOF"

\* The token of files that end in a newline is the one at the position.
LEMMA TokenIs ==
    ASSUME DeckInv, AllTerminated
    PROVE  LET lines == files[top.file].lines
           IN  /\ Token.kind = "EOF" => top.line = Len(lines) + 1 /\ top.tok = 1
               /\ Token.kind # "EOF" => top.line \in 1 .. Len(lines)
               /\ Token.kind = "EOL" => top.tok = Len(lines[top.line]) + 1
               /\ Token.kind \notin {"EOF", "EOL"} =>
                     top.tok \in 1 .. Len(lines[top.line]) /\ Token = lines[top.line][top.tok]
<1> DEFINE lines == files[top.file].lines
<1>1. /\ top \in [file : DOMAIN files, line : Nat \ {0}, tok : Nat \ {0}]
      /\ top = include_file_stack[Len(include_file_stack)]
      /\ Len(include_file_stack) \in DOMAIN include_file_stack
  BY TopOfStack DEF DeckInv
<1>2. top.file \in DOMAIN files /\ top.line \in Nat \ {0} /\ top.tok \in Nat \ {0}
  BY <1>1
<1>3. /\ Len(lines) \in Nat
      /\ \A n \in 1 .. Len(lines) : lines[n] \in Seq(InLine \cup LineStart) /\ Len(lines[n]) \in Nat
  BY <1>2, FileTyped DEF DeckInv
<1>4. /\ top.line <= Len(lines) + 1
      /\ top.tok <= IF top.line > Len(lines) THEN 1 ELSE Len(lines[top.line]) + 1
  BY <1>1 DEF DeckInv, WithinFiles
<1>5. files[top.file].terminated
  BY <1>2 DEF AllTerminated
<1> DEFINE line == lines[top.line]
<1>6. Token = IF top.line > Len(lines) THEN [kind |-> "EOF"]
              ELSE IF top.tok > Len(line) THEN [kind |-> "EOL"]
              ELSE line[top.tok]
  BY <1>5 DEF Token, NextToken
<1> HIDE DEF lines
<1>7. CASE top.line > Len(lines)
  <2>1. Token.kind = "EOF"
    BY <1>6, <1>7
  <2> QED
    BY <1>2, <1>3, <1>4, <1>7, <2>1 DEF lines
<1>8. CASE ~(top.line > Len(lines)) /\ top.tok > Len(line)
  <2>1. Token.kind = "EOL"
    BY <1>6, <1>8
  <2>2. top.line \in 1 .. Len(lines)
    BY <1>2, <1>3, <1>8
  <2>3. top.tok = Len(line) + 1
    BY <1>2, <1>3, <1>4, <1>8, <2>2
  <2> QED
    BY <2>1, <2>2, <2>3 DEF lines
<1>9. CASE ~(top.line > Len(lines)) /\ ~(top.tok > Len(line))
  <2>1. top.line \in 1 .. Len(lines)
    BY <1>2, <1>3, <1>9
  <2>2. top.tok \in 1 .. Len(line)
    BY <1>2, <1>3, <1>9, <2>1
  <2>3. Token = line[top.tok] /\ line \in Seq(InLine \cup LineStart)
    BY <1>3, <1>6, <1>9, <2>1
  <2>4. Token \in InLine \cup LineStart
    <3> HIDE DEF line
    <3> QED
      BY <2>2, <2>3
  <2>5. Token.kind \notin {"EOF", "EOL"}
    BY <2>4 DEF InLine, LineStart, Whole, Part
  <2> QED
    BY <2>1, <2>2, <2>3, <2>5 DEF lines
<1> QED
  BY <1>7, <1>8, <1>9

\* How the stack of open files moves on.
LEMMA ForwardKeepsBelow ==
    ASSUME DeckInv
    PROVE  LET m == Len(include_file_stack)
           IN  /\ m \in Nat \ {0}
               /\ SameBelow(include_file_stack, Forward, m)
               /\ include_file_stack[m] = top
               /\ Forward[m].line = IF Token.kind = "EOL" THEN top.line + 1 ELSE top.line
               /\ Forward[m].tok = IF Token.kind = "EOL" THEN 1 ELSE top.tok + 1
<1> DEFINE m == Len(include_file_stack)
<1>1. /\ top \in [file : DOMAIN files, line : Nat \ {0}, tok : Nat \ {0}]
      /\ top = include_file_stack[m] /\ m \in 1 .. MaxOpen /\ MaxOpen \in Nat
  BY TopOfStack DEF DeckInv
<1>2. /\ Len(Forward) = m /\ Forward[m] = Moved(top)
      /\ \A k \in 1 .. m - 1 : Forward[k] = include_file_stack[k]
  BY ForwardIs
<1>3. /\ Moved(top).file = top.file
      /\ Moved(top).line = IF Token.kind = "EOL" THEN top.line + 1 ELSE top.line
      /\ Moved(top).tok = IF Token.kind = "EOL" THEN 1 ELSE top.tok + 1
  <2> HIDE DEF m
  <2> DEFINE at == top
  <2>1. at \in [file : DOMAIN files, line : Nat \ {0}, tok : Nat \ {0}]
    BY <1>1
  <2>2. Moved(at) = IF Token.kind = "EOL" THEN [at EXCEPT !.line = @ + 1, !.tok = 1]
                    ELSE [at EXCEPT !.tok = @ + 1]
    BY DEF Moved
  <2> HIDE DEF at
  <2>3. DOMAIN at = {"file", "line", "tok"}
    BY <2>1
  <2>4. CASE Token.kind = "EOL"
    BY <2>2, <2>3, <2>4 DEF at
  <2>5. CASE Token.kind # "EOL"
    BY <2>2, <2>3, <2>5 DEF at
  <2> QED
    BY <2>4, <2>5
<1> QED
  BY <1>1, <1>2, <1>3 DEF SameBelow

LEMMA FilesOK ==
    ASSUME StackOK
    PROVE  FilesTyped(files)
  BY FileTyped DEF FilesTyped


(***************************************************************************)
(* What the additions to the element list do to the lines.                 *)
(***************************************************************************)
LEMMA ElementsDefined ==
    ASSUME NEW r
    PROVE  /\ NewLine \in Defined(r)
           /\ \A text \in Texts \cup {TranText} : TextElement(text) \in Defined(r)
           /\ \A name \in STRING : FindParameter(r, name) # 0 => ParameterElement(name) \in Defined(r)
           /\ Defined(r) \subseteq ElementSet
           /\ \A token \in InLine : /\ ElementOf(token) \in ElementSet
                                    /\ ElementOf(token) # NewLine
                                    /\ ElementOf(token) # TextElement(TranText)
                                    /\ token.kind \in Plain
<1>1. NewLine \in Defined(r)
  BY DEF NewLine, Defined, ElementSet
<1>2. \A text \in Texts \cup {TranText} : TextElement(text) \in Defined(r)
  BY DEF TextElement, Defined, ElementSet
<1>3. \A name \in STRING : ParameterElement(name) \in ElementSet /\ ParameterElement(name).text = name
  BY DEF ParameterElement, ElementSet
<1>4. \A name \in STRING : FindParameter(r, name) # 0 => ParameterElement(name) \in Defined(r)
  BY <1>3 DEF Defined
<1>5. Defined(r) \subseteq ElementSet
  BY DEF Defined
<1>6. ASSUME NEW token \in InLine
      PROVE  /\ ElementOf(token) \in ElementSet
             /\ ElementOf(token) # NewLine
             /\ ElementOf(token) # TextElement(TranText)
             /\ token.kind \in Plain
  <2>1. CASE token.kind = "LINE"
    <3>1. token.text \in Texts /\ ElementOf(token) = TextElement(token.text)
      BY <2>1 DEF InLine, ElementOf
    <3>2. ElementOf(token) \in ElementSet
      <4> DEFINE text == token.text
      <4>1. text \in Texts
        BY <3>1
      <4> HIDE DEF text
      <4>2. TextElement(text) \in ElementSet
        BY <4>1 DEF TextElement, ElementSet
      <4> QED
        BY <3>1, <4>2 DEF text
    <3>3. token.text # TranText
      BY <3>1, DeckAssumption
    <3>4. ElementOf(token) # NewLine
      <4> DEFINE text == token.text
      <4>1. TextElement(text).type = "text" /\ NewLine.type = "new_line"
        BY DEF TextElement, NewLine
      <4> HIDE DEF text
      <4> QED
        BY <3>1, <4>1 DEF text
    <3>5. ElementOf(token) # TextElement(TranText)
      <4> DEFINE text == token.text
      <4>1. TextElement(text).text = text /\ TextElement(TranText).text = TranText
        BY DEF TextElement
      <4> HIDE DEF text
      <4> QED
        BY <3>1, <3>3, <4>1 DEF text
    <3> QED
      BY <2>1, <3>2, <3>4, <3>5 DEF Plain
  <2>2. CASE token.kind # "LINE"
    <3>1. token.kind = "PSUB" /\ token.name \in STRING /\ ElementOf(token) = ParameterElement(token.name)
      BY <2>2 DEF InLine, ElementOf
    <3> DEFINE name == token.name
    <3>4. /\ ParameterElement(name).type = "parameter" /\ NewLine.type = "new_line"
          /\ TextElement(TranText).type = "text"
      BY DEF ParameterElement, NewLine, TextElement
    <3> HIDE DEF name
    <3>2. ElementOf(token) # NewLine
      BY <3>1, <3>4 DEF name
    <3>3. ElementOf(token) # TextElement(TranText)
      BY <3>1, <3>4 DEF name
    <3> QED
      BY <1>3, <3>1, <3>2, <3>3 DEF Plain
  <2> QED
    BY <2>1, <2>2
<1> QED
  BY <1>1, <1>2, <1>4, <1>5, <1>6

LEMMA PlainAdded ==
    ASSUME NEW S, NEW list \in Seq(S), NEW e \in S, e # NewLine, e # TextElement(TranText)
    PROVE  /\ InLines(Append(list, e)).done = InLines(list).done
           /\ InLines(Append(list, e)).line = Append(InLines(list).line, e)
<1> DEFINE out == InLines(list)
<1>1. out \in LineSets(S)
  BY InLinesTyped
<1> HIDE DEF out
<1>2. AddElement(out, e) = [out EXCEPT !.line = Append(@, e)]
  BY DEF AddElement
<1>3. DOMAIN out = {"done", "line"}
  BY <1>1 DEF LineSets
<1>4. AddElement(out, e).done = out.done /\ AddElement(out, e).line = Append(out.line, e)
  BY <1>2, <1>3
<1> QED
  BY <1>4, InLinesAppend DEF out

\* A newline, suppressed after another.
LEMMA NewLineAdded ==
    ASSUME NEW S, NEW list \in Seq(S), NewLine \in S
    PROVE  LET out == InLines(list)
               next == InLines(AddNl(list))
           IN  /\ next.line = <<>> /\ AddNl(list) \in Seq(S)
               /\ Solid(next.done) = IF out.line # <<>> THEN Append(Solid(out.done), out.line)
                                     ELSE Solid(out.done)
<1> DEFINE out == InLines(list)
<1>1. out.done \in Seq(Seq(S)) /\ out.line \in Seq(S)
  BY InLinesTyped DEF LineSets
<1>2. CASE list # <<>> /\ Last(list) = NewLine
  <2>1. AddNl(list) = list
    BY <1>2 DEF AddNl
  <2>2. out.line = <<>>
    BY <1>2, InLinesNewLine
  <2> HIDE DEF out
  <2> QED
    BY <2>1, <2>2 DEF out
<1>3. CASE ~(list # <<>> /\ Last(list) = NewLine)
  <2>1. AddNl(list) = Append(list, NewLine)
    BY <1>3 DEF AddNl
  <2>2. InLines(AddNl(list)) = AddElement(out, NewLine)
    BY <2>1, InLinesAppend
  <2> HIDE DEF out
  <2>3. AddElement(out, NewLine) = [done |-> Append(out.done, out.line), line |-> <<>>]
    BY DEF AddElement
  <2>4. Solid(Append(out.done, out.line)) = IF out.line # <<>> THEN Append(Solid(out.done), out.line)
                                            ELSE Solid(out.done)
    BY <1>1, SolidAppend
  <2>5. Append(list, NewLine) \in Seq(S)
    OBVIOUS
  <2> QED
    BY <2>1, <2>2, <2>3, <2>4, <2>5 DEF out
<1> QED
  BY <1>2, <1>3

\* The text of a .tran ends its line.
LEMMA TranAdded ==
    ASSUME NEW S, NEW list \in Seq(S), TextElement(TranText) \in S, InLines(list).line = <<>>
    PROVE  LET next == InLines(Append(list, TextElement(TranText)))
           IN  /\ next.line = <<>>
               /\ Solid(next.done) = Append(Solid(InLines(list).done), <<TextElement(TranText)>>)
<1> DEFINE out == InLines(list)
           e == TextElement(TranText)
           line == <<e>>
<1>1. out.done \in Seq(Seq(S)) /\ out.line = <<>>
  BY InLinesTyped DEF LineSets
<1>2. InLines(Append(list, e)) = AddElement(out, e)
  BY InLinesAppend
<1> HIDE DEF out
<1>3. e # NewLine
  BY DEF TextElement, NewLine
<1>4. AddElement(out, e) = [done |-> Append(out.done, Append(out.line, e)), line |-> <<>>]
  BY <1>3 DEF AddElement
<1> HIDE DEF e
<1>5. Append(out.line, e) = line
  BY <1>1
<1>6. line \in Seq(S) /\ line # <<>>
  BY DEF e
<1> HIDE DEF line
<1>7. Solid(Append(out.done, line)) = Append(Solid(out.done), line)
  BY <1>1, <1>6, SolidAppend
<1> QED
  BY <1>2, <1>4, <1>5, <1>7 DEF out, line, e

LEMMA SolidTyped ==
    ASSUME NEW S, NEW done \in Seq(Seq(S))
    PROVE  Solid(done) \in Seq(Seq(S))
<1> DEFINE X == Seq(S)
<1>1. done \in Seq(X)
  OBVIOUS
<1> HIDE DEF X
<1>2. ElementsAt(done, {n \in DOMAIN done : done[n] # <<>>}) \in Seq(X)
  BY <1>1, ElementsTyped
<1> QED
  BY <1>2 DEF X, Solid

LEMMA OneLineMore ==
    ASSUME NEW s \in Seq(Outlines), NEW line \in Outlines
    PROVE  Append(s, line) = s \o <<line>> /\ <<line>> \in Seq(Outlines)
<1> DEFINE X == Outlines
<1>1. s \in Seq(X) /\ line \in X
  OBVIOUS
<1> HIDE DEF X
<1>2. Append(s, line) = s \o <<line>>
  BY <1>1, AppendIsConcat
<1>3. <<line>> \in Seq(X)
  BY <1>1
<1> QED
  BY <1>2, <1>3 DEF X


LEMMA SameParams ==
    ASSUME NEW r, NEW q, q.params = r.params
    PROVE  \A name : FindParameter(q, name) = FindParameter(r, name)
  BY DEF FindParameter

(***************************************************************************)
(* A handler takes no parameter out of the registry and no error back.     *)
(***************************************************************************)
LEMMA DefineGrows ==
    ASSUME NEW r, RegistryOK(r), NEW b \in Bodies
    PROVE  /\ Define(r, b).errs = 0 => r.errs = 0
           /\ \A name : FindParameter(r, name) # 0 => FindParameter(Define(r, b), name) # 0
<1> DEFINE e == BodyErrors(r, b)
           parsed == [r EXCEPT !.errs = @ + BodyErrors(r, b)]
           q == Define(r, b)
<1>1. IsRegistry(r) /\ r.errs \in Nat /\ e \in Nat
  BY BodyCounted DEF RegistryOK, IsRegistry
<1>2. /\ DOMAIN parsed = Fields /\ parsed.errs = r.errs + e /\ parsed.params = r.params
      /\ "errs" \in Fields /\ "params" \in Fields
  <2> HIDE DEF e
  <2>1. parsed = [r EXCEPT !["errs"] = r["errs"] + e]
    BY DEF e
  <2> HIDE DEF parsed
  <2>2. DOMAIN parsed = Fields /\ parsed["errs"] = r["errs"] + e /\ parsed["params"] = r["params"]
    BY <1>1, <2>1 DEF IsRegistry, Fields
  <2> QED
    BY <2>2 DEF Fields
<1>3. q = IF Refused(r, b) THEN [parsed EXCEPT !["errs"] = parsed["errs"] + 1]
          ELSE IF Aborts(b) THEN [parsed EXCEPT !["aborted"] = TRUE]
          ELSE Added(parsed, b)
  BY DEF Define
<1> HIDE DEF parsed, e, q
<1>7. q.params = r.params => \A name : FindParameter(q, name) = FindParameter(r, name)
  BY SameParams
<1>4. ASSUME Refused(r, b)
      PROVE  q.params = r.params /\ q.errs = r.errs + e + 1
  <2>1. q = [parsed EXCEPT !["errs"] = parsed["errs"] + 1]
    BY <1>3, <1>4
  <2> QED
    BY <1>2, <2>1
<1>5. ASSUME ~Refused(r, b), Aborts(b) \/ b.op \notin {"const", "expr", "scan", "pwl"}
      PROVE  q.params = r.params /\ q.errs = r.errs + e
  <2>1. CASE Aborts(b)
    <3>1. q = [parsed EXCEPT !["aborted"] = TRUE]
      BY <1>3, <1>5, <2>1
    <3> QED
      BY <1>2, <3>1
  <2>2. CASE ~Aborts(b)
    <3>1. q = Added(parsed, b)
      BY <1>3, <1>5, <2>2
    <3> SUFFICES q["params"] = parsed["params"] /\ q["errs"] = parsed["errs"]
      BY <1>2
    <3>2. \/ b.op \in {"monitor", "lsq_fit"}
          \/ b.op \in {"pattern", "sim_anneal", "sa_schedule", "baysian_opt", "snapshot"}
      BY <1>5, <2>2 DEF Bodies
    <3>3. CASE b.op = "monitor"
      <4>1. q = [parsed EXCEPT !["nois"] = parsed["nois"] \cup {b.name}]
        BY <3>1, <3>3 DEF Added
      <4> QED
        BY <1>2, <4>1
    <3>4. CASE b.op = "lsq_fit"
      <4>1. q = [parsed EXCEPT !["lsqs"] = parsed["lsqs"] \cup {b.name}]
        BY <3>1, <3>4 DEF Added
      <4> QED
        BY <1>2, <4>1
    <3>5. CASE b.op = "pattern"
      <4>1. q = [parsed EXCEPT !["patterns"] = Append(parsed["patterns"], [name |-> b.name,
                                                    entries |-> PatternTerms(parsed, b.items)])]
        BY <3>1, <3>5 DEF Added
      <4> QED
        BY <1>2, <4>1
    <3>6. CASE b.op = "sim_anneal"
      <4>1. q = [parsed EXCEPT !["anneal"] = <<>>]
        BY <3>1, <3>6 DEF Added
      <4> QED
        BY <1>2, <4>1
    <3>7. CASE b.op = "sa_schedule"
      <4>1. q = [parsed EXCEPT !["anneal"] = Append(parsed["anneal"], <<b.temp, b.n>>)]
        BY <3>1, <3>7 DEF Added
      <4> QED
        BY <1>2, <4>1
    <3>8. CASE b.op = "baysian_opt"
      <4>1. q = [parsed EXCEPT !["bo"] = BOMode(b.attrs)]
        BY <3>1, <3>8 DEF Added
      <4> QED
        BY <1>2, <4>1
    <3>9. CASE b.op = "snapshot"
      <4>1. q = [parsed EXCEPT !["snapshot"] = <<b.start, b.freq>>]
        BY <3>1, <3>9 DEF Added
      <4> QED
        BY <1>2, <4>1
    <3> QED
      BY <3>2, <3>3, <3>4, <3>5, <3>6, <3>7, <3>8, <3>9
  <2> QED
    BY <2>1, <2>2
<1>6. ASSUME ~Refused(r, b), ~Aborts(b), b.op \in {"const", "expr", "scan", "pwl"}
      PROVE  /\ q.errs = r.errs + e
             /\ \A name : FindParameter(r, name) # 0 => FindParameter(q, name) # 0
  <2> DEFINE p == Parameter(b)
  <2>1. q = [parsed EXCEPT !["params"] = Append(parsed["params"], p)]
    BY <1>3, <1>6 DEF Added
  <2>2. p \in Params
    BY <1>6 DEF Params, ParamBodies
  <2> HIDE DEF p
  <2>3. q.params = Append(r.params, p) /\ q.errs = r.errs + e
    BY <1>2, <2>1
  <2>4. r.params \in Seq(Params)
    BY <1>1 DEF IsRegistry
  <2> DEFINE s == r.params
             t == q.params
  <2>5. /\ Len(s) \in Nat /\ Len(t) = Len(s) + 1
        /\ \A i \in 1 .. Len(s) : t[i] = s[i]
    <3>1. s \in Seq(Params) /\ t = Append(s, p)
      BY <2>3, <2>4
    <3> HIDE DEF s, t
    <3> QED
      BY <2>2, <3>1
  <2>6. ASSUME NEW name, FindParameter(r, name) # 0 PROVE FindParameter(q, name) # 0
    <3>1. PICK i \in 1 .. Len(r.params) : r.params[i].name = name
      BY <2>5, <2>6, Found
    <3>2. i \in 1 .. Len(q.params) /\ q.params[i].name = name /\ Len(q.params) \in Nat
      BY <2>5, <3>1
    <3> QED
      BY <3>2, Found
  <2> QED
    BY <2>3, <2>6
<1>8. q.errs = r.errs + e \/ q.errs = r.errs + e + 1
  BY <1>4, <1>5, <1>6
<1>9. q.errs = 0 => r.errs = 0
  BY <1>1, <1>8
<1>10. \A name : FindParameter(r, name) # 0 => FindParameter(q, name) # 0
  BY <1>4, <1>5, <1>6, <1>7
<1> QED
  BY <1>9, <1>10 DEF q

LEMMA DefinedMore ==
    ASSUME NEW r, NEW q, \A name : FindParameter(r, name) # 0 => FindParameter(q, name) # 0,
           NEW list \in Seq(Defined(r))
    PROVE  list \in Seq(Defined(q))
<1>1. Defined(r) \subseteq Defined(q)
  BY DEF Defined
<1> HIDE DEF Defined
<1> QED
  BY <1>1


(***************************************************************************)
(* Each token moves on what was read.                                      *)
(***************************************************************************)
Reading(statement, list) ==
    /\ DeckInv /\ AllTerminated
    /\ list \in Seq(ElementSet)
    /\ AsRead(files, include_file_stack, statement, list)

Here == LinesAt(files, include_file_stack, Len(include_file_stack))

LEMMA HereIs ==
    ASSUME NEW statement, NEW list, Reading(statement, list)
    PROVE  LET m == Len(include_file_stack)
           IN  /\ m \in Nat \ {0} /\ m <= MaxOpen /\ include_file_stack[m] = top
               /\ Here = files[top.file].lines
               /\ top.file \in DOMAIN files /\ top.line \in Nat \ {0} /\ top.tok \in Nat \ {0}
               /\ FilesTyped(files) /\ Len(Here) \in Nat
               /\ \A n \in 1 .. Len(Here) : Here[n] \in Lines /\ Here[n] \in Seq(InLine \cup LineStart)
               /\ Finished(files, include_file_stack, InLines(list).done)
               /\ Begun(Here, top, statement, InLines(list).line)
<1> DEFINE m == Len(include_file_stack)
<1>1. /\ m \in Nat \ {0} /\ m <= MaxOpen /\ include_file_stack[m] = top
      /\ top \in [file : DOMAIN files, line : Nat \ {0}, tok : Nat \ {0}]
  BY TopOfStack DEF Reading, DeckInv
<1>2. top.file \in DOMAIN files /\ top.line \in Nat \ {0} /\ top.tok \in Nat \ {0}
  BY <1>1
<1>3. Here = files[top.file].lines
  BY <1>1 DEF Here, LinesAt
<1>4. /\ Len(Here) \in Nat
      /\ \A n \in 1 .. Len(Here) : Here[n] \in Lines /\ Here[n] \in Seq(InLine \cup LineStart)
  BY <1>2, <1>3, FileTyped DEF Reading, DeckInv
<1>5. FilesTyped(files)
  BY FilesOK DEF Reading, DeckInv
<1>6. /\ Finished(files, include_file_stack, InLines(list).done)
      /\ Begun(Here, top, statement, InLines(list).line)
  BY <1>1 DEF Reading, AsRead, Here
<1> QED
  BY <1>1, <1>2, <1>3, <1>4, <1>5, <1>6

\* At the start of a line nothing has been read of it.
LEMMA BegunLine ==
    ASSUME NEW lines, NEW at, at.tok = 1
    PROVE  /\ Begun(lines, at, NoStatement, <<>>)
           /\ \A written : Begun(lines, at, NoStatement, written) => written = <<>>
<1>1. [k \in 1 .. at.tok - 1 |-> ElementOf(lines[at.line][k])] = <<>>
  <2> DEFINE s == [k \in 1 .. at.tok - 1 |-> ElementOf(lines[at.line][k])]
  <2>1. DOMAIN s = {} /\ s = [k \in DOMAIN s |-> s[k]]
    OBVIOUS
  <2> HIDE DEF s
  <2>2. s = <<>>
    BY <2>1, EmptyIs
  <2> QED
    BY <2>2 DEF s
<1>2. \A k \in 1 .. at.tok - 1 : lines[at.line][k].kind \in Plain
  OBVIOUS
<1> QED
  BY <1>1, <1>2 DEF Begun

\* The files after a token of a file.
LEMMA MovedOn ==
    ASSUME NEW statement, NEW list, Reading(statement, list)
    PROVE  LET m == Len(include_file_stack)
           IN  /\ SameBelow(include_file_stack, Forward, m) /\ Len(Forward) = m
               /\ LinesAt(files, Forward, m) = Here
               /\ Forward[m].line = IF Token.kind = "EOL" THEN top.line + 1 ELSE top.line
               /\ Forward[m].tok = IF Token.kind = "EOL" THEN 1 ELSE top.tok + 1
  BY ForwardKeepsBelow DEF Reading, SameBelow, LinesAt, Here

LEMMA OneMore ==
    ASSUME NEW line, NEW n \in Nat
    PROVE  Append([k \in 1 .. n |-> ElementOf(line[k])], ElementOf(line[n + 1])) =
               [k \in 1 .. n + 1 |-> ElementOf(line[k])]
<1> DEFINE s == [k \in 1 .. n |-> ElementOf(line[k])]
           t == [k \in 1 .. n + 1 |-> ElementOf(line[k])]
<1>1. Tabulates(s, n) /\ Tabulates(t, n + 1)
  BY DEF Tabulates
<1>2. \A k \in 1 .. n : t[k] = s[k]
  OBVIOUS
<1>3. t[n + 1] = ElementOf(line[n + 1])
  OBVIOUS
<1> HIDE DEF s, t
<1>4. t = Append(s, t[n + 1])
  BY <1>1, <1>2, AppendIs
<1> QED
  BY <1>3, <1>4 DEF s, t

\* A token of text, or a reference to a parameter.
LEMMA PlainRead ==
    ASSUME Reading(NoStatement, elements), Token.kind \in Plain
    PROVE  AsRead(files, Forward, NoStatement, Append(elements, ElementOf(Token)))
<1> DEFINE m == Len(include_file_stack)
           written == InLines(elements).line
           e == ElementOf(Token)
           n == top.tok - 1
           line == Here[top.line]
           next == Append(elements, e)
<1>1. /\ m \in Nat \ {0} /\ include_file_stack[m] = top /\ n \in Nat /\ top.tok = n + 1
      /\ Here = files[top.file].lines
      /\ Finished(files, include_file_stack, InLines(elements).done)
      /\ Begun(Here, top, NoStatement, written)
  BY HereIs
<1>2. /\ SameBelow(include_file_stack, Forward, m) /\ Len(Forward) = m
      /\ LinesAt(files, Forward, m) = Here
      /\ Forward[m].line = top.line /\ Forward[m].tok = n + 2
  BY <1>1, MovedOn DEF Plain
<1>3. Token = line[n + 1]
  BY <1>1, TokenIs DEF Reading, Plain
<1>4. Token \in InLine
  BY TokenTyped DEF Reading, DeckInv, Tokens, LineStart, Whole, Part, Plain
<1>5. e \in ElementSet /\ e # NewLine /\ e # TextElement(TranText)
  BY <1>4, ElementsDefined
<1> HIDE DEF e
<1>6. InLines(next).done = InLines(elements).done /\ InLines(next).line = Append(written, e)
  BY <1>5, PlainAdded DEF Reading
<1> HIDE DEF next
<1>7. Finished(files, Forward, InLines(next).done)
  BY <1>1, <1>2, <1>6, FinishedInLine
<1>8. /\ \A k \in 1 .. n : line[k].kind \in Plain
      /\ written = [k \in 1 .. n |-> ElementOf(line[k])]
  BY <1>1 DEF Begun
<1>9. \A k \in 1 .. n + 1 : line[k].kind \in Plain
  BY <1>1, <1>3, <1>8
<1>10. Append(written, e) = [k \in 1 .. n + 1 |-> ElementOf(line[k])]
  <2> HIDE DEF written, line
  <2>1. n \in Nat /\ written = [k \in 1 .. n |-> ElementOf(line[k])] /\ e = ElementOf(line[n + 1])
    BY <1>1, <1>3, <1>8 DEF e
  <2> HIDE DEF n
  <2> QED
    BY <2>1, OneMore
<1>11. Begun(Here, Forward[m], NoStatement, InLines(next).line)
  <2>1. Forward[m].tok - 1 = n + 1
    BY <1>1, <1>2
  <2> HIDE DEF n, written
  <2> QED
    BY <1>2, <1>6, <1>9, <1>10, <2>1 DEF Begun
<1> HIDE DEF m
<1> QED
  BY <1>2, <1>7, <1>11 DEF AsRead, next, e

\* The first token of a line.
LEMMA StatementRead ==
    ASSUME Reading(NoStatement, elements), Token.kind \in Statements
    PROVE  AsRead(files, Forward, Token, elements)
<1> DEFINE m == Len(include_file_stack)
           written == InLines(elements).line
<1>1. /\ m \in Nat \ {0} /\ include_file_stack[m] = top /\ top.tok \in Nat \ {0}
      /\ Here = files[top.file].lines /\ Len(Here) \in Nat
      /\ \A n \in 1 .. Len(Here) : Here[n] \in Lines
      /\ Finished(files, include_file_stack, InLines(elements).done)
      /\ Begun(Here, top, NoStatement, written)
  BY HereIs
<1>2. /\ SameBelow(include_file_stack, Forward, m) /\ Len(Forward) = m
      /\ LinesAt(files, Forward, m) = Here
      /\ Forward[m].line = top.line /\ Forward[m].tok = top.tok + 1
  BY <1>1, MovedOn DEF Statements
<1>3. /\ top.line \in 1 .. Len(Here) /\ Token = Here[top.line][top.tok]
      /\ top.tok \in 1 .. Len(Here[top.line])
  BY <1>1, TokenIs DEF Reading, Statements
<1>4. top.tok = 1
  <2> DEFINE line == Here[top.line]
  <2>1. line \in Lines
    BY <1>1, <1>3
  <2>2. line \in Seq(InLine \cup LineStart) /\ \A k \in DOMAIN line : k > 1 => line[k] \in InLine
    BY <2>1 DEF Lines
  <2>3. Token \notin InLine
    BY DEF InLine, Statements
  <2> HIDE DEF line
  <2>4. top.tok \in DOMAIN line /\ Token = line[top.tok]
    BY <1>3, <2>2 DEF line
  <2> QED
    BY <1>1, <2>2, <2>3, <2>4
<1>5. written = <<>>
  BY <1>1, <1>4, BegunLine
<1>6. Finished(files, Forward, InLines(elements).done)
  BY <1>1, <1>2, FinishedInLine
<1>7. Token # NoStatement
  BY DEF NoStatement, Statements
<1>8. Begun(Here, Forward[m], Token, written)
  <2> HIDE DEF m, written
  <2> QED
    BY <1>2, <1>3, <1>4, <1>5, <1>7 DEF Begun
<1> HIDE DEF m
<1> QED
  BY <1>2, <1>6, <1>8 DEF AsRead


\* The end of a line that added those lines.
Adds(list, next, added) ==
    /\ InLines(next).line = <<>>
    /\ Solid(InLines(next).done) = Solid(InLines(list).done) \o added

LEMMA LineRead ==
    ASSUME NEW statement, Reading(statement, elements), Token.kind = "EOL",
           NEW added \in Seq(Outlines),
           LineWritten(Here[top.line], NestedIn(files)[MaxOpen - Len(include_file_stack)]) = added,
           NEW next, Adds(elements, next, added)
    PROVE  AsRead(files, Forward, NoStatement, next)
<1> DEFINE m == Len(include_file_stack)
           l == top.line
           done == InLines(elements).done
           longer == InLines(next).done
<1>1. /\ m \in Nat \ {0} /\ include_file_stack[m] = top /\ l \in Nat \ {0}
      /\ Here = files[top.file].lines /\ Len(Here) \in Nat
      /\ Finished(files, include_file_stack, done)
  BY HereIs
<1>2. /\ SameBelow(include_file_stack, Forward, m) /\ Len(Forward) = m
      /\ LinesAt(files, Forward, m) = Here
      /\ Forward[m].line = l + 1 /\ Forward[m].tok = 1
  BY <1>1, MovedOn
<1>3. l <= Len(Here)
  BY <1>1, TokenIs DEF Reading
<1>4. /\ Len(LinesAt(files, include_file_stack, m)) \in Nat
      /\ l <= Len(LinesAt(files, include_file_stack, m))
      /\ LineWritten(LinesAt(files, include_file_stack, m)[l], NestedIn(files)[MaxOpen - m]) = added
      /\ include_file_stack[m].line = l
  BY <1>1, <1>3 DEF Here
<1>5. Solid(longer) = Solid(done) \o added /\ InLines(next).line = <<>>
  BY DEF Adds
<1> DEFINE forward == Forward
           stack == include_file_stack
<1>6. Finished(files, forward, longer)
  <2>1. Finished(files, stack, done) /\ SameBelow(stack, forward, m)
    BY <1>1, <1>2
  <2>2. m \in Nat \ {0} /\ l \in Nat \ {0} /\ stack[m].line = l /\ forward[m].line = l + 1
    BY <1>1, <1>2, <1>4
  <2> HIDE DEF m, l, done, longer, forward, stack
  <2> QED
    BY <1>4, <1>5, <2>1, <2>2, FinishedLine DEF stack
<1> HIDE DEF m, l, done, longer
<1>7. Begun(Here, Forward[m], NoStatement, <<>>)
  BY <1>2, BegunLine
<1> QED
  BY <1>2, <1>5, <1>6, <1>7 DEF AsRead, longer

\* The end of a line of text, or of a blank one.
LEMMA BlankRead ==
    ASSUME Reading(NoStatement, elements), Token.kind = "EOL"
    PROVE  AsRead(files, Forward, NoStatement, AddNl(elements))
<1> DEFINE m == Len(include_file_stack)
           line == Here[top.line]
           written == InLines(elements).line
           solid == Solid(InLines(elements).done)
           included == NestedIn(files)[MaxOpen - m]
           next == AddNl(elements)
<1>1. /\ Here = files[top.file].lines /\ Len(Here) \in Nat
      /\ \A n \in 1 .. Len(Here) : Here[n] \in Lines /\ Here[n] \in Seq(InLine \cup LineStart)
      /\ Begun(Here, top, NoStatement, written)
  BY HereIs
<1>2. top.line \in 1 .. Len(Here) /\ top.tok = Len(line) + 1
  BY <1>1, TokenIs DEF Reading
<1>3. line \in Lines /\ line \in Seq(InLine \cup LineStart)
  BY <1>1, <1>2
<1>4. /\ \A k \in DOMAIN line : line[k].kind \in Plain
      /\ written = [k \in DOMAIN line |-> ElementOf(line[k])]
  <2>1. Len(line) \in Nat /\ DOMAIN line = 1 .. Len(line) /\ top.tok - 1 = Len(line)
    BY <1>2, <1>3
  <2>2. /\ \A k \in 1 .. top.tok - 1 : line[k].kind \in Plain
        /\ written = [k \in 1 .. top.tok - 1 |-> ElementOf(line[k])]
    BY <1>1 DEF Begun
  <2> HIDE DEF line, written
  <2> QED
    BY <2>1, <2>2
<1>5. elements \in Seq(ElementSet) /\ NewLine \in ElementSet
  BY ElementsDefined DEF Reading
<1>6. /\ InLines(next).line = <<>>
      /\ Solid(InLines(next).done) = IF written # <<>> THEN Append(solid, written) ELSE solid
  BY <1>5, NewLineAdded
<1>7. written \in Outlines /\ solid \in Seq(Outlines)
  BY <1>5, InLinesTyped, SolidTyped DEF LineSets, Outlines
<1> HIDE DEF included, next, m, line, written, solid
<1>8. CASE line = <<>>
  <2>1. LineWritten(line, included) = <<>>
    BY <1>3, <1>8, LineWrittenIs
  <2>2. DOMAIN line = {}
    BY <1>8
  <2>3. written = <<>>
    BY <1>4, <2>2, EmptyIs
  <2>4. Solid(InLines(next).done) = solid \o <<>> /\ <<>> \in Seq(Outlines)
    BY <1>6, <1>7, <2>3, EmptyLines
  <2>5. Adds(elements, next, <<>>)
    BY <1>6, <2>4 DEF Adds, solid
  <2> QED
    BY <2>1, <2>4, <2>5, LineRead DEF included, next, m, line
<1>9. CASE line # <<>>
  <2>1. 1 \in DOMAIN line
    BY <1>3, <1>9
  <2>2. LineWritten(line, included) = <<written>>
    BY <1>3, <1>4, <1>9, <2>1, LineWrittenIs DEF Plain
  <2>3. written # <<>>
    <3>1. DOMAIN written = DOMAIN line
      BY <1>4
    <3>2. DOMAIN <<>> = {}
      OBVIOUS
    <3> QED
      BY <2>1, <3>1, <3>2
  <2>4. Solid(InLines(next).done) = solid \o <<written>> /\ <<written>> \in Seq(Outlines)
    BY <1>6, <1>7, <2>3, OneLineMore
  <2>5. Adds(elements, next, <<written>>)
    BY <1>6, <2>4 DEF Adds, solid
  <2> QED
    BY <2>2, <2>4, <2>5, LineRead DEF included, next, m, line
<1> QED
  BY <1>8, <1>9

\* The end of a statement that is not an include.
LEMMA StatementDone ==
    ASSUME open # NoStatement, open \notin Part, ~IsInclude(open), Token.kind = "EOL",
           Reading(open, elements)
    PROVE  AsRead(files, Forward, NoStatement,
                  CASE open.kind = "TRAN" -> AddLine(elements, TranText)
                    [] open.kind = "END" -> AddNl(AddLine(elements, EndText))
                    [] OTHER -> elements)
<1> DEFINE m == Len(include_file_stack)
           line == Here[top.line]
           solid == Solid(InLines(elements).done)
           included == NestedIn(files)[MaxOpen - m]
<1>1. /\ Here = files[top.file].lines /\ Len(Here) \in Nat
      /\ \A n \in 1 .. Len(Here) : Here[n] \in Lines /\ Here[n] \in Seq(InLine \cup LineStart)
      /\ Begun(Here, top, open, InLines(elements).line)
      /\ top.line \in Nat \ {0}
  BY HereIs
<1>2. top.line \in 1 .. Len(Here)
  BY <1>1, TokenIs DEF Reading
<1>3. line \in Lines /\ line \in Seq(InLine \cup LineStart)
  BY <1>1, <1>2
<1>4. /\ InLines(elements).line = <<>> /\ line[1] = open /\ open.kind \in Statements
      /\ top.tok = 2
  BY <1>1 DEF Begun
<1>5. line # <<>>
  <2>1. top.tok = Len(line) + 1
    BY <1>1, TokenIs DEF Reading
  <2>2. Len(line) = 1
    <3> DEFINE n == Len(line)
    <3>1. n \in Nat /\ n + 1 = 2
      BY <1>3, <1>4, <2>1
    <3> HIDE DEF n
    <3>2. n = 1
      BY <3>1
    <3> QED
      BY <3>2 DEF n
  <2> QED
    BY <2>2
<1>6. elements \in Seq(ElementSet) /\ NewLine \in ElementSet
      /\ \A text \in Texts \cup {TranText} : TextElement(text) \in ElementSet
  BY ElementsDefined DEF Reading
<1>7. solid \in Seq(Outlines)
  BY <1>6, InLinesTyped, SolidTyped DEF LineSets, Outlines
<1> HIDE DEF included, m, line, solid
<1>11. open.kind # "PART"
  <2>1. 1 \in 1 .. Len(line)
    BY <1>3, <1>5
  <2>2. open \in InLine \cup LineStart
    BY <1>3, <1>4, <2>1
  <2> QED
    BY <2>2 DEF InLine, LineStart, Whole
<1>8. CASE open.kind \in {"COMMENT", "PRAGMA"}
  <2>1. LineWritten(line, included) = <<>>
    BY <1>3, <1>4, <1>5, <1>8, LineWrittenIs
  <2>2. Adds(elements, elements, <<>>) /\ <<>> \in Seq(Outlines)
    BY <1>4, <1>7, EmptyLines DEF Adds, solid
  <2>3. AsRead(files, Forward, NoStatement, elements)
    BY <2>1, <2>2, LineRead DEF included, m, line
  <2> QED
    BY <1>8, <2>3
<1>9. CASE open.kind = "TRAN"
  <2> DEFINE e == TextElement(TranText)
             out == <<e>>
             next == AddLine(elements, TranText)
  <2>1. LineWritten(line, included) = <<out>>
    BY <1>3, <1>4, <1>5, <1>9, LineWrittenIs
  <2>2. e \in ElementSet /\ next = Append(elements, e)
    BY <1>6 DEF AddLine
  <2> HIDE DEF e
  <2>3. out \in Outlines
    BY <2>2 DEF Outlines
  <2> HIDE DEF out, next
  <2>4. /\ InLines(next).line = <<>>
        /\ Solid(InLines(next).done) = Append(solid, out)
    BY <1>4, <1>6, <2>2, TranAdded DEF e, out, solid
  <2>5. Adds(elements, next, <<out>>) /\ <<out>> \in Seq(Outlines)
    BY <1>7, <2>3, <2>4, OneLineMore DEF Adds, solid
  <2>6. AsRead(files, Forward, NoStatement, next)
    BY <2>1, <2>5, LineRead DEF included, m, line
  <2> QED
    BY <1>9, <2>6 DEF next
<1>10. CASE open.kind = "END"
  <2> DEFINE e == TextElement(EndText)
             out == <<e>>
             list == AddLine(elements, EndText)
             next == AddNl(list)
  <2>1. LineWritten(line, included) = <<out>>
    BY <1>3, <1>4, <1>5, <1>10, LineWrittenIs
  <2>2. e \in ElementSet /\ list = Append(elements, e)
    BY <1>6, DeckAssumption DEF AddLine
  <2>3. e # NewLine /\ e # TextElement(TranText)
    <3>1. e.type = "text" /\ e.text = EndText /\ NewLine.type = "new_line"
          /\ TextElement(TranText).text = TranText
      BY DEF TextElement, NewLine
    <3>2. EndText # TranText
      BY DEF EndText, TranText
    <3> HIDE DEF e
    <3> QED
      BY <3>1, <3>2
  <2> HIDE DEF e
  <2>4. out \in Outlines /\ out # <<>>
    BY <2>2 DEF Outlines
  <2> HIDE DEF list, next
  <2>5. /\ InLines(list).done = InLines(elements).done
        /\ InLines(list).line = Append(InLines(elements).line, e)
    BY <1>6, <2>2, <2>3, PlainAdded
  <2>6. InLines(list).line = out
    BY <1>4, <2>5 DEF out
  <2>7. list \in Seq(ElementSet)
    BY <1>6, <2>2
  <2> HIDE DEF out
  <2>8. /\ InLines(next).line = <<>>
        /\ Solid(InLines(next).done) = Append(solid, out)
    BY <1>6, <2>4, <2>5, <2>6, <2>7, NewLineAdded DEF next, solid
  <2>9. Adds(elements, next, <<out>>) /\ <<out>> \in Seq(Outlines)
    BY <1>7, <2>4, <2>8, OneLineMore DEF Adds, solid
  <2>10. AsRead(files, Forward, NoStatement, next)
    BY <2>1, <2>9, LineRead DEF included, m, line, out, e
  <2> QED
    BY <1>10, <2>10 DEF next, list
<1> QED
  BY <1>4, <1>8, <1>9, <1>10, <1>11 DEF Statements


\* The include of a file.
LEMMA IncludeRead ==
    ASSUME IsInclude(open), CanOpen(open.body.file), open # NoStatement,
           Token.kind = "EOL", Reading(open, elements)
    PROVE  AsRead(files, Append(Forward, [file |-> open.body.file, line |-> 1, tok |-> 1]),
                  NoStatement, elements)
<1> DEFINE m == Len(include_file_stack)
           l == top.line
           stack == include_file_stack
           forward == Forward
           bottom == [file |-> open.body.file, line |-> 1, tok |-> 1]
           next == Append(forward, bottom)
           done == InLines(elements).done
<1>1. /\ m \in Nat \ {0} /\ stack[m] = top /\ top.file \in DOMAIN files /\ l \in Nat \ {0}
      /\ Here = files[top.file].lines /\ Len(Here) \in Nat /\ FilesTyped(files)
      /\ \A n \in 1 .. Len(Here) : Here[n] \in Seq(InLine \cup LineStart)
      /\ Finished(files, stack, done)
      /\ Begun(Here, top, open, InLines(elements).line)
  BY HereIs
<1>2. /\ SameBelow(stack, forward, m) /\ Len(forward) = m
      /\ forward[m].line = l + 1 /\ forward[m].tok = 1
  BY <1>1, MovedOn
<1>3. /\ l \in 1 .. Len(Here) /\ top.tok = Len(Here[l]) + 1
      /\ InLines(elements).line = <<>> /\ Here[l][1] = open /\ top.tok = 2
  BY <1>1, TokenIs DEF Reading, Begun
<1>4. Here[l] # <<>>
  <2> DEFINE line == Here[l]
  <2>1. line \in Seq(InLine \cup LineStart) /\ 2 = Len(line) + 1
    BY <1>1, <1>3
  <2> HIDE DEF line
  <2>2. line # <<>>
    BY <2>1
  <2> QED
    BY <2>2 DEF line
<1>5. /\ Len(next) = m + 1 /\ next[m + 1] = bottom
      /\ \A k \in 1 .. m : next[k] = forward[k]
  <2>1. forward \in Seq(Positions) /\ bottom \in Positions
    BY ForwardTyped DEF Reading, CanOpen, Positions
  <2> HIDE DEF forward, bottom, m
  <2> QED
    BY <1>1, <1>2, <2>1
<1>6. bottom.file = open.body.file /\ bottom.line = 1 /\ bottom.tok = 1
      /\ open.body.file \in DOMAIN files
  BY DEF CanOpen
<1>7. /\ \A k \in 1 .. m - 1 : next[k] = stack[k]
      /\ next[m].file = stack[m].file /\ stack[m].file \in DOMAIN files
      /\ stack[m].line = l /\ next[m].line = l + 1 /\ next[m].tok = 1
      /\ next[m + 1].file \in DOMAIN files /\ next[m + 1].line = 1
  <2>1. m \in 1 .. m /\ \A k \in 1 .. m - 1 : k \in 1 .. m
    BY <1>1
  <2>2. next[m] = forward[m]
    BY <1>5, <2>1
  <2>3. \A k \in 1 .. m - 1 : next[k] = stack[k]
    BY <1>2, <1>5, <2>1 DEF SameBelow
  <2>4. next[m].file = stack[m].file
    BY <1>2, <2>2 DEF SameBelow
  <2> HIDE DEF next, forward, bottom
  <2> QED
    BY <1>1, <1>2, <1>5, <1>6, <2>2, <2>3, <2>4
<1>8. /\ l <= Len(LinesAt(files, stack, m)) /\ LinesAt(files, stack, m)[l] # <<>>
      /\ IsInclude(LinesAt(files, stack, m)[l][1])
      /\ LinesAt(files, stack, m)[l][1].body.file = next[m + 1].file
  <2>1. LinesAt(files, stack, m) = Here
    BY DEF Here
  <2>2. next[m + 1].file = open.body.file
    BY <1>5, <1>6
  <2> HIDE DEF next, stack, m
  <2> QED
    BY <1>1, <1>3, <1>4, <2>1, <2>2
<1>9. Len(stack) = m
  OBVIOUS
<1>10. Finished(files, next, done)
  <2>1. m \in Nat \ {0} /\ FilesTyped(files) /\ Finished(files, stack, done) /\ l \in Nat \ {0}
    BY <1>1
  <2>2. Len(next) = m + 1
    BY <1>5
  <2> HIDE DEF m, l, stack, next, done
  <2>3. \A k \in 1 .. m - 1 : next[k] = stack[k]
    BY <1>7
  <2> QED
    BY <1>7, <1>8, <1>9, <2>1, <2>2, <2>3, FinishedInclude
<1>11. next[m + 1].tok = 1
  BY <1>5, <1>6
<1>12. Begun(LinesAt(files, next, m + 1), next[m + 1], NoStatement, <<>>)
  <2> HIDE DEF next, m
  <2> QED
    BY <1>11, BegunLine
<1> HIDE DEF next, m, done
<1>13. AsRead(files, next, NoStatement, elements)
  BY <1>3, <1>5, <1>10, <1>12 DEF AsRead, done
<1> QED
  BY <1>13 DEF next

\* Back to the file that included the one that was read.
LEMMA FileRead ==
    ASSUME EndOfFile, Reading(open, elements)
    PROVE  AsRead(files, Front(include_file_stack), open, elements)
<1> DEFINE p == Len(include_file_stack) - 1
           stack == include_file_stack
           next == SubSeq(stack, 1, p)
           done == InLines(elements).done
<1>1. /\ p \in Nat \ {0} /\ Len(stack) = p + 1 /\ p + 1 <= MaxOpen /\ stack[p + 1] = top
      /\ top.file \in DOMAIN files
      /\ Here = files[top.file].lines /\ Len(Here) \in Nat /\ FilesTyped(files)
      /\ Finished(files, stack, done)
      /\ Begun(Here, top, open, InLines(elements).line)
  <2> DEFINE m == Len(include_file_stack)
  <2>1. /\ m \in Nat \ {0} /\ m <= MaxOpen /\ stack[m] = top /\ top.file \in DOMAIN files
        /\ Here = files[top.file].lines /\ Len(Here) \in Nat /\ FilesTyped(files)
        /\ Finished(files, stack, done)
        /\ Begun(Here, top, open, InLines(elements).line)
    BY HereIs
  <2>2. m > 1
    BY DEF EndOfFile
  <2>3. p \in Nat \ {0} /\ m = p + 1
    BY <2>1, <2>2
  <2> QED
    BY <2>1, <2>3
<1>2. top.line = Len(Here) + 1 /\ top.tok = 1
  BY <1>1, TokenIs DEF Reading, EndOfFile
<1>3. open = NoStatement /\ InLines(elements).line = <<>>
  <2>1. ~(top.line <= Len(Here))
    BY <1>1, <1>2
  <2>2. open = NoStatement
    BY <1>1, <2>1 DEF Begun
  <2> QED
    BY <1>1, <1>2, <2>2, BegunLine
<1>4. /\ Len(next) = p /\ \A k \in 1 .. p : next[k] = stack[k]
  <2>1. stack \in Seq(Positions)
    BY DEF Reading, DeckInv, StackOK, Positions
  <2> HIDE DEF stack, p
  <2> QED
    BY <1>1, <2>1
<1>5. stack[p].file \in DOMAIN files /\ stack[p].line \in Nat
  <2>1. stack \in Seq(Positions)
    BY DEF Reading, DeckInv, StackOK, Positions
  <2> HIDE DEF stack, p
  <2>2. p \in 1 .. Len(stack)
    BY <1>1
  <2>3. stack[p] \in Positions
    BY <2>1, <2>2
  <2> DEFINE at == stack[p]
  <2> HIDE DEF at
  <2>4. at \in Positions
    BY <2>3 DEF at
  <2>5. at.file \in DOMAIN files /\ at.line \in Nat
    BY <2>4 DEF Positions
  <2> QED
    BY <2>5 DEF at
<1>6. stack[p + 1].line = Len(LinesAt(files, stack, p + 1)) + 1 /\ stack[p + 1].file \in DOMAIN files
  <2>1. LinesAt(files, stack, p + 1) = Here
    BY <1>1 DEF Here
  <2> HIDE DEF stack, p
  <2> QED
    BY <1>1, <1>2, <2>1
<1>7. next[p].tok = 1
  <2>1. PICK w : Laid(w, files, stack)
    BY <1>1 DEF Finished
  <2>2. p \in 1 .. Len(stack) - 1 /\ p \in 1 .. p
    BY <1>1
  <2>3. Waits(files, stack, p)
    BY <2>1, <2>2 DEF Laid
  <2> HIDE DEF stack, p, next
  <2> QED
    BY <1>4, <2>2, <2>3 DEF Waits
<1> HIDE DEF next, stack, p, done
<1>8. Finished(files, next, done)
  BY <1>1, <1>4, <1>5, <1>6, FinishedReturn
<1>9. Begun(LinesAt(files, next, p), next[p], NoStatement, <<>>)
  BY <1>7, BegunLine
<1>10. AsRead(files, next, open, elements)
  BY <1>3, <1>4, <1>8, <1>9 DEF AsRead, done
<1>11. next = Front(include_file_stack)
  BY DEF next, p, stack, Front
<1> QED
  BY <1>10, <1>11

LEMMA ReadInvInit == Init => ReadInv
<1> SUFFICES ASSUME Init PROVE ReadInv
  OBVIOUS
<1> DEFINE at == [file |-> "main", line |-> 1, tok |-> 1]
           stack == <<at>>
<1>1. /\ files \in Decks /\ include_file_stack = stack /\ open = NoStatement
      /\ elements = <<>> /\ registry = EmptyRegistry /\ pc = "reading"
  BY DEF Init
<1>2. FilesTyped(files) /\ "main" \in DOMAIN files
  <2>1. FilesTyped(files)
    BY DeckInvInit, FilesOK DEF DeckInv
  <2> QED
    BY <1>1, <2>1, DeckAssumption
<1>3. Len(stack) = 1 /\ stack[1] = at /\ at.file = "main" /\ at.line = 1 /\ at.tok = 1
  OBVIOUS
<1> HIDE DEF at, stack
<1>4. InLines(<<>>) = NoLines
  <2>1. Len(<<>>) = 0
    OBVIOUS
  <2>2. \E f : Puts(f, <<>>)
    BY <2>1, InLinesSolves
  <2> QED
    BY <2>1, <2>2 DEF Puts
<1>5. InLines(<<>>).done = <<>> /\ InLines(<<>>).line = <<>>
  BY <1>4 DEF NoLines
<1>6. Finished(files, stack, <<>>)
  BY <1>2, <1>3, FinishedFirst
<1>7. Begun(LinesAt(files, stack, 1), stack[1], NoStatement, <<>>)
  BY <1>3, BegunLine
<1>8. AsRead(files, stack, NoStatement, <<>>)
  BY <1>3, <1>5, <1>6, <1>7 DEF AsRead
<1>9. <<>> \in Seq(Defined(registry))
  OBVIOUS
<1> QED
  BY <1>1, <1>3, <1>8, <1>9 DEF ReadInv


LEMMA BottomStays ==
    ASSUME DeckInv
    PROVE  /\ Forward[1].file = include_file_stack[1].file
           /\ Token.kind = "EOL" =>
                 \A file \in DOMAIN files :
                     Append(Forward, [file |-> file, line |-> 1, tok |-> 1])[1] = Forward[1]
           /\ Len(include_file_stack) > 1 => Front(include_file_stack)[1] = include_file_stack[1]
<1> DEFINE m == Len(include_file_stack)
           stack == include_file_stack
           forward == Forward
<1>1. m \in Nat \ {0} /\ SameBelow(stack, forward, m) /\ stack \in Seq(Positions)
  BY ForwardKeepsBelow DEF DeckInv, StackOK, Positions
<1>2. 1 \in 1 .. m - 1 \/ m = 1
  <2>1. m \in Nat \ {0}
    BY <1>1
  <2> HIDE DEF m
  <2> QED
    BY <2>1
<1>3. forward[1].file = stack[1].file
  BY <1>1, <1>2 DEF SameBelow
<1>4. ASSUME Token.kind = "EOL", NEW file \in DOMAIN files
      PROVE  Append(forward, [file |-> file, line |-> 1, tok |-> 1])[1] = forward[1]
  <2> DEFINE bottom == [file |-> file, line |-> 1, tok |-> 1]
  <2>1. forward \in Seq(Positions) /\ bottom \in Positions
    BY <1>4, ForwardTyped DEF Positions
  <2>2. Len(forward) = m
    BY <1>1 DEF SameBelow
  <2> HIDE DEF forward, bottom, m
  <2>3. 1 \in 1 .. Len(forward)
    BY <1>1, <2>2
  <2>4. Append(forward, bottom)[1] = forward[1]
    BY <2>1, <2>3, AppendProperties
  <2> QED
    BY <2>4 DEF bottom
<1>5. ASSUME m > 1 PROVE Front(stack)[1] = stack[1]
  <2> DEFINE p == Len(stack) - 1
             next == SubSeq(stack, 1, p)
  <2>1. p \in Nat \ {0} /\ Len(stack) = p + 1 /\ stack \in Seq(Positions)
    <3>1. m - 1 \in Nat \ {0} /\ m = (m - 1) + 1
      <4>1. m \in Nat \ {0} /\ m > 1
        BY <1>1, <1>5
      <4> HIDE DEF m
      <4> QED
        BY <4>1
    <3> QED
      BY <1>1, <3>1
  <2> HIDE DEF stack, p
  <2>2. next[1] = stack[1]
    BY <2>1
  <2>3. next = Front(stack)
    BY DEF p, Front
  <2> QED
    BY <2>2, <2>3
<1> QED
  BY <1>3, <1>4, <1>5

\* ReadInv, of a step that leaves the files alone and does not accept the deck.
LEMMA ContinuedBottom ==
    ASSUME DeckInv, ContinueStatement
    PROVE  include_file_stack'[1].file = include_file_stack[1].file
<1> DEFINE m == Len(include_file_stack)
           n == Len(NextLine) + 1
<1>1. include_file_stack' = [include_file_stack EXCEPT ![m] = [@ EXCEPT !.tok = n]]
  BY DEF ContinueStatement
<1>2. /\ m \in Nat \ {0} /\ DOMAIN include_file_stack = 1 .. m
      /\ include_file_stack[m] \in Positions
  BY TopOfStack DEF DeckInv, Positions
<1> HIDE DEF m, n
<1>3. 1 \in 1 .. m
  BY <1>2
<1>4. CASE m = 1
  <2>1. include_file_stack'[1] = [include_file_stack[1] EXCEPT !.tok = n]
    BY <1>1, <1>2, <1>3, <1>4
  <2> QED
    BY <1>2, <1>4, <2>1 DEF Positions
<1>5. CASE m # 1
  BY <1>1, <1>2, <1>3, <1>5
<1> QED
  BY <1>4, <1>5

Step(next, statement, list, r) ==
    /\ list \in Seq(Defined(r))
    /\ next[1].file = "main"
    /\ AllTerminated /\ r.errs = 0 => AsRead(files, next, statement, list)

LEMMA ReadInvStep == DeckInv /\ RegistryInv /\ ReadInv /\ [Next]_vars => ReadInv'
<1> SUFFICES ASSUME DeckInv, RegistryInv, ReadInv, [Next]_vars PROVE ReadInv'
  OBVIOUS
<1>1. /\ RegistryOK(registry) /\ registry.errs \in Nat /\ Token \in Tokens
      /\ open \in LineStart \cup {NoStatement}
      /\ elements \in Seq(Defined(registry)) /\ include_file_stack[1].file = "main"
  BY TokenTyped DEF RegistryInv, RegistryOK, IsRegistry, DeckInv, StackOK, ReadInv
<1>2. elements \in Seq(ElementSet)
  <2>1. Defined(registry) \subseteq ElementSet
    BY ElementsDefined
  <2> HIDE DEF Defined
  <2> QED
    BY <1>1, <2>1
<1>3. AllTerminated /\ registry.errs = 0 /\ pc \in {"reading", "ended"} => Reading(open, elements)
  BY <1>2 DEF Reading, ReadInv
<1>4. files' = files => (AllTerminated' <=> AllTerminated)
  BY DEF AllTerminated
<1>5. ASSUME files' = files, pc' # "accepted",
             pc' \in {"reading", "ended"} => Step(include_file_stack', open', elements', registry'),
             elements' \in Seq(Defined(registry')), include_file_stack'[1].file = "main"
      PROVE  ReadInv'
  BY <1>4, <1>5 DEF ReadInv, Step
<1>6. Forward[1].file = "main"
  BY <1>1, BottomStays
<1>7. CASE ReadText
  <2> DEFINE e == ElementOf(Token)
             next == Append(elements, e)
  <2>1. /\ pc = "reading" /\ open = NoStatement /\ Token.kind = "LINE"
        /\ elements' = AddLine(elements, Token.text) /\ include_file_stack' = Forward
        /\ UNCHANGED <<files, open, registry, pc>>
    BY <1>7 DEF ReadText
  <2>2. elements' = next
    BY <2>1 DEF ElementOf, AddLine
  <2>3. e \in Defined(registry)
    <3>1. Token \in InLine
      BY <1>1, <2>1 DEF Tokens, LineStart, Whole, Part
    <3>2. Token.text \in Texts
      BY <2>1, <3>1 DEF InLine
    <3>3. e = TextElement(Token.text)
      BY <2>1 DEF ElementOf
    <3> QED
      BY <3>2, <3>3, ElementsDefined
  <2> HIDE DEF e
  <2>4. next \in Seq(Defined(registry))
    BY <1>1, <2>3
  <2>5. ASSUME AllTerminated, registry.errs = 0
        PROVE  AsRead(files, Forward, NoStatement, next)
    <3>1. Reading(NoStatement, elements)
      BY <1>3, <2>1, <2>5
    <3>2. Token.kind \in Plain
      BY <2>1 DEF Plain
    <3> QED
      BY <3>1, <3>2, PlainRead DEF e
  <2> HIDE DEF next
  <2> QED
    BY <1>5, <1>6, <2>1, <2>2, <2>4, <2>5 DEF Step
<1>8. CASE ReadSubstitution
  <2>1. /\ pc = "reading" /\ open = NoStatement /\ Token.kind = "PSUB"
        /\ include_file_stack' = Forward /\ UNCHANGED <<files, open, pc>>
    BY <1>8 DEF ReadSubstitution
  <2>2. CASE FindParameter(registry, Token.name) = 0
    <3>1. registry' = [registry EXCEPT !.errs = registry.errs + 1] /\ elements' = elements
      BY <1>8, <2>2 DEF ReadSubstitution
    <3> DEFINE q == [registry EXCEPT !["errs"] = registry.errs + 1]
    <3>2. q.params = registry.params /\ q.errs # 0
      <4>1. DOMAIN registry = Fields /\ "errs" \in Fields /\ "params" \in Fields
        BY <1>1 DEF RegistryOK, IsRegistry, Fields
      <4>2. q["params"] = registry["params"] /\ q["errs"] = registry.errs + 1
        BY <4>1
      <4> QED
        BY <1>1, <4>2
    <3> HIDE DEF q
    <3>3. \A name : FindParameter(q, name) = FindParameter(registry, name)
      BY <3>2, SameParams
    <3>4. elements \in Seq(Defined(q))
      BY <1>1, <3>3, DefinedMore
    <3>5. registry' = q
      BY <3>1 DEF q
    <3> QED
      BY <1>5, <1>6, <2>1, <3>1, <3>2, <3>4, <3>5 DEF Step
  <2>3. CASE FindParameter(registry, Token.name) # 0
    <3> DEFINE e == ElementOf(Token)
               next == Append(elements, e)
    <3>1. e = ParameterElement(Token.name)
      BY <2>1 DEF ElementOf
    <3>2. elements' = next /\ registry' = registry
      BY <1>8, <2>3, <3>1 DEF ReadSubstitution, AddParamRef
    <3>3. e \in Defined(registry)
      <4>1. Token \in InLine
        BY <1>1, <2>1 DEF Tokens, LineStart, Whole, Part
      <4>2. Token.name \in STRING
        BY <2>1, <4>1 DEF InLine
      <4> QED
        BY <2>3, <3>1, <4>2, ElementsDefined
    <3> HIDE DEF e
    <3>4. next \in Seq(Defined(registry))
      BY <1>1, <3>3
    <3>5. ASSUME AllTerminated, registry.errs = 0
          PROVE  AsRead(files, Forward, NoStatement, next)
      <4>1. Reading(NoStatement, elements)
        BY <1>3, <2>1, <3>5
      <4>2. Token.kind \in Plain
        BY <2>1 DEF Plain
      <4> QED
        BY <4>1, <4>2, PlainRead DEF e
    <3> HIDE DEF next
    <3> QED
      BY <1>5, <1>6, <2>1, <3>2, <3>4, <3>5 DEF Step
  <2> QED
    BY <2>2, <2>3
<1>9. CASE BlankLine
  <2>1. /\ pc = "reading" /\ open = NoStatement /\ Token.kind = "EOL"
        /\ elements' = AddNl(elements) /\ include_file_stack' = Forward
        /\ UNCHANGED <<files, open, registry, pc>>
    BY <1>9 DEF BlankLine
  <2>2. AddNl(elements) \in Seq(Defined(registry))
    BY <1>1, ElementsDefined, NewLineAdded
  <2>3. ASSUME AllTerminated, registry.errs = 0
        PROVE  AsRead(files, Forward, NoStatement, AddNl(elements))
    BY <1>3, <2>1, <2>3, BlankRead
  <2> QED
    BY <1>5, <1>6, <2>1, <2>2, <2>3 DEF Step
<1>10. CASE BeginStatement
  <2>1. /\ pc = "reading" /\ open = NoStatement /\ Token.kind \in Statements
        /\ open' = Token /\ include_file_stack' = Forward
        /\ UNCHANGED <<files, elements, registry, pc>>
    BY <1>10 DEF BeginStatement, Statements
  <2>2. ASSUME AllTerminated, registry.errs = 0
        PROVE  AsRead(files, Forward, Token, elements)
    BY <1>3, <2>1, <2>2, StatementRead
  <2> QED
    BY <1>1, <1>5, <1>6, <2>1, <2>2 DEF Step
<1>11. CASE EndStatement
  <2>1. /\ pc = "reading" /\ open # NoStatement /\ open \notin Part /\ Token.kind = "EOL"
        /\ open' = NoStatement /\ UNCHANGED files
    BY <1>11 DEF EndStatement
  <2>2. CASE IsInclude(open) /\ CanOpen(open.body.file)
    <3> DEFINE next == Append(Forward, [file |-> open.body.file, line |-> 1, tok |-> 1])
    <3>1. include_file_stack' = next /\ UNCHANGED <<elements, registry, pc>>
      BY <1>11, <2>2 DEF EndStatement, StartInclude
    <3>2. next[1].file = "main"
      BY <1>6, <2>1, <2>2, BottomStays DEF CanOpen
    <3>3. ASSUME AllTerminated, registry.errs = 0
          PROVE  AsRead(files, next, NoStatement, elements)
      BY <1>3, <2>1, <2>2, <3>3, IncludeRead
    <3> HIDE DEF next
    <3> QED
      BY <1>1, <1>5, <2>1, <3>1, <3>2, <3>3 DEF Step
  <2>3. CASE IsInclude(open) /\ ~CanOpen(open.body.file)
    <3>1. /\ registry' = [registry EXCEPT !.errs = registry.errs + 1]
          /\ include_file_stack' = Forward /\ UNCHANGED <<elements, pc>>
      BY <1>11, <2>3 DEF EndStatement, StartInclude
    <3> DEFINE q == [registry EXCEPT !["errs"] = registry.errs + 1]
    <3>2. q.params = registry.params /\ q.errs # 0
      <4>1. DOMAIN registry = Fields /\ "errs" \in Fields /\ "params" \in Fields
        BY <1>1 DEF RegistryOK, IsRegistry, Fields
      <4>2. q["params"] = registry["params"] /\ q["errs"] = registry.errs + 1
        BY <4>1
      <4> QED
        BY <1>1, <4>2
    <3> HIDE DEF q
    <3>3. \A name : FindParameter(q, name) = FindParameter(registry, name)
      BY <3>2, SameParams
    <3>4. elements \in Seq(Defined(q))
      BY <1>1, <3>3, DefinedMore
    <3>5. registry' = q
      BY <3>1 DEF q
    <3> QED
      BY <1>5, <1>6, <2>1, <3>1, <3>2, <3>4, <3>5 DEF Step
  <2>4. CASE ~IsInclude(open)
    <3> DEFINE next == CASE open.kind = "TRAN" -> AddLine(elements, TranText)
                         [] open.kind = "END" -> AddNl(AddLine(elements, EndText))
                         [] OTHER -> elements
               q == IF open.kind = "PRAGMA" THEN Define(registry, open.body) ELSE registry
    <3>1. /\ include_file_stack' = Forward /\ registry' = q /\ elements' = next
          /\ pc' # "accepted"
      BY <1>11, <2>1, <2>4 DEF EndStatement
    <3>2. ASSUME open.kind = "PRAGMA"
          PROVE  /\ q.errs = 0 => registry.errs = 0
                 /\ \A name : FindParameter(registry, name) # 0 => FindParameter(q, name) # 0
      <4>1. open.body \in Bodies
        BY <1>1, <2>1, <2>4, <3>2, PragmaBody
      <4> QED
        BY <1>1, <3>2, <4>1, DefineGrows
    <3>3. /\ q.errs = 0 => registry.errs = 0
          /\ \A name : FindParameter(registry, name) # 0 => FindParameter(q, name) # 0
      BY <3>2
    <3> HIDE DEF q
    <3>4. elements \in Seq(Defined(q))
      BY <1>1, <3>3, DefinedMore
    <3>5. next \in Seq(Defined(q))
      <4> DEFINE S == Defined(q)
      <4>1. /\ elements \in Seq(S) /\ NewLine \in S
            /\ TextElement(TranText) \in S /\ TextElement(EndText) \in S
        BY <3>4, DeckAssumption, ElementsDefined
      <4> HIDE DEF S
      <4>2. AddLine(elements, TranText) \in Seq(S) /\ AddLine(elements, EndText) \in Seq(S)
        BY <4>1 DEF AddLine
      <4>3. AddNl(AddLine(elements, EndText)) \in Seq(S)
        BY <4>1, <4>2, NewLineAdded
      <4> QED
        BY <4>1, <4>2, <4>3 DEF S
    <3>6. ASSUME AllTerminated, q.errs = 0
          PROVE  AsRead(files, Forward, NoStatement, next)
      BY <1>3, <2>1, <2>4, <3>3, <3>6, StatementDone
    <3> HIDE DEF next
    <3> QED
      BY <1>5, <1>6, <2>1, <3>1, <3>5, <3>6 DEF Step
  <2> QED
    BY <2>2, <2>3, <2>4
<1>15. CASE ContinueStatement
  <2>1. /\ pc = "reading" /\ UNCHANGED <<files, elements, registry, pc>>
        /\ open # NoStatement /\ top.tok = 1
    <3>1. open.kind # "none"
      BY <1>15 DEF ContinueStatement, Continues
    <3>2. NoStatement.kind = "none"
      BY DEF NoStatement
    <3> QED
      BY <1>15, <3>1, <3>2 DEF ContinueStatement, Continues
  <2>2. include_file_stack'[1].file = "main"
    BY <1>1, <1>15, ContinuedBottom
  <2>3. ~ (AllTerminated /\ registry.errs = 0)
    <3> SUFFICES ASSUME AllTerminated, registry.errs = 0 PROVE FALSE
      OBVIOUS
    <3>1. Reading(open, elements)
      BY <1>3, <2>1
    <3>2. Begun(Here, top, open, InLines(elements).line)
      BY <3>1, HereIs
    <3> QED
      BY <2>1, <3>2 DEF Begun
  <2> QED
    BY <1>1, <1>5, <2>1, <2>2, <2>3 DEF Step
<1>12. CASE EndOfFile
  <2> DEFINE next == Front(include_file_stack)
  <2>1. /\ pc \in {"reading", "ended"} /\ Len(include_file_stack) > 1
        /\ include_file_stack' = next
        /\ UNCHANGED <<files, open, elements, registry, pc>>
    BY <1>12 DEF EndOfFile
  <2>2. next[1].file = "main"
    BY <1>1, <2>1, BottomStays
  <2>3. ASSUME AllTerminated, registry.errs = 0
        PROVE  AsRead(files, next, open, elements)
    BY <1>3, <1>12, <2>1, <2>3, FileRead
  <2> HIDE DEF next
  <2> QED
    BY <1>1, <1>5, <2>1, <2>2, <2>3 DEF Step
<1>13. CASE SyntaxError
  BY <1>1, <1>5, <1>13 DEF SyntaxError
<1>14. CASE Finish \/ UNCHANGED vars
  <2>1. UNCHANGED <<files, include_file_stack, open, elements, registry>>
    BY <1>14 DEF Finish, vars
  <2>2. top' = top
    BY <2>1 DEF top
  <2>3. Token' = Token
    BY <2>1, <2>2 DEF Token
  <2>4. /\ pc' = "accepted" => Len(include_file_stack) = 1 /\ Token.kind = "EOF"
        /\ pc' \in {"reading", "ended", "accepted"} => pc \in {"reading", "ended", "accepted"}
    BY <1>14 DEF Finish, vars, ReadInv
  <2>5. AllTerminated /\ registry.errs = 0 /\ pc' \in {"reading", "ended", "accepted"} =>
            AsRead(files, include_file_stack, open, elements)
    BY <2>4 DEF ReadInv
  <2>6. elements' \in Seq(Defined(registry'))
    BY <1>1, <2>1
  <2> HIDE DEF Defined
  <2> QED
    BY <1>1, <1>4, <2>1, <2>3, <2>4, <2>5, <2>6 DEF ReadInv
<1> QED
  BY <1>7, <1>8, <1>9, <1>10, <1>11, <1>12, <1>13, <1>14, <1>15 DEF Next

\* At every token the element list holds what was read up to it, through all
\* the files that are open (read_cir_file(), open_include_file(), yywrap()).
THEOREM DeckRead == Spec => [](DeckInv /\ RegistryInv /\ ReadInv)
<1>1. Init => DeckInv /\ RegistryInv /\ ReadInv
  BY DeckInvInit, RegistryInvInit, ReadInvInit
<1>2. DeckInv /\ RegistryInv /\ ReadInv /\ [Next]_vars => (DeckInv /\ RegistryInv /\ ReadInv)'
  BY DeckInvStep, RegistryInvStep, ReadInvStep
<1> QED
  BY <1>1, <1>2, PTL DEF Spec


(***************************************************************************)
(* What is printed depends on the values of the parameters only.           *)
(***************************************************************************)
SameValues(r, c, d) == \A j \in 1 .. Len(r.params) : c[j] = d[j] /\ c[j] \in Values

LEMMA ValuesAgree ==
    ASSUME NEW r, IsRegistry(r), Unique(r), NEW e \in Exprs, NullNodes(r, e) = {},
           NEW c, NEW d, SameValues(r, c, d)
    PROVE  GetValue(r, e, c) = GetValue(r, e, d)
<1> DEFINE n == Len(r.params)
           q == FirstParams(r, n)
<1>1. n \in Nat /\ n \in 0 .. n
  BY RegistrySeqs
<1>2. /\ q.params \in Seq(Params) /\ Len(q.params) = n
      /\ \A k \in 1 .. n : q.params[k] = r.params[k]
      /\ q.patterns = r.patterns /\ q.nois = r.nois /\ q.lsqs = r.lsqs
  BY <1>1, FirstParamsAre
<1>3. r.patterns \in Seq(Patterns) /\ Len(r.patterns) \in Nat
  BY RegistrySeqs DEF IsRegistry
<1> HIDE DEF q
<1>4. Grows(r, q)
  BY <1>1, <1>2, <1>3 DEF Grows
<1>5. NullNodes(q, e) = {}
  BY <1>2, <1>3, <1>4, CleanStays
<1>6. \A k \in DOMAIN e : NodeAgree(r, e[k], c, d)
  <2> SUFFICES ASSUME NEW k \in DOMAIN e PROVE NodeAgree(r, e[k], c, d)
    OBVIOUS
  <2>1. /\ e[k].op = "p_reference" => FindParameter(r, e[k].name) \in 1 .. n
        /\ e[k].op = "function1" => e[k].name \in Func1Tab
    BY <1>1, <1>5, RefersTo DEF q
  <2> QED
    BY <2>1 DEF NodeAgree, SameValues
<1> QED
  BY <1>6, ValueOf

LEMMA TimesAgree ==
    ASSUME NEW r, IsRegistry(r), Unique(r), NEW name, FindPattern(r, name) # 0,
           \A j \in DOMAIN r.patterns : EntriesClean(r, j),
           NEW c, NEW d, SameValues(r, c, d)
    PROVE  PatternTimes(r, name, c) = PatternTimes(r, name, d)
<1> DEFINE j == FindPattern(r, name)
           entries == r.patterns[j].entries
           dt(e, f) == LET v == GetValue(r, e.expr, f) IN IF IsFinite(v) THEN v ELSE -1
           es(f) == [k \in DOMAIN entries |->
                        [dt |-> dt(entries[k], f), is_relative |-> entries[k].is_relative]]
<1>1. j \in DOMAIN r.patterns /\ r.patterns[j] \in Patterns
  <2>1. Len(r.patterns) \in Nat /\ DOMAIN r.patterns = 1 .. Len(r.patterns)
        /\ \A i \in 1 .. Len(r.patterns) : r.patterns[i] \in Patterns
    BY RegistrySeqs
  <2>2. j \in 1 .. Len(r.patterns)
    BY <2>1, FoundPattern
  <2> QED
    BY <2>1, <2>2
<1>2. entries \in Seq(Terms)
  BY <1>1 DEF Patterns
<1>3. \A k \in DOMAIN entries : NullNodes(r, entries[k].expr) = {}
  BY <1>1 DEF EntriesClean
<1>4. PatternTimes(r, name, c) = GetTimes(es(c)) /\ PatternTimes(r, name, d) = GetTimes(es(d))
  BY DEF PatternTimes
<1> HIDE DEF j, entries
<1>5. ASSUME NEW k \in DOMAIN entries PROVE dt(entries[k], c) = dt(entries[k], d)
  <2>1. entries[k] \in Terms
    BY <1>2
  <2>2. entries[k].expr \in Exprs
    BY <2>1 DEF Terms
  <2>3. GetValue(r, entries[k].expr, c) = GetValue(r, entries[k].expr, d)
    BY <1>3, <2>2, ValuesAgree
  <2> QED
    BY <2>3
<1>6. es(c) = es(d)
  <2> HIDE DEF dt
  <2> QED
    BY <1>5
<1> HIDE DEF es
<1> QED
  BY <1>4, <1>6

LEMMA WaveformAgrees ==
    ASSUME NEW r, IsRegistry(r), Unique(r), Clean(r), NEW i \in 1 .. Len(r.params),
           r.params[i].kind = "pwl", NEW c, NEW d, SameValues(r, c, d)
    PROVE  Waveform(r, r.params[i], c) = Waveform(r, r.params[i], d)
<1> DEFINE p == r.params[i]
           v(f) == [k \in PwlControls |-> GetValue(r, p.body.ctrl[k], f)]
           shape(u, times) ==
               IF \E k \in PwlControls : ~IsFinite(u[k]) THEN NoWave
               ELSE IF u.rise < 0 \/ u.fall < 0 \/ u.width < 0 THEN NoWave
               ELSE [k \in 1 .. 4 * Len(times) + 1 |->
                       IF k = 1 THEN <<0, u.low>>
                       ELSE Pulse(u, times[(k + 2) \div 4])[((k - 2) % 4) + 1]]
<1>1. ParamClean(r, i) /\ \A j \in DOMAIN r.patterns : EntriesClean(r, j)
  <2>1. DOMAIN r.params = 1 .. Len(r.params)
    BY RegistrySeqs
  <2> QED
    BY <2>1 DEF Clean
<1>2. /\ FindPattern(r, p.body.pattern) # 0
      /\ \A k \in PwlControls : p.body.ctrl[k] \in Exprs /\ NullNodes(r, p.body.ctrl[k]) = {}
  BY <1>1 DEF ParamClean
<1>3. /\ Waveform(r, p, c) = shape(v(c), PatternTimes(r, p.body.pattern, c))
      /\ Waveform(r, p, d) = shape(v(d), PatternTimes(r, p.body.pattern, d))
  BY DEF Waveform
<1> HIDE DEF p, shape
<1>4. PatternTimes(r, p.body.pattern, c) = PatternTimes(r, p.body.pattern, d)
  BY <1>1, <1>2, TimesAgree
<1>5. \A k \in PwlControls : GetValue(r, p.body.ctrl[k], c) = GetValue(r, p.body.ctrl[k], d)
  BY <1>2, ValuesAgree
<1>6. v(c) = v(d)
  BY <1>5
<1> HIDE DEF v
<1> QED
  BY <1>3, <1>4, <1>6 DEF p

LEMMA PrintedAgrees ==
    ASSUME RegistryInv, registry.errs = 0, NEW line \in Seq(Defined(registry))
    PROVE  Printed(line, CurValues(registry)) = Printed(line, ValuesInOrder(registry))
<1> DEFINE c == CurValues(registry)
           d == ValuesInOrder(registry)
           n == Len(registry.params)
<1>1. IsRegistry(registry) /\ Unique(registry) /\ Clean(registry)
  BY DEF RegistryInv, RegistryOK
<1>2. DOMAIN registry.params = 1 .. n /\ n \in Nat
  BY <1>1, RegistrySeqs
<1>3. SameValues(registry, c, d)
  <2>1. \A i \in 1 .. n : ParamClean(registry, i)
    BY <1>1, <1>2 DEF Clean
  <2> QED
    BY <1>1, <2>1, PullIsOrder DEF SameValues
<1> HIDE DEF c, d
<1>4. ASSUME NEW name, FindParameter(registry, name) # 0
      PROVE  PrintToFile(registry, name, c) = PrintToFile(registry, name, d)
  <2> DEFINE i == FindParameter(registry, name)
  <2>1. i \in 1 .. n
    BY <1>2, <1>4, Found
  <2> HIDE DEF i
  <2>2. /\ PrintToFile(registry, name, c) =
              IF registry.params[i].kind = "pwl" THEN Waveform(registry, registry.params[i], c)
              ELSE <<c[i]>>
        /\ PrintToFile(registry, name, d) =
              IF registry.params[i].kind = "pwl" THEN Waveform(registry, registry.params[i], d)
              ELSE <<d[i]>>
    BY DEF PrintToFile, i
  <2>3. registry.params[i].kind = "pwl" =>
            Waveform(registry, registry.params[i], c) = Waveform(registry, registry.params[i], d)
    BY <1>1, <1>3, <2>1, WaveformAgrees
  <2>4. c[i] = d[i]
    BY <1>3, <2>1 DEF SameValues
  <2> QED
    BY <2>2, <2>3, <2>4
<1>5. \A k \in DOMAIN line :
          line[k].type = "parameter" => FindParameter(registry, line[k].text) # 0
  <2> SUFFICES ASSUME NEW k \in DOMAIN line, line[k].type = "parameter"
               PROVE  FindParameter(registry, line[k].text) # 0
    OBVIOUS
  <2> DEFINE e == line[k]
             S == Defined(registry)
  <2>1. e \in S
    <3>1. line \in Seq(S) /\ k \in DOMAIN line
      OBVIOUS
    <3> HIDE DEF S
    <3> QED
      BY <3>1
  <2> HIDE DEF e
  <2>2. e.type = "parameter" => FindParameter(registry, e.text) # 0
    BY <2>1 DEF Defined
  <2> QED
    BY <2>2 DEF e
<1>6. \A k \in DOMAIN line : line[k].type = "parameter" =>
          PrintToFile(registry, line[k].text, c) = PrintToFile(registry, line[k].text, d)
  BY <1>4, <1>5
<1>7. Printed(line, c) = Printed(line, d)
  BY <1>6 DEF Printed
<1> QED
  BY <1>7 DEF c, d

\* At the end of "main" the lines read are all of them.
LEMMA WrittenDeck ==
    ASSUME DeckInv, RegistryInv, ReadInv
    PROVE  DeckAsWritten
<1> SUFFICES ASSUME pc = "accepted", AllTerminated
             PROVE  ElementsAt(WriteCirFile, {n \in DOMAIN WriteCirFile : WriteCirFile[n] # <<>>})
                        = [n \in DOMAIN Written |-> Printed(Written[n], ValuesInOrder(registry))]
  BY DEF DeckAsWritten
<1> DEFINE done == InLines(elements).done
           stack == include_file_stack
           c == CurValues(registry)
           d == ValuesInOrder(registry)
           S == Defined(registry)
<1>1. registry.errs = 0 /\ Len(stack) = 1 /\ Token.kind = "EOF" /\ stack[1].file = "main"
      /\ AsRead(files, stack, open, elements) /\ elements \in Seq(S)
  BY DEF RegistryInv, ReadInv
<1>2. Finished(files, stack, done)
  BY <1>1 DEF AsRead
<1>3. top = stack[1]
  BY <1>1, TopOfStack DEF DeckInv
<1>4. /\ FilesTyped(files) /\ "main" \in DOMAIN files
      /\ stack[1].line = Len(LinesAt(files, stack, 1)) + 1
  <2>1. FilesTyped(files)
    BY FilesOK DEF DeckInv
  <2>2. "main" \in DOMAIN files
    BY DeckAssumption DEF DeckInv, StackOK
  <2>3. top.line = Len(files[top.file].lines) + 1
    BY <1>1, TokenIs
  <2> QED
    BY <1>3, <2>1, <2>2, <2>3 DEF LinesAt
<1> HIDE DEF stack, S, c, d
<1>5. done \in Seq(Seq(S))
  BY <1>1, InLinesTyped DEF LineSets
<1> HIDE DEF done
<1>6. Solid(done) = Written
  <2>1. Solid(done) = WrittenOf(files)
    BY <1>1, <1>2, <1>4, FinishedAll
  <2>2. WrittenOf(files) = Written
    BY DEF WrittenOf, Written
  <2> QED
    BY <2>1, <2>2
<1>7. WriteCirFile = PrintedAll(done, c)
  BY DEF WriteCirFile, PrintedAll, done, c
<1>8. ElementsAt(WriteCirFile, {n \in DOMAIN WriteCirFile : WriteCirFile[n] # <<>>})
          = PrintedAll(Written, c)
  BY <1>5, <1>6, <1>7, PrintedSolid
<1>9. Written \in Seq(Seq(S))
  BY <1>5, <1>6, SolidTyped
<1>10. \A n \in DOMAIN Written : Printed(Written[n], c) = Printed(Written[n], d)
  <2> SUFFICES ASSUME NEW n \in DOMAIN Written
               PROVE  Printed(Written[n], c) = Printed(Written[n], d)
    OBVIOUS
  <2> DEFINE X == Seq(S)
             line == Written[n]
  <2>1. line \in X
    <3> HIDE DEF X
    <3> QED
      BY <1>9 DEF X
  <2> HIDE DEF line
  <2>2. Printed(line, c) = Printed(line, d)
    BY <1>1, <2>1, PrintedAgrees DEF S, c, d
  <2> QED
    BY <2>2 DEF line
<1>11. PrintedAll(Written, c) = [n \in DOMAIN Written |-> Printed(Written[n], d)]
  BY <1>10 DEF PrintedAll
<1> QED
  BY <1>8, <1>11 DEF d

\* The deck that write_cir_file() hands to JoSIM is the deck that was written:
\* for every deck, however its files include one another, its lines are those
\* of the files in the order of reading, includes in the place of their
\* pragmas, with each parameter replaced by its value.
THEOREM DeckAlwaysWritten == Spec => []DeckAsWritten
<1>1. DeckInv /\ RegistryInv /\ ReadInv => DeckAsWritten
  BY WrittenDeck
<1> QED
  BY <1>1, DeckRead, PTL

=============================================================================
