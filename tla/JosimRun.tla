------------------------------ MODULE JosimRun ------------------------------
(***************************************************************************)
(* The life of the simulator process (run_josim() of main.cpp, with the    *)
(* columns of nodes_of_interest.cpp): each run forks a child that executes *)
(* josim-cli, feeds it the spice deck through one named pipe, reads its    *)
(* table of results back from another, and reaps it.                       *)
(*                                                                         *)
(* Opening a named pipe blocks until its other end is opened.  Writing to  *)
(* a pipe nobody reads kills the writer.  A reader comes to the end of a   *)
(* pipe when it is empty and nobody has it open for writing.               *)
(*                                                                         *)
(* The child is external: it opens the deck, reads it, simulates, opens    *)
(* the results, writes the header and TableRows rows, and exits.  One that *)
(* may fail may also not start, die at any moment, leave its last line     *)
(* torn, or write another header.                                          *)
(***************************************************************************)
EXTENDS Integers, Sequences, FiniteSets

CONSTANTS
    Nodes,     \* the nodes of interest
    Header,    \* the header the child writes: a sequence of column names
    Headers,   \* the headers a failing child may write
    Width,     \* their length
    TableRows, \* rows of a complete table
    PipeSize,  \* lines the pipe of results holds
    MaxRuns    \* bound on the number of runs

ASSUME JosimAssumption ==
    /\ IsFiniteSet(Nodes)
    /\ Header \in Headers
    /\ \A h \in Headers : h \in Seq(STRING) /\ Len(h) = Width
    /\ Nodes \subseteq STRING
    /\ Width \in Nat \ {0}
    /\ TableRows \in Nat \ {0} /\ PipeSize \in Nat \ {0} /\ MaxRuns \in Nat \ {0}

VARIABLES
    mayFail,       \* whether this simulator may fail; it never changes
    parent,        \* where run_josim() is
    n_josim_runs,
    is_valid,      \* nodes_of_interest::is_valid_flag
    child,         \* what the child does; "none" before fork and after waitpid
    csv,           \* the lines in the pipe of results
    written,       \* lines the child has written: the header and the rows
    col_index,     \* per node: its column, 0 if not matched yet
    n_columns,     \* size of josim_out_columns
    column         \* per node: the data its column holds, as
                   \* [run, rows, whole]: collected in which run, how many rows,
                   \* and whether all of them are whole

parentVars == <<parent, n_josim_runs, is_valid, col_index, n_columns, column>>
josimVars == <<mayFail, parentVars, child, csv, written>>

Alive == child \notin {"none", "dead", "exited"}
Writing == child = "writing"

JosimInit ==
    /\ mayFail \in BOOLEAN
    /\ parent = "fork" /\ n_josim_runs = 0 /\ is_valid = FALSE
    /\ child = "none" /\ csv = <<>> /\ written = 0
    /\ col_index = [n \in Nodes |-> 0] /\ n_columns = 0
    /\ column = [n \in Nodes |-> [run |-> 0, rows |-> 0, whole |-> TRUE]]

(***************************************************************************)
(* Parent: the deck                                                        *)
(***************************************************************************)
\* The result of fork() is not checked: without a child the parent goes on.
Fork ==
    /\ parent = "fork" /\ n_josim_runs < MaxRuns
    /\ is_valid' = FALSE
    /\ child' \in IF mayFail THEN {"start", "none"} ELSE {"start"}
    /\ written' = 0
    /\ parent' = "open_deck"
    /\ UNCHANGED <<n_josim_runs, col_index, n_columns, column, csv>>

\* Both ends of the pipe of the deck are opened.
OpenDeck ==
    /\ parent = "open_deck" /\ child = "start"
    /\ parent' = "write_deck" /\ child' = "read_deck"
    /\ UNCHANGED <<n_josim_runs, is_valid, col_index, n_columns, column, csv,
                   written>>

\* The deck is written and closed; if its reader has died, so does the writer.
WriteDeck ==
    /\ parent = "write_deck"
    /\ IF Alive
       THEN parent' = "open_csv" /\ child' = "simulate"
       ELSE parent' = "killed" /\ UNCHANGED child
    /\ UNCHANGED <<n_josim_runs, is_valid, col_index, n_columns, column, csv,
                   written>>

(***************************************************************************)
(* Child                                                                   *)
(***************************************************************************)
Simulate ==
    /\ child = "simulate"
    /\ child' = "open_csv"
    /\ UNCHANGED <<parentVars, csv, written>>

PutLine(line) ==
    /\ Writing /\ Len(csv) < PipeSize
    /\ csv' = Append(csv, line)
    /\ written' = written + 1

WriteHeader(h) ==
    /\ written = 0 /\ (mayFail \/ h = Header)
    /\ PutLine([header |-> h])
    /\ UNCHANGED <<parentVars, child>>

WriteRow ==
    /\ written \in 1 .. TableRows
    /\ PutLine([row |-> Width])
    /\ UNCHANGED <<parentVars, child>>

\* All is written: the pipe is closed, then the child exits.
CloseCsv ==
    /\ Writing /\ written = TableRows + 1
    /\ child' = "close"
    /\ UNCHANGED <<parentVars, csv, written>>

Exit ==
    /\ child = "close"
    /\ child' = "exited"
    /\ UNCHANGED <<parentVars, csv, written>>

\* execl() fails, the simulator rejects the deck, or it is killed.
Die ==
    /\ mayFail /\ Alive
    /\ child' = "dead"
    /\ UNCHANGED <<parentVars, csv, written>>

\* Death leaves a torn line: the first columns of a header, or of a row.
DieInLine ==
    /\ mayFail
    /\ \E k \in 1 .. Width :
          \/ /\ written = 0
             /\ \E h \in Headers : PutLine([header |-> SubSeq(h, 1, k)])
          \/ /\ written \in 1 .. TableRows /\ k < Width
             /\ PutLine([row |-> k])
    /\ child' = "dead"
    /\ UNCHANGED parentVars

(***************************************************************************)
(* Parent: the results                                                     *)
(***************************************************************************)
\* Both ends of the pipe of results are opened.
OpenCsv ==
    /\ parent = "open_csv" /\ child = "open_csv"
    /\ parent' = "header" /\ child' = "writing"
    /\ UNCHANGED <<n_josim_runs, is_valid, col_index, n_columns, column, csv,
                   written>>

EndOfCsvNow == csv = <<>>
EndOfCsv == csv = <<>> /\ child \in {"close", "exited", "dead"}

ColumnOf(h, n) == {c \in DOMAIN h : h[c] = n}

\* The first header: every node is matched, exactly once.
MatchedOnce(h) == \A n \in Nodes : Cardinality(ColumnOf(h, n)) = 1
\* A later header: the nodes it lists are where they were.
InPlace(h) == \A n \in Nodes : \A c \in ColumnOf(h, n) : c = col_index[n]

Fresh == [run |-> n_josim_runs + 1, rows |-> 0, whole |-> TRUE]

FirstHeaderUncounted(h) ==
    /\ n_josim_runs = 0
    /\ IF MatchedOnce(h)
       THEN /\ col_index' = [n \in Nodes |-> CHOOSE c \in ColumnOf(h, n) : TRUE]
            /\ column' = [n \in Nodes |-> Fresh]
            /\ parent' = "rows"
       ELSE parent' = "exited" /\ UNCHANGED <<col_index, column>>
    /\ UNCHANGED n_columns
FirstHeader(h) ==
    /\ n_josim_runs = 0
    /\ IF MatchedOnce(h)
       THEN /\ col_index' = [n \in Nodes |-> CHOOSE c \in ColumnOf(h, n) : TRUE]
            /\ n_columns' = Len(h)
            /\ column' = [n \in Nodes |-> Fresh]
            /\ parent' = "rows"
       ELSE parent' = "exited" /\ UNCHANGED <<col_index, n_columns, column>>

ResetNoColumn(h) ==
    /\ n_josim_runs > 0
    /\ parent' = IF InPlace(h) THEN "rows" ELSE "exited"
    /\ UNCHANGED <<col_index, n_columns, column>>
\* A column is reset when the header lists its node.
LaterHeader(h) ==
    /\ n_josim_runs > 0
    /\ IF InPlace(h)
       THEN /\ column' = [n \in Nodes |->
                             IF ColumnOf(h, n) # {} THEN Fresh ELSE column[n]]
            /\ parent' = "rows"
       ELSE parent' = "exited" /\ UNCHANGED column
    /\ UNCHANGED <<col_index, n_columns>>

ReadHeader ==
    /\ parent = "header" /\ csv # <<>>
    /\ csv' = Tail(csv)
    /\ FirstHeader(Head(csv).header) \/ LaterHeader(Head(csv).header)
    /\ UNCHANGED <<n_josim_runs, is_valid, child, written>>

\* A row is added to every column.  A torn row ends the program, unless what
\* an earlier line left behind it in the buffer reads as the missing numbers.
TakeRow(k) ==
    /\ column' = [n \in Nodes |->
                     [column[n] EXCEPT !.rows = @ + 1,
                                       !.whole = @ /\ col_index[n] <= k]]
    /\ UNCHANGED parent
TearRow == parent' = "exited" /\ UNCHANGED column

ReadRow ==
    /\ parent = "rows" /\ csv # <<>>
    /\ csv' = Tail(csv)
    /\ \/ TakeRow(Head(csv).row)
       \/ Head(csv).row < Width /\ TearRow
    /\ UNCHANGED <<n_josim_runs, is_valid, child, written, col_index, n_columns>>

NoHeaderTryAgain == parent = "header" /\ EndOfCsv /\ UNCHANGED josimVars
\* No header at all ends the program.
NoHeader ==
    /\ parent = "header" /\ EndOfCsv
    /\ parent' = "exited"
    /\ UNCHANGED <<n_josim_runs, is_valid, child, csv, written, col_index,
                   n_columns, column>>

EndOfRows ==
    /\ parent = "rows" /\ EndOfCsv
    /\ parent' = "wait"
    /\ UNCHANGED <<n_josim_runs, is_valid, child, csv, written, col_index,
                   n_columns, column>>

\* waitpid(); the exit status is not looked at.  The results are now valid.
Validate == is_valid' = TRUE /\ parent' = "valid"

ReapEarly ==
    /\ parent = "wait"
    /\ Validate
    /\ UNCHANGED <<n_josim_runs, child, csv, written, col_index, n_columns,
                   column>>
Reap ==
    /\ parent = "wait" /\ child \in {"exited", "dead"}
    /\ child' = "none"
    /\ Validate
    /\ UNCHANGED <<n_josim_runs, csv, written, col_index, n_columns, column>>

\* The expressions have used the results.
RunDone ==
    /\ parent = "valid"
    /\ n_josim_runs' = n_josim_runs + 1
    /\ parent' = "fork"
    /\ UNCHANGED <<is_valid, child, csv, written, col_index, n_columns, column>>

(***************************************************************************)
(* The parent waits for the other end of a pipe that will never be opened. *)
(***************************************************************************)
Hung ==
    \/ parent = "open_deck" /\ child \in {"none", "dead"}
    \/ parent = "open_csv" /\ child = "dead"

AllRunsDone == parent = "fork" /\ n_josim_runs = MaxRuns
JosimEnded == parent \in {"exited", "killed"} \/ AllRunsDone

Stopped == (JosimEnded \/ Hung) /\ UNCHANGED josimVars

Parent ==
    \/ Fork \/ OpenDeck \/ WriteDeck \/ OpenCsv
    \/ ReadHeader \/ ReadRow \/ NoHeader \/ EndOfRows \/ Reap \/ RunDone

ChildWorks ==
    \/ Simulate
    \/ \E h \in Headers : WriteHeader(h)
    \/ WriteRow \/ CloseCsv \/ Exit

\* Once the parent is gone, the child's pipes do not matter any more.
Child == ~JosimEnded /\ (ChildWorks \/ Die \/ DieInLine)

JosimNext ==
    /\ Parent \/ Child \/ Stopped
    /\ UNCHANGED mayFail

\* Both processes are scheduled, and the simulator does not compute for ever.
JosimSpec == JosimInit /\ [][JosimNext]_josimVars /\ WF_josimVars(Parent /\ UNCHANGED mayFail)
        /\ WF_josimVars(~JosimEnded /\ ChildWorks /\ UNCHANGED mayFail)

(***************************************************************************)
(* Properties                                                              *)
(***************************************************************************)
JosimTypeOK ==
    /\ parent \in {"fork", "open_deck", "write_deck", "open_csv", "header", "rows",
               "wait", "valid", "exited", "killed"}
    /\ n_josim_runs \in 0 .. MaxRuns
    /\ is_valid \in BOOLEAN /\ mayFail \in BOOLEAN
    /\ child \in {"none", "start", "read_deck", "simulate", "open_csv", "writing",
                  "close", "exited", "dead"}
    /\ Len(csv) <= PipeSize
    /\ written \in 0 .. TableRows + 1
    /\ n_columns \in 0 .. Width /\ col_index \in [Nodes -> 0 .. n_columns]
    /\ column \in [Nodes -> [run : 0 .. MaxRuns, rows : Nat, whole : BOOLEAN]]

\* A run starts with nothing left of the one before: the child is reaped and
\* the pipe of results is empty, so no row is ever read as one of a later run.
FreshStart == parent = "fork" => child = "none" /\ csv = <<>>

\* Whatever becomes of the simulator, columns collected in the same run have
\* the same number of rows, and never more than one table of them.
ColumnsAgree ==
    is_valid /\ parent = "valid" =>
        /\ \A m, n \in Nodes :
              column[m].run = column[n].run => column[m].rows = column[n].rows
        /\ \A n \in Nodes : column[n].run = n_josim_runs + 1 => column[n].rows <= TableRows

\* Runs keep apart: nothing is left for the next one, and what columns hold
\* of one run is one table.
RunsApart == FreshStart /\ ColumnsAgree

\* nodes_of_interest.h:63 the flag "is cleared prior to a simulation run and
\* set once the JoSIM completed successfully": while it is set, every node has
\* the complete data of the last run.
ValidMeansComplete ==
    is_valid /\ parent = "valid" =>
        \A n \in Nodes :
            column[n] = [run |-> n_josim_runs + 1, rows |-> TableRows, whole |-> TRUE]

\* With a simulator that does not fail the flag keeps that promise: what was
\* read while the child was still writing, and into columns that held the
\* results of the run before, is exactly the table of this run.
CompleteIfHealthy == ~mayFail => ValidMeansComplete

\* With a simulator that does not fail every run is done.
AllRunsEnd == ~mayFail => <>AllRunsDone

\* With one that fails the program ends or waits for ever at a pipe.
EndsOrHangs == <>[](JosimEnded \/ Hung)

\* Both: all runs are done, or the program ends or waits for ever at a pipe.
RunsEnd == AllRunsEnd /\ EndsOrHangs
=============================================================================
