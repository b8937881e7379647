------------------------------ MODULE CsvDataset ------------------------------
(***************************************************************************)
(* One CSV file and its three readers: the agent's read_csv_header           *)
(* (langgraph/nexus_tools.py), whose columns go into the task, the header    *)
(* that checkDataset (privacy_computing/task.go) creates the MySQL table     *)
(* from, and the LOAD DATA statement that fills it.  A file is the sequence   *)
(* of its characters; files with quotes are left out.                        *)
(*                                                                          *)
(* External: encoding/csv, which skips empty lines and takes CR LF for LF,   *)
(* and MySQL, which ignores blanks around an identifier, does not accept a   *)
(* blank in it, an empty or a repeated one, and in its default strict mode   *)
(* no row of another length.                                                *)
(***************************************************************************)
EXTENDS SequencesExt, FiniteSetsExt, Integers

CONSTANTS Letter, Comma, Space, CR, LF,
          MaxLength    \* bound: characters of a file

ASSUME CsvAssumption ==
    /\ Cardinality({Comma, Space, CR, LF}) = 4
    /\ Letter \cap {Comma, Space, CR, LF} = {}
    /\ MaxLength \in Nat

VARIABLES text,       \* the file
          requested,  \* the columns the agent finds, and asks for in its task
          header,     \* the header checkDataset finds
          columns,    \* of the MySQL table
          rows,       \* of the MySQL table
          stage

vars == <<text, requested, header, columns, rows, stage>>

Char == Letter \cup {Comma, Space, CR, LF}
Text == UNION {[1..n -> Char] : n \in 0..MaxLength}

TypeOK ==
    /\ text \in Seq(Char)
    /\ \A s \in {requested, header, columns} : s \in Seq(Seq(Char \ {LF}))
    /\ rows \in Seq(Seq(Seq(Char \ {Comma, LF})))
    /\ stage \in {"located", "stored", "header", "created", "loaded", "killed", "failed"}
    \* checkDataset never goes on without a header, nor with another number of columns
    /\ stage \in {"header", "created", "loaded"} => header # <<>>
    /\ stage \in {"created", "loaded"} => Len(columns) = Len(header)

Init ==
    /\ text \in Text
    /\ requested = <<>> /\ header = <<>> /\ columns = <<>> /\ rows = <<>>
    /\ stage = "located"

----------------------------------------------------------------------------
Mapped(Op(_), s) == [i \in DOMAIN s |-> Op(s[i])]

\* one more element: it ends the last part, or is added to it
Put(parts, e, sep) ==
    IF e = sep THEN Append(parts, <<>>) ELSE Front(parts) \o << Append(Last(parts), e) >>

\* the first n elements of s, cut at each sep
Parts(s, sep) ==
    LET parts[n \in 0..Len(s)] ==
            IF n = 0 THEN << <<>> >> ELSE Put(parts[n - 1], s[n], sep)
    IN  parts

Split(s, sep) == Parts(s, sep)[Len(s)]

Keep(kept, e) == IF e = <<>> THEN kept ELSE Append(kept, e)

\* the first n elements of s without the empty ones
Kept(s) ==
    LET kept[n \in 0..Len(s)] == IF n = 0 THEN <<>> ELSE Keep(kept[n - 1], s[n])
    IN  kept

NonEmpty(s) == Kept(s)[Len(s)]

Lines(t) == Split(t, LF)
Cells(line) == Split(line, Comma)

\* str.strip()
Strip(s) ==
    LET kept == {i \in DOMAIN s : s[i] \notin {Space, CR}}
    IN  IF kept = {} THEN <<>> ELSE SubSeq(s, Min(kept), Max(kept))

\* mutant: the names are not stripped
AgentHeader_Unstripped(t) == NonEmpty(Cells(Lines(t)[1]))

\* columns without a name are dropped
AgentHeader(t) == NonEmpty(Mapped(Strip, Cells(Lines(t)[1])))

DropCR(line) == IF line # <<>> /\ Last(line) = CR THEN Front(line) ELSE line

\* csv.Reader.Read, as often as it succeeds
Records(t) == Mapped(Cells, NonEmpty(Mapped(DropCR, Lines(t))))

\* the column names of a CREATE TABLE statement
Names(h) == Mapped(Strip, h)

Creatable(h) ==
    /\ IsInjective(Names(h))
    /\ \A i \in DOMAIN h : Names(h)[i] # <<>> /\ Names(h)[i] \in Seq(Letter)

\* what follows the first line, up to the last line end
DataLines(t) ==
    LET rest == Tail(Lines(t))
    IN  IF rest # <<>> /\ Last(rest) = <<>> THEN Front(rest) ELSE rest

----------------------------------------------------------------------------
\* when the file cannot be read there is an error in the header's place, and no task
ReadCsvHeader ==
    /\ stage = "located"
    /\ \/ requested' = AgentHeader(text) /\ stage' = "stored"
       \/ stage' = "failed" /\ UNCHANGED requested
    /\ UNCHANGED <<text, header, columns, rows>>

\* mutant: the error of the reader is not looked at
ReadHeader_IgnoreError ==
    /\ stage = "stored"
    /\ header' = IF Records(text) # <<>> THEN Records(text)[1] ELSE <<>>
    /\ stage' = "header"
    /\ UNCHANGED <<text, requested, columns, rows>>

\* a file without a header is fatal
ReadHeader ==
    /\ stage = "stored"
    /\ IF Records(text) # <<>>
       THEN header' = Records(text)[1] /\ stage' = "header"
       ELSE stage' = "killed" /\ UNCHANGED header
    /\ UNCHANGED <<text, requested, columns, rows>>

CreateMysqlTable ==
    /\ stage = "header"
    /\ IF Creatable(header)
       THEN columns' = Names(header) /\ stage' = "created"
       ELSE stage' = "failed" /\ UNCHANGED columns
    /\ UNCHANGED <<text, requested, header, rows>>

\* mutant: the statement ignores no line
Loaded_All(t) ==
    LET all == Lines(t) IN Mapped(Cells, IF Last(all) = <<>> THEN Front(all) ELSE all)

\* IGNORE 1 LINES, whatever that line is
Loaded(t) == Mapped(Cells, DataLines(t))

LoadData ==
    /\ stage = "created"
    /\ IF \A i \in DOMAIN Loaded(text) : Len(Loaded(text)[i]) = Len(columns)
       THEN rows' = Loaded(text) /\ stage' = "loaded"
       ELSE stage' = "failed" /\ UNCHANGED rows
    /\ UNCHANGED <<text, requested, header, columns>>

Next == ReadCsvHeader \/ ReadHeader \/ CreateMysqlTable \/ LoadData

Spec == Init /\ [][Next]_vars

----------------------------------------------------------------------------
(***************************************************************************)
(* Properties                                                               *)
(***************************************************************************)

Blank(line) == DropCR(line) = <<>>

\* The agent and the service read the header by different rules: one drops columns
\* without a name and blanks around the others, one skips empty lines.  Whenever the
\* service gets a table at all, of a file that does not begin with an empty line,
\* the columns the agent asks for are the table's, in order.
AgentKnowsColumns ==
    stage \in {"created", "loaded"} /\ ~Blank(Lines(text)[1]) => requested = columns

\* The header is read by encoding/csv, the rows by MySQL.  In a file without empty
\* lines they fit together: MySQL's rows are the records that follow the header,
\* none missing and none too many, and the only difference is a carriage return that
\* the last cell of a line keeps.
RowsFollowHeader ==
    stage = "loaded" /\ (\A l \in Range(DataLines(text)) \cup {Lines(text)[1]} : ~Blank(l)) =>
        LET records == Records(text) IN
        /\ Len(rows) = Len(records) - 1
        /\ \A i \in DOMAIN rows :
              /\ Front(rows[i]) = Front(records[i + 1])
              /\ Last(rows[i]) \in {Last(records[i + 1]), Append(Last(records[i + 1]), CR)}
=============================================================================
