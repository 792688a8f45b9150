---------------------------- MODULE MCCsvImport -----------------------------
(***************************************************************************)
(* CsvImport for TLC: every file of up to MaxRecords records.  Lengths and *)
(* line breaks matter only to the parallel reader, which does not tell     *)
(* "short" and "unfit" from "good".  A header in another case and an empty *)
(* end are met in relationship files only.                                 *)
(***************************************************************************)
EXTENDS CsvImport, SequencesExt

CONSTANTS
  Paths,       \* the paths to check
  RowLens,     \* lengths of records for the parallel reader
  Styles,      \* what is between two records for the parallel reader
  MaxRecords,  \* bound on the records of a file
  MaxRows      \* bound on the records of a file for the parallel reader

\* The bytes between two records, and the places behind a "\n" among them.
Break ==
  [lf    |-> [len |-> 1, lines |-> {1}],
   crlf  |-> [len |-> 2, lines |-> {2}],
   blank |-> [len |-> 2, lines |-> {1, 2}],
   cr    |-> [len |-> 1, lines |-> {}],
   none  |-> [len |-> 0, lines |-> {}]]

\* The bytes in front of record i of s, of which each has a break behind it.
Before(s, i) == FoldLeft(LAMBDA n, r : n + r.len + Break[r.break].len, 0, SubSeq(s, 1, i - 1))

\* The records of s, one behind the other.
LayOut(l, p, s) ==
  [loader |-> l, path |-> p,
   file |-> [i \in DOMAIN s |-> [start |-> Before(s, i), stop |-> Before(s, i) + s[i].len,
                                 kind |-> s[i].kind]],
   lines |-> UNION { {Before(s, i) + s[i].len + n : n \in Break[s[i].break].lines} : i \in DOMAIN s },
   file_size |-> Before(s, Len(s) + 1)]

Rows(lens, kinds, breaks) == [len : lens, kind : kinds, break : breaks]

\* Files of up to max records behind one of the headers.
Files(l, p, max, headers, records) ==
  UNION { {LayOut(l, p, <<h>> \o f) : h \in headers, f \in [1 .. n -> records]} : n \in 0 .. max }

\* Files without a header, the first line of which passes as one, and without
\* a newline at their end.
BareFiles(l, p, max, records) ==
  {LayOut(l, p, <<[len |-> 0, kind |-> "good", break |-> "none"]>> \o
                [f EXCEPT ![Len(f)].break = "none"]) :
     f \in UNION { [1 .. n -> records] : n \in 1 .. max }}

Headers(l) == {"good", "bad"} \cup IF l = "rels" THEN {"othercase"} ELSE {}

ReaderInputs(l, p) ==
  Files(l, p, MaxRecords, Rows({1}, Headers(l), {"lf"}),
        Rows({1}, Kinds \ IF l = "nodes" THEN {"keyless"} ELSE {}, {"lf"}))

ParallelInputs ==
  LET Good(breaks) == Rows(RowLens, {"good"}, breaks)
      NodeKinds == {"good", "bad"}
      RelKinds == {"good", "keyless", "garbled", "multiline"}
  IN  UNION { Files("nodes", "parallel", MaxRows, Good({b}), Good({b})) : b \in Styles }
      \cup Files("nodes", "parallel", MaxRows - 2, Good(Styles), Good(Styles))
      \cup UNION { Files("nodes", "parallel", MaxRows - 1, Good({b}), Rows(RowLens, NodeKinds, {b})) :
                     b \in Styles }
      \cup UNION { BareFiles("nodes", "parallel", MaxRows - 1, Rows(RowLens, NodeKinds, {b})) :
                     b \in Styles }
      \cup UNION { Files("rels", "parallel", MaxRows - 2, Rows(RowLens, Headers("rels"), {b}),
                         Rows(RowLens, RelKinds, {b})) : b \in Styles }

MCInputs ==
  UNION { ReaderInputs(l, p) : l \in {"nodes", "rels"}, p \in Paths \ {"parallel"} }
  \cup IF "parallel" \in Paths THEN ParallelInputs ELSE {}
=============================================================================
