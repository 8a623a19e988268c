-------------------------- MODULE MCInvestigation --------------------------
(* An instance of the investigation for TLC. *)
EXTENDS Investigation

CONSTANTS f1, f2, f3, f4

TwoDirectories == << <<f1, f2>>, <<f3, f4>> >>

Text(lines) == [kind |-> "text", lines |-> lines]
Absent == [kind |-> "absent", lines |-> <<>>]
Opaque == [kind |-> "opaque", lines |-> <<>>]

MCEntries == {Absent, Opaque, Text(<<>>), Text(<<TRUE>>), Text(<<TRUE, FALSE>>),
              Text(<<FALSE, TRUE, TRUE>>)}
MCTrees == [Files -> MCEntries]
=============================================================================
