--------------------------- MODULE Investigation ---------------------------
(***************************************************************************)
(* One codebase_query step of an investigation: the capability searches or *)
(* reads the source tree (v5/capabilities, _source_search, _source_read),  *)
(* its answer becomes the Observation, verify_codebase_query measures the  *)
(* tree again with the same instrument (v5/verification.py), and a digest  *)
(* of a verified answer goes to the model (v5/live_loop.py).  Other people *)
(* edit the tree all the while.                                            *)
(*                                                                         *)
(* A line is a Boolean, whether the pattern matches it.  In a read a line  *)
(* stands for a character, one of two bytes when TRUE.  Patterns, globs    *)
(* and path resolution are left out: a file that the glob, the size cap,   *)
(* the decoder or the containment check leaves aside is "opaque".          *)
(***************************************************************************)
EXTENDS Naturals, SequencesExt

CONSTANTS Layout,      \* the directories in walk order, each with its names in order
          Entries,     \* what may stand under a name: kind and lines
          Trees,       \* the trees there may be at the start
          MaxFiles,    \* _SEARCH_MAX_FILES
          MaxMatches,  \* _SEARCH_MAX_MATCHES
          ReadCap,     \* _READ_CAP_BYTES
          DigestCap,   \* _FEEDBACK_MATCHES, _SYNTH_MATCHES
          MaxEdits     \* bound: edits of the tree

Names == FlattenSeq(Layout)
Files == ToSet(Names)

ASSUME InvestigationConstants ==
  /\ Layout \in Seq(Seq(Files)) /\ IsInjective(Names)
  /\ \A e \in Entries : /\ e.kind \in {"text", "opaque", "absent"}
                        /\ e.lines \in Seq(BOOLEAN)
                        /\ e.kind # "text" => e.lines = <<>>
  /\ Trees \subseteq [Files -> Entries]
  /\ {MaxFiles, MaxMatches, ReadCap, DigestCap, MaxEdits} \subseteq Nat

\* 12 and 25 of 50.
ASSUME DigestIsShorter == DigestCap < MaxMatches

VARIABLES tree,     \* file -> what stands there now
          query,    \* the action's arguments
          phase,    \* where the step is
          probe,    \* the local variables of the instrument
          found,    \* what the instrument returned to the one who called it
          told,     \* what it returned to the capability
          action,   \* the action's status
          report,   \* raw_result of the Observation
          verdict,  \* the verification's result
          digest,   \* what the model is shown
          edited    \* the phases in which somebody edited the tree, in order

vars == <<tree, query, phase, probe, found, told, action, report, verdict, digest, edited>>

\* The elements of s that are in S, in order.
Keep(s, S) == FoldLeft(LAMBDA kept, x : IF x \in S THEN Append(kept, x) ELSE kept, <<>>, s)

\* Of a tree t.
Present(t, f) == t[f].kind # "absent"
IsText(t, f)  == t[f].kind = "text"
Hits(t, f) == LET numbers == 1 .. Len(t[f].lines)
              IN  Keep([i \in numbers |-> i], {i \in numbers : t[f].lines[i]})

Measuring == phase \in {"run", "check"} /\ found.kind = "none"
Returns(f) == found' = f /\ UNCHANGED probe
Goes(p) == probe' = p /\ UNCHANGED found

First(n, s) == IF Len(s) > n THEN SubSeq(s, 1, n) ELSE s

NoAnswer == [op |-> "none"]
Nothing  == [kind |-> "none", answer |-> NoAnswer]
NoEffect == [kind |-> "no effect", answer |-> NoAnswer]
Raised   == [kind |-> "raised", answer |-> NoAnswer]
Answer(a) == [kind |-> "answer", answer |-> a]

-----------------------------------------------------------------------------
(* _source_search, one directory or file per step.                         *)

Start == [at |-> "start", dir |-> 0, files |-> <<>>, scanned |-> 0,
          matches |-> <<>>, truncated |-> FALSE]

SearchAnswer(p) == [op |-> "search", matches |-> p.matches, scanned |-> p.scanned,
                    truncated |-> p.truncated]

\* The names in a directory, sorted.
Sorted(t, d) == Keep(Layout[d], {f \in Files : Present(t, f)})

\* Mutant: the names in the order the file system returns them.
Listing_AsFound(d) == {Sorted(tree, d), Reverse(Sorted(tree, d))}

\* What the walk may be given of it.
Listing(d) == {Sorted(tree, d)}

enter_directory ==
  /\ Measuring /\ query.op = "search" /\ probe.files = <<>>
  /\ IF probe.dir = Len(Layout)
     THEN Returns(Answer(SearchAnswer(probe)))
     ELSE IF probe.scanned >= MaxFiles
     THEN Returns(Answer(SearchAnswer([probe EXCEPT !.truncated = TRUE])))
     ELSE \E names \in Listing(probe.dir + 1) :
            Goes([probe EXCEPT !.dir = @ + 1, !.files = names])
  /\ UNCHANGED <<tree, query, phase, told, action, report, verdict, digest, edited>>

MatchesIn(t, f) == [i \in 1 .. Len(Hits(t, f)) |-> <<f, Hits(t, f)[i]>>]

\* The matches of f as far as there is room.  The search leaves a directory once it
\* is full, and calls itself truncated if it looks at one more line.
Scan(t, p, f) ==
  LET hits == Hits(t, f)
      room == MaxMatches - Len(p.matches)
      full == Len(hits) >= room
      last == IF room = 0 THEN 0 ELSE hits[room]
  IN  [p EXCEPT !.scanned = @ + 1,
                !.matches = @ \o First(room, MatchesIn(t, f)),
                !.truncated = @ \/ (full /\ last < Len(t[f].lines)),
                !.files = IF full THEN <<>> ELSE Tail(@)]

scan_file ==
  /\ Measuring /\ query.op = "search" /\ probe.files # <<>>
  /\ \/ /\ probe.scanned >= MaxFiles
        /\ Goes([probe EXCEPT !.truncated = TRUE, !.files = <<>>])
     \/ /\ probe.scanned < MaxFiles
        /\ IsText(tree, Head(probe.files))
        /\ Goes(Scan(tree, probe, Head(probe.files)))
     \/ /\ probe.scanned < MaxFiles
        /\ ~IsText(tree, Head(probe.files))
        /\ Goes([probe EXCEPT !.files = Tail(@)])
  /\ UNCHANGED <<tree, query, phase, told, action, report, verdict, digest, edited>>

-----------------------------------------------------------------------------
(* _source_read: exists, size, content, each a look of its own.            *)

Bytes(lines) == Len(lines) + Len(Keep(lines, {TRUE}))

\* Measured in bytes, cut in characters.
ReadAnswer(lines) ==
  [op |-> "read_file", truncated |-> Bytes(lines) > ReadCap,
   content |-> IF Bytes(lines) > ReadCap THEN First(ReadCap, lines) ELSE lines]

read_exists ==
  /\ Measuring /\ query.op = "read_file" /\ probe.at = "start"
  /\ IF Present(tree, query.file) THEN Goes([probe EXCEPT !.at = "stat"]) ELSE Returns(NoEffect)
  /\ UNCHANGED <<tree, query, phase, told, action, report, verdict, digest, edited>>

\* Nobody catches the error of a file that vanished since the look before.
read_stat ==
  /\ Measuring /\ query.op = "read_file" /\ probe.at = "stat"
  /\ IF Present(tree, query.file) THEN Goes([probe EXCEPT !.at = "bytes"]) ELSE Returns(Raised)
  /\ UNCHANGED <<tree, query, phase, told, action, report, verdict, digest, edited>>

read_bytes ==
  /\ Measuring /\ query.op = "read_file" /\ probe.at = "bytes"
  /\ IF IsText(tree, query.file) THEN Returns(Answer(ReadAnswer(tree[query.file].lines)))
                           ELSE Returns(NoEffect)
  /\ UNCHANGED <<tree, query, phase, told, action, report, verdict, digest, edited>>

-----------------------------------------------------------------------------
(* The executor and the verifier.                                          *)

\* What a wrong capability may put in the place of its answer.
Distorted(a) ==
  IF a.op = "search"
  THEN {[a EXCEPT !.truncated = ~@], [a EXCEPT !.scanned = @ + 1]}
       \cup {[a EXCEPT !.matches = Front(a.matches)] : x \in ToSet(a.matches)}
       \cup {[a EXCEPT !.matches[Len(a.matches)] = <<Names[1], 9>>] : x \in ToSet(a.matches)}
  ELSE {[a EXCEPT !.truncated = ~@], [a EXCEPT !.content = Append(@, TRUE)]}

\* execute_action: observed with the answer, honest or not; failed; unknown.
settle ==
  /\ phase = "run" /\ found.kind # "none"
  /\ told' = found.answer
  /\ \/ /\ found.kind = "answer"
        /\ action' = "OBSERVED" /\ phase' = "observed"
        /\ report' \in {found.answer} \cup Distorted(found.answer)
     \/ /\ found.kind = "no effect"
        /\ action' = "FAILED" /\ phase' = "over" /\ UNCHANGED report
     \/ /\ found.kind = "raised"
        /\ action' = "UNKNOWN_OUTCOME" /\ phase' = "over" /\ UNCHANGED report
  /\ UNCHANGED <<tree, query, probe, found, verdict, digest, edited>>

begin_verification ==
  /\ phase = "observed"
  /\ phase' = "check" /\ probe' = Start /\ found' = Nothing
  /\ UNCHANGED <<tree, query, told, action, report, verdict, digest, edited>>

\* Mutant: as many matches, not the same ones.
Agrees_Count(a, b) ==
  IF a.op = "search"
  THEN /\ Len(a.matches) = Len(b.matches)
       /\ a.scanned = b.scanned /\ a.truncated = b.truncated
  ELSE a = b

\* The fields the evaluator compares are all the fields of the answer.
Agrees(a, b) == a = b

conclude ==
  /\ phase = "check" /\ found.kind # "none"
  /\ verdict' = CASE found.kind = "raised"    -> "INCONCLUSIVE"
                  [] found.kind = "no effect" -> "FAIL"
                  [] OTHER -> IF Agrees(report, found.answer) THEN "PASS" ELSE "FAIL"
  /\ phase' = IF verdict' = "PASS" THEN "verified" ELSE "over"
  /\ UNCHANGED <<tree, query, probe, found, told, action, report, digest, edited>>

\* Mutant: the digest repeats the capability's flag.
Digest_Repeats(r) ==
  IF r.op = "search"
  THEN [op |-> "search", matches |-> First(DigestCap, r.matches), truncated |-> r.truncated]
  ELSE r

\* _observation_digest; of a read, the content is cut by a cap of its own (not here).
Digest(r) ==
  IF r.op = "search"
  THEN [op |-> "search", matches |-> First(DigestCap, r.matches),
        truncated |-> r.truncated \/ Len(r.matches) > DigestCap]
  ELSE r

feed_back ==
  /\ phase = "verified"
  /\ digest' = Digest(report)
  /\ phase' = "over"
  /\ UNCHANGED <<tree, query, probe, found, told, action, report, verdict, edited>>

-----------------------------------------------------------------------------
\* Somebody writes, replaces or removes a file.
edit(f, e) ==
  /\ phase # "over" /\ Len(edited) < MaxEdits
  /\ tree[f] # e
  /\ tree' = [tree EXCEPT ![f] = e]
  /\ edited' = Append(edited, phase)
  /\ UNCHANGED <<query, phase, probe, found, told, action, report, verdict, digest>>

Init ==
  /\ tree \in Trees
  /\ query \in {[op |-> "search"]} \cup {[op |-> "read_file", file |-> f] : f \in Files}
  /\ phase = "run" /\ probe = Start /\ found = Nothing
  /\ told = NoAnswer /\ action = "EXECUTING" /\ report = NoAnswer
  /\ verdict = "PENDING" /\ digest = NoAnswer /\ edited = <<>>

Next ==
  \/ enter_directory \/ scan_file
  \/ read_exists \/ read_stat \/ read_bytes
  \/ settle \/ begin_verification \/ conclude \/ feed_back
  \/ \E f \in Files, e \in Entries : edit(f, e)

Spec == Init /\ [][Next]_vars

-----------------------------------------------------------------------------
(* What the answers are worth.                                             *)

Quiet(phases) == ToSet(edited) \cap phases = {}

\* The text files in walk order, and their matches.
Texts(t) == Keep(Names, {f \in Files : IsText(t, f)})
MatchesOf(t, files) == FlattenSeq([i \in 1 .. Len(files) |-> MatchesIn(t, files[i])])

\* The docstring of verify_codebase_query: a wrong, invented or missing part of an
\* answer cannot PASS.  While nobody edits the tree under the verifier, an answer
\* that passed lists the first matches of the first files, and a read is the file or
\* the beginning of one that is larger.
PassIsTrue ==
  verdict = "PASS" /\ Quiet({"check", "verified"}) =>
    \/ /\ report.op = "search"
       /\ report.matches = First(MaxMatches, MatchesOf(tree, First(MaxFiles, Texts(tree))))
    \/ /\ report.op = "read_file"
       /\ IsText(tree, query.file)
       /\ IsPrefix(report.content, tree[query.file].lines)
       /\ ~report.truncated => report.content = tree[query.file].lines

\* The two measurements agree (the walk is sorted, the caps fall on the same line):
\* an honest answer is refused only if somebody edited the tree meanwhile.
HonestPasses ==
  verdict \in {"FAIL", "INCONCLUSIVE"} /\ Quiet({"run", "observed", "check"})
    => report # told

\* A verified search that is shown to the model as untruncated shows every match in
\* the tree: no cap of the search, the capability or the digest hides one unnoticed.
NothingHiddenQuietly ==
  /\ digest.op = "search" /\ ~digest.truncated
  /\ Quiet({"check", "verified"})
  => digest.matches = MatchesOf(tree, Texts(tree))
=============================================================================
