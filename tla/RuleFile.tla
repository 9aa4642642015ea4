------------------------------ MODULE RuleFile ------------------------------
(***************************************************************************)
(* read_blocks of aquatransport_config.c, and what tf_redirects and        *)
(* tf_headerrules keep of its blocks.  A line is its length, without the   *)
(* newline and what is trimmed; fgets hands over at most BufSize - 1       *)
(* characters at a time, the newline among them.                           *)
(***************************************************************************)
EXTENDS Integers, Sequences, SequencesExt

CONSTANTS BufSize, Files
RuleFileAssumption == BufSize \in Nat /\ BufSize > 2 /\ Files \subseteq Seq(Nat)

VARIABLES
  file,         \* the lines
  line, off,    \* how far fgets has come
  cur, blocks,  \* the block being read and those read, of pieces <<line, from, length>>
  rules         \* what is kept of the blocks read

vars == <<file, line, off, cur, blocks, rules>>

Init ==
  /\ file \in Files /\ line = 1 /\ off = 0 /\ cur = <<>> /\ blocks = <<>>
  /\ rules = <<>>

Reading == line <= Len(file)
Left == file[line] - off
Whole == Left < BufSize - 1
Length == IF Whole THEN Left ELSE BufSize - 1

fgets ==
  /\ Reading
  /\ IF Whole THEN line' = line + 1 /\ off' = 0 ELSE line' = line /\ off' = off + BufSize - 1

Flush == IF cur = <<>> THEN blocks ELSE Append(blocks, cur)

blank_line ==
  /\ fgets /\ Length = 0
  /\ blocks' = Flush /\ cur' = <<>>
  /\ UNCHANGED <<file, rules>>

text_line ==
  /\ fgets /\ Length > 0
  /\ cur' = Append(cur, <<line, off, Length>>)
  /\ UNCHANGED <<file, blocks, rules>>

end_of_file_unflushed ==
  /\ line = Len(file) + 1 /\ line' = line + 1
  /\ blocks' = blocks /\ cur' = <<>>
  /\ UNCHANGED <<file, off, rules>>
end_of_file ==
  /\ line = Len(file) + 1 /\ line' = line + 1
  /\ blocks' = Flush /\ cur' = <<>>
  /\ UNCHANGED <<file, off, rules>>

(* The blocks are then gone through in their order and freed.  A rule is a *)
(* scope and two lines or more; other blocks are left out.  (A header rule *)
(* copies every line of its block, a redirect the first three.)            *)
Read == line > Len(file) + 1
IsRule(b) == Len(b) >= 3
keep_block ==
  /\ Read /\ blocks # <<>>
  /\ rules' = IF IsRule(Head(blocks)) THEN Append(rules, Head(blocks)) ELSE rules
  /\ blocks' = Tail(blocks)
  /\ UNCHANGED <<file, line, off, cur>>

(* The rules stay until the file changes (RuleCache).                      *)
kept == Read /\ blocks = <<>> /\ UNCHANGED vars

Next == blank_line \/ text_line \/ end_of_file \/ keep_block \/ kept
Spec == Init /\ [][Next]_vars

-----------------------------------------------------------------------------
(* The runs of lines between blank ones, and what is kept of one.          *)
Runs == {r \in (DOMAIN file) \X (DOMAIN file) :
           /\ r[1] <= r[2] /\ \A k \in r[1]..r[2] : file[k] > 0
           /\ r[1] > 1 => file[r[1] - 1] = 0
           /\ r[2] < Len(file) => file[r[2] + 1] = 0}
LongRuns == {r \in Runs : r[2] - r[1] >= 2}
Pieces(r) == [k \in 1..(r[2] - r[1] + 1) |-> <<r[1] + k - 1, 0, file[r[1] + k - 1]>>]

(* A redirect is "scope, from, to", a header rule "scope, URL pattern,     *)
(* then headers to set", and "A block too short to hold a scope line is    *)
(* ignored" (docs/TECHNICAL.md:409-440): where every line fits the buffer, *)
(* the rules are exactly the runs of three or more lines, each once and in *)
(* their order, with each line whole, whatever stands before, between and  *)
(* after them.  (The comment over the reader, config.c:271-273, still      *)
(* gives a redirect two lines and a header rule two or more.)              *)
Fits == \A k \in DOMAIN file : file[k] < BufSize - 1
InFileOrder(bs) == \A m, n \in DOMAIN bs : m < n => bs[m][1][1] < bs[n][1][1]
RulesAsWritten ==
  Read /\ blocks = <<>> /\ Fits =>
    ToSet(rules) = {Pieces(r) : r \in LongRuns} /\ InFileOrder(rules)
=============================================================================
