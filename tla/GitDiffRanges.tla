------------------------------ MODULE GitDiffRanges -----------------------------
(***************************************************************************)
(* redactable_ranges: which parts of an input are searched, and for which  *)
(* file.  A plain text is one range; of a git diff, each added, removed or *)
(* unchanged line of a hunk is, without the sign in front of it.           *)
(*                                                                         *)
(* A text is a sequence of lines.  A line is a record:                     *)
(*   head : the prefix that the scanner's tests find first in it           *)
(*   path : what follows that prefix is parsed to, where it is a path      *)
(*   body : the symbols behind the head                                    *)
(*   role : what git means by the line, which the scanner does not see     *)
(*   file : the file that a changed line belongs to                        *)
(* A head counts as one symbol of the text.                                *)
(***************************************************************************)
EXTENDS Integers, Sequences

CONSTANT NoPath     \* the path of a text, or a line, that names none

VARIABLES
    unread,         \* the lines that the scanner has still to see
    offset,         \* where the next of them starts
    inHunk,         \* behind a "@@" of the current file
    inBinaryPatch,  \* in a file whose change is binary
    filePath,       \* current_file_path
    ranges          \* what has been found redactable so far

scannerVars == <<unread, offset, inHunk, inBinaryPatch, filePath, ranges>>

LineLength(line) == (IF line.head = "" THEN 0 ELSE 1) + Len(line.body)

TextLength(lines) ==
    LET lengthOf[n \in 0..Len(lines)] ==
            IF n = 0 THEN 0 ELSE lengthOf[n - 1] + LineLength(lines[n])
    IN lengthOf[Len(lines)]

RedactableRange(start, end, path) == [start |-> start, end |-> end, path |-> path]

FileHeads == {"--- ", "+++ "}

BinaryHeads == {"GIT binary patch", "Binary files "}

Signs == {"+", "-", " "}

\* Mutant: a path that a line does not name forgets the one before it.
PathAfterForgetting(line) == line.path

\* parse_diff_path_line, or what was known before.
PathAfter(line) == IF line.path = NoPath THEN filePath ELSE line.path

InitScanner(lines) ==
    /\ unread = lines
    /\ offset = 0
    /\ inHunk = FALSE
    /\ inBinaryPatch = FALSE
    /\ filePath = NoPath
    /\ ranges = <<>>

\* A plain text is one range, of the file it is said to come from.
WholeText(sourcePath) ==
    /\ ranges' = <<RedactableRange(0, TextLength(unread), sourcePath)>>
    /\ unread' = <<>>
    /\ UNCHANGED <<offset, inHunk, inBinaryPatch, filePath>>

ReadLine ==
    /\ unread # <<>>
    /\ unread' = Tail(unread)
    /\ offset' = offset + LineLength(Head(unread))

FileHeader ==
    /\ ReadLine
    /\ Head(unread).head = "diff --git "
    /\ inHunk' = FALSE
    /\ inBinaryPatch' = FALSE
    /\ filePath' = Head(unread).path
    /\ UNCHANGED ranges

\* Tested before anything else is known of the line, inside a hunk too.
PathLine ==
    /\ ReadLine
    /\ Head(unread).head \in FileHeads
    /\ filePath' = PathAfter(Head(unread))
    /\ UNCHANGED <<inHunk, inBinaryPatch, ranges>>

BinaryLine ==
    /\ ReadLine
    /\ Head(unread).head \in BinaryHeads
    /\ inHunk' = FALSE
    /\ inBinaryPatch' = TRUE
    /\ UNCHANGED <<filePath, ranges>>

HunkHeader ==
    /\ ReadLine
    /\ Head(unread).head = "@@"
    /\ ~inBinaryPatch
    /\ inHunk' = TRUE
    /\ UNCHANGED <<inBinaryPatch, filePath, ranges>>

\* Mutant: the sign in front of a changed line is searched with it.
HunkLineWithSign ==
    /\ ReadLine
    /\ Head(unread).head \in Signs
    /\ Head(unread).body # <<>>
    /\ inHunk /\ ~inBinaryPatch
    /\ ranges' = Append(ranges, RedactableRange(offset, offset', filePath))
    /\ UNCHANGED <<inHunk, inBinaryPatch, filePath>>

HunkLine ==
    /\ ReadLine
    /\ Head(unread).head \in Signs
    /\ Head(unread).body # <<>>
    /\ inHunk /\ ~inBinaryPatch
    /\ ranges' = Append(ranges, RedactableRange(offset + 1, offset', filePath))
    /\ UNCHANGED <<inHunk, inBinaryPatch, filePath>>

\* Lines of binary data, of no hunk, without content, or of the missing newline.
SkippedLine ==
    /\ ReadLine
    /\ \/ /\ inBinaryPatch
          /\ Head(unread).head \in {"@@", "other", "\\ No newline"} \cup Signs
       \/ /\ ~inBinaryPatch
          /\ Head(unread).head \in {"other", "\\ No newline"}
       \/ /\ ~inBinaryPatch
          /\ Head(unread).head \in Signs
          /\ ~inHunk \/ Head(unread).body = <<>>
    /\ UNCHANGED <<inHunk, inBinaryPatch, filePath, ranges>>

ScanLine ==
    \/ FileHeader
    \/ PathLine
    \/ BinaryLine
    \/ HunkHeader
    \/ HunkLine
    \/ SkippedLine

(***************************************************************************)
(* What git writes                                                         *)
(***************************************************************************)

Lines == [head : STRING, path : STRING \cup {NoPath}, body : Seq(STRING), role : STRING,
          file : STRING \cup {NoPath}]

\* A changed line whose content starts like the header of a file: "-" in front
\* of "-- x", "+" in front of "++ x".
TakenForHeader(line) == line.role = "content" /\ line.head \in FileHeads

\* It is taken for the header of another file than its own.
Misleading(line) == TakenForHeader(line) /\ line.path \notin {NoPath, line.file}

\* No line misleads about the file of line n: those that do are of files before it.
FileKept(lines, n) ==
    \A m \in 1..(n - 1) :
        Misleading(lines[m]) => \E d \in (m + 1)..(n - 1) : lines[d].head = "diff --git "

\* The lines from m to n are of one file, which is not binary.
OneTextFile(lines, m, n) ==
    \A k \in m..n : lines[k].head \notin {"diff --git "} \cup BinaryHeads

\* The last header in front of line n that names a file names this one.
NamedLast(lines, n, file) ==
    \E m \in 1..(n - 1) :
        /\ lines[m].role = "header" /\ lines[m].path = file
        /\ lines[m].head \in {"diff --git "} \cup FileHeads
        /\ \A k \in (m + 1)..(n - 1) :
              lines[k].role = "header"
              => /\ lines[k].head # "diff --git "
                 /\ lines[k].head \in FileHeads => lines[k].path = NoPath

\* Headers look like headers and changed lines like changed lines.  These stand in
\* hunks, behind the header of the file that they belong to, and nothing else with
\* a sign in front of it does.
WrittenByGit(lines) ==
    \A n \in DOMAIN lines :
        /\ lines[n].head = "diff --git " => lines[n].role = "header"
        /\ lines[n].head \in FileHeads => lines[n].role \in {"header", "content"}
        /\ lines[n].role = "content" =>
              /\ lines[n].head \in Signs \cup FileHeads
              /\ NamedLast(lines, n, lines[n].file)
              /\ \E d, h \in 1..(n - 1) :
                    /\ lines[d].head = "diff --git " /\ lines[h].head = "@@"
                    /\ d < h /\ OneTextFile(lines, d + 1, n - 1)
        /\ (/\ lines[n].head \in Signs
            /\ \E h \in 1..(n - 1) :
                  lines[h].head = "@@" /\ OneTextFile(lines, h + 1, n - 1))
           => lines[n].role = "content"

(***************************************************************************)
(* What the ranges ought to be                                             *)
(***************************************************************************)

LineStart(lines, n) == TextLength(SubSeq(lines, 1, n - 1))

Content(lines) == {n \in DOMAIN lines : lines[n].role = "content" /\ lines[n].body # <<>>}

BodyRange(lines, n) == [start |-> LineStart(lines, n) + 1,
                        end |-> LineStart(lines, n) + LineLength(lines[n])]
=============================================================================
