------------------------------ MODULE Chunking ------------------------------
(****************************************************************************)
(* Cutting a document into the chunks that are embedded (internal/chunker): *)
(* ChunkDocument, one step per turn of its loop, and ExtractBreadcrumbs.    *)
(*                                                                          *)
(* A line is its length in bytes and the kind its first characters give it; *)
(* the text itself, and the wording of a breadcrumb, are left out.  Line    *)
(* numbers start at 1, a heading stands for its line, 0 for the title of    *)
(* the document, and a hole in the stack of headings is -1.                 *)
(****************************************************************************)
EXTENDS Integers, Sequences, FiniteSets, SequencesExt

CONSTANTS
    LineKind,            \* the lines considered: [kind, level, length]
    MaxLines,            \* bound
    Titled,              \* whether the document has a title
    MaxTokens, Overlap   \* 512 and 64 by default

ChunkingAssumption ==
    /\ LineKind \subseteq [kind : {"text", "heading", "rule", "fence"}, level : Nat, length : Nat]
    /\ \A line \in LineKind : line.length = 0 => line.kind = "text"
    /\ MaxLines \in Nat /\ MaxTokens \in Nat /\ Overlap \in Nat

VARIABLES
    lines,               \* the document
    i, startLine,
    buffer, tokens,      \* currentContent, as the lines in it; currentTokens
    breadcrumb,
    chunks               \* [first, last, lines, breadcrumb], and the part of a long line

vars == <<lines, i, startLine, buffer, tokens, breadcrumb, chunks>>

Tokens(length) == length \div 4 + 1
Cost(n) == Tokens(lines[n].length)

-----------------------------------------------------------------------------
(* Breadcrumbs *)

\* A heading of some level closes those of its level and below.
Under(stack, level, heading) ==
    LET depth == IF Titled THEN level + 1 ELSE level
        kept == IF depth <= Len(stack) THEN SubSeq(stack, 1, depth - 1) ELSE stack
    IN  kept \o [hole \in 1..(depth - 1 - Len(kept)) |-> -1] \o <<heading>>

\* Front matter and fenced code hold no headings.
ReadLine(context, n) ==
    LET line == lines[n]
    IN  IF n = 1 /\ line.kind = "rule" THEN [context EXCEPT !.front = TRUE]
        ELSE IF context.front THEN [context EXCEPT !.front = line.kind # "rule"]
        ELSE IF line.kind = "fence" THEN [context EXCEPT !.code = ~@]
        ELSE IF line.kind = "heading" /\ ~context.code
        THEN [context EXCEPT !.stack = Under(@, line.level, n)]
        ELSE context

Context(n) ==
    FoldLeft(ReadLine, [stack |-> IF Titled THEN <<0>> ELSE << >>, front |-> FALSE, code |-> FALSE],
             [k \in 1..n |-> k]).stack

-----------------------------------------------------------------------------
(* ChunkDocument *)

\* An empty text gives no chunks.
Init ==
    /\ \E n \in 1..MaxLines : lines \in [1..n -> LineKind]
    /\ Len(lines) > 1 \/ lines[1].length > 0
    /\ i = 1 /\ startLine = 1 /\ buffer = << >> /\ tokens = 0
    /\ breadcrumb = Context(1)
    /\ chunks = << >>

\* A buffer that holds one empty line holds no characters.
Blank == buffer = << >> \/ (Len(buffer) = 1 /\ lines[buffer[1]].length = 0)

\* The chunk that flush appends; of a buffer without characters it makes none,
\* and then it leaves tokens as they are.
Flush(last) ==
    IF Blank THEN UNCHANGED <<buffer, tokens, chunks>>
    ELSE /\ chunks' = Append(chunks, [first |-> startLine, last |-> last, part |-> 0,
                                      lines |-> buffer, breadcrumb |-> breadcrumb])
         /\ buffer' = << >> /\ tokens' = 0

Reading == i <= Len(lines)
Full == tokens + Cost(i) > MaxTokens /\ tokens > 0

\* The cost of the lines from n up to the current one.
CostSince(n) == FoldLeft(LAMBDA sum, k : sum + Cost(k), 0, [k \in 1..(i - n) |-> n + k - 1])

\* The first line of the overlap: the loop goes back at least one line, not
\* beyond startLine, and stops before the line that would exceed Overlap.
BackTo ==
    IF i <= startLine THEN i
    ELSE CHOOSE n \in startLine..(i - 1) :
             /\ n = i - 1 \/ CostSince(n) <= Overlap
             /\ n = startLine \/ CostSince(n - 1) > Overlap

\* Mutant: the line at hand is passed over also when something was flushed.
GoBackPast ==
    IF BackTo <= startLine
    THEN i' = i + 1 /\ startLine' = i'
    ELSE i' = BackTo /\ startLine' = BackTo

GoBack ==
    IF BackTo <= startLine
    THEN /\ i' = IF i = startLine THEN i + 1 ELSE i
         /\ startLine' = i'
    ELSE i' = BackTo /\ startLine' = BackTo

WindowFull ==
    /\ Reading /\ Full
    /\ Flush(i)
    /\ GoBack
    /\ breadcrumb' = IF Len(lines) >= startLine' THEN Context(startLine') ELSE breadcrumb
    /\ UNCHANGED lines

\* A long line is cut into pieces of four bytes for each token that the
\* breadcrumb leaves.  (The code flushes first, and has nothing to flush.)
PieceLength(crumb) ==
    LET available == MaxTokens - (1 + Len(crumb)) - 1
    IN  4 * (IF available <= 0 THEN 1 ELSE available)
Pieces(n) ==
    [p \in 1..((lines[n].length + PieceLength(Context(n)) - 1) \div PieceLength(Context(n))) |->
        [first |-> n, last |-> n, part |-> p, lines |-> <<n>>, breadcrumb |-> Context(n)]]

GiantLine ==
    /\ Reading /\ ~Full /\ Cost(i) > MaxTokens
    /\ chunks' = chunks \o Pieces(i)
    /\ i' = i + 1 /\ startLine' = i + 1
    /\ UNCHANGED <<lines, buffer, tokens, breadcrumb>>

AddLine ==
    /\ Reading /\ ~Full /\ Cost(i) <= MaxTokens
    /\ IF tokens = 0
       THEN startLine' = i /\ breadcrumb' = Context(i)
       ELSE UNCHANGED <<startLine, breadcrumb>>
    /\ buffer' = Append(buffer, i)
    /\ tokens' = tokens + Cost(i)
    /\ i' = i + 1
    /\ UNCHANGED <<lines, chunks>>

\* The last flush; i moves on to mark the return.
Return ==
    /\ i = Len(lines) + 1
    /\ Flush(Len(lines))
    /\ i' = i + 1
    /\ UNCHANGED <<lines, startLine, breadcrumb>>

Next == WindowFull \/ GiantLine \/ AddLine \/ Return

Spec == Init /\ [][Next]_vars

-----------------------------------------------------------------------------
Held(n) == \E c \in 1..Len(chunks) : n \in ToSet(chunks[c].lines)

FirstText(chunk) == chunk.lines[Min({k \in DOMAIN chunk.lines : lines[chunk.lines[k]].length > 0})]

\* A line that alone fills a window, behind a blank line and others like it.
Swallowed(n) ==
    /\ Cost(n) >= MaxTokens
    /\ \E b \in 1..(n - 1) : lines[b].length = 0 /\ \A k \in (b + 1)..(n - 1) : Cost(k) >= MaxTokens

HasText(chunk) == \E n \in ToSet(chunk.lines) : lines[n].length > 0

\* A heading that is the first text of a chunk, behind the blank line the chunk begins with.
Overlooked(chunk) == lines[chunk.first].length = 0 /\ lines[FirstText(chunk)].kind = "heading"

\* When ChunkDocument returns, every line that is not blank is in a chunk, the
\* chunks begin in the order of the text, and each carries the breadcrumb of the
\* line it begins with, which is that of its first line of text.  Two exceptions are
\* in the code.  A blank line alone in the buffer counts as a token that flush cannot
\* clear, and the window then seems full to every line that would fill it
\* (chunker.go:33, 63, 80-85): Swallowed.  The breadcrumb is taken at the line a chunk
\* begins with, blank or not, so that a heading right behind it is not in it
\* (chunker.go:91, 143-146): Overlooked.
TextIsKept ==
    i > Len(lines) + 1 =>
        /\ \A n \in 1..Len(lines) : lines[n].length = 0 \/ Held(n) \/ Swallowed(n)
        /\ \A c \in 1..Len(chunks) :
              /\ chunks[c].breadcrumb = Context(chunks[c].first)
              /\ HasText(chunks[c]) =>
                    chunks[c].breadcrumb = Context(FirstText(chunks[c])) \/ Overlooked(chunks[c])
              /\ c = 1 \/ chunks[c - 1].first < chunks[c].first
                       \/ chunks[c - 1].part + 1 = chunks[c].part
=============================================================================
