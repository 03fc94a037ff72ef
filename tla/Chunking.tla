-------------------------------- MODULE Chunking --------------------------------
(***************************************************************************)
(* How a file is cut into the chunks that are indexed: chunk_text.  A file *)
(* is a sequence of lines, of which only this counts: whether one begins a *)
(* section (the head of a class or function, a header), is blank, or       *)
(* neither.  A chunk is the numbers of its first and last line.            *)
(***************************************************************************)
EXTENDS Integers, Sequences, FiniteSetsExt

CONSTANTS
    Window, Overlap,    \* by kind of window: "config", "markdown", "large", "default"
    Large               \* a section of more lines is cut again

Lines == {"begins", "text", "blank"}

IsBlank(lines, chunk) == \A i \in chunk.first..chunk.last : lines[i] = "blank"

\* _chunk_line_windows on the lines first..last: windows that overlap, up to
\* the one that reaches the end; blank ones are dropped.
Windows(lines, first, last, kind) ==
    LET step   == Max({1, Window[kind] - Overlap[kind]})
        starts == {i \in first..last : /\ (i - first) % step = 0
                                       /\ i = first \/ i - step + Window[kind] <= last}
        cut(i) == [first |-> i, last |-> Min({i + Window[kind] - 1, last})]
    IN  {c \in {cut(i) : i \in starts} : ~IsBlank(lines, c)}

All(lines, kind) == Windows(lines, 1, Len(lines), kind)

Heads(lines) == {i \in 1..Len(lines) : lines[i] = "begins"}

\* From each head to the line before the next; lines before the first are in none.
Sections(lines) ==
    { [first |-> h, last |-> Min({j \in Heads(lines) : j > h} \cup {Len(lines) + 1}) - 1] :
        h \in Heads(lines) }

\* _chunk_by_patterns
ByPatterns(lines) ==
    UNION { IF s.last - s.first + 1 > Large THEN Windows(lines, s.first, s.last, "large") ELSE {s} :
              s \in Sections(lines) }

\* _chunk_markdown: sections of any size.
Markdown(lines) ==
    IF Heads(lines) = {} THEN All(lines, "markdown") ELSE Sections(lines)

\* chunk_text: a strategy that finds nothing falls back to the default windows.
ChunkText(lines, ext) ==
    LET found == CASE ext = "code"     -> ByPatterns(lines)
                   [] ext = "markdown" -> Markdown(lines)
                   [] ext = "config"   -> All(lines, "config")
                   [] OTHER            -> {}
    IN  IF found # {} THEN found ELSE All(lines, "default")
===============================================================================
