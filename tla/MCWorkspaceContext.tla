-------------------------- MODULE MCWorkspaceContext --------------------------
(***************************************************************************)
(* A source file and a rule file, two texts and one content that is too    *)
(* large to index or no text; each start is a workload of its own.         *)
(***************************************************************************)
EXTENDS WorkspaceContext

McFiles    == {"code.py", "AGENTS.md"}
McContents == {1, 2, 3}
McRules    == <<"AGENTS.md">>

\* The run changed the source file, or made it, or changed both, or nothing.
McReverts ==
    {[f \in {} |-> 1], [f \in {"code.py"} |-> 1], [f \in {"code.py"} |-> Absent],
     [f \in McFiles |-> 1]}

McCommands ==
    { [command |-> "python3.11", args |-> <<"-m", "x">>, timeout |-> 1, cwdOk |-> TRUE],
      [command |-> "npm", args |-> <<"ci">>, timeout |-> 1, cwdOk |-> TRUE],
      [command |-> "sudo", args |-> <<>>, timeout |-> 1, cwdOk |-> TRUE] }

\* The tables contradict neither each other nor themselves: what git forbids is
\* never asked for, what writes is never allowed unasked, an MCP tool that says
\* it destroys is never called, and one of unknown words never unasked.
ASSUME PolicyFacts ==
    /\ Allowlist \cap (Denylist \cup AskCommands) = {} /\ Denylist \cap AskCommands = {}
    /\ \A sub \in GitRead \cup GitWrite, a, b \in Flags \cup {"."} :
          /\ GitForbidden(sub, <<a, b>>) => GitDecide(sub, <<a, b>>) = "deny"
          /\ sub \in GitWrite => GitDecide(sub, <<a, b>>) # "allow"
    /\ \A hints \in SUBSET {"destructive", "readOnly", "openWorld"},
         words \in SUBSET {"dangerous", "write", "read"} :
          /\ McpDecide(hints, words) \in Verdicts
          /\ "destructive" \in hints => McpDecide(hints, words) = "deny"
          /\ McpDecide(hints, words) = "allow" => "readOnly" \in hints \/ words = {"read"}

Kinds == {"run", "raise", "look", "edit", "command", "git", "lsp", "revert", "commit",
          "index", "plan", "other", "crash", "message"}

Workload(counts) == [k \in Kinds |-> IF k \in DOMAIN counts THEN counts[k] ELSE 0]

Begins(what, code, rule, counts) ==
    [tree |-> [f \in McFiles |-> IF f = "code.py" THEN code ELSE rule],
     installed |-> what, left |-> Workload(counts)]

\* The conversation; commits; the index under crashes and overlaps; what calls
\* tell while a revert goes on; commands; the language server; two reverts.
McStarts ==
    { Begins("nothing", Absent, Absent, [run |-> 2, message |-> 1, raise |-> 1]),
      Begins("nothing", 1, 1, [run |-> 1, git |-> 2, commit |-> 1, other |-> 1]),
      Begins("nothing", 1, Absent, [run |-> 1, edit |-> 1, index |-> 1, crash |-> 1]),
      Begins("nothing", 1, Absent, [run |-> 1, index |-> 1, other |-> 1, crash |-> 1]),
      Begins("nothing", 1, 1, [run |-> 1, look |-> 1, edit |-> 1, revert |-> 1]),
      Begins("nothing", 1, 1, [run |-> 1, command |-> 1, revert |-> 1, commit |-> 1]),
      Begins("pyright", Absent, Absent, [run |-> 1, edit |-> 1, lsp |-> 1, revert |-> 1]),
      Begins("server", 1, Absent, [run |-> 1, lsp |-> 1, other |-> 1, crash |-> 1]),
      Begins("nothing", 2, Absent, [index |-> 1, revert |-> 1, plan |-> 2]),
      Begins("nothing", 1, Absent, [index |-> 1, revert |-> 2, other |-> 1]) }

-----------------------------------------------------------------------------
\* The chunks of files of up to six lines, with windows of two or three.

Kind == {"config", "markdown", "large", "default"}
Cut == INSTANCE Chunking WITH
           Window  <- [k \in Kind |-> IF k = "config" THEN 2 ELSE 3],
           Overlap <- [k \in Kind |-> 1],
           Large   <- 4

SmallFiles == UNION {[1..n -> Cut!Lines] : n \in 0..6}

\* Every line that is not blank is in a chunk, save those before the first
\* section of a file that is cut by sections; a chunk is a part of the file,
\* is not blank, and of code no longer than a section may be.
ASSUME ChunksCover ==
    \A lines \in SmallFiles, ext \in {"code", "markdown", "config", "other"} :
        LET parts == Cut!ChunkText(lines, ext)
            bySections == ext \in {"code", "markdown"} /\ Cut!Heads(lines) # {}
        IN  /\ \A i \in DOMAIN lines :
                  \/ lines[i] = "blank"
                  \/ \E c \in parts : i \in c.first..c.last
                  \/ bySections /\ \A h \in Cut!Heads(lines) : i < h
            /\ \A c \in parts :
                  /\ c.first \in 1..c.last /\ c.last <= Len(lines)
                  /\ ~Cut!IsBlank(lines, c)
                  /\ ext = "code" => c.last - c.first + 1 <= 4
===============================================================================
