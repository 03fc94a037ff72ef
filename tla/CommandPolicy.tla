----------------------------- MODULE CommandPolicy -----------------------------
(***************************************************************************)
(* What may run without asking: the policies of run_command, of the git    *)
(* tools, of the LSP and of MCP tools, and what ExecutionService makes of  *)
(* a command that may.  A token that starts with a dash is a member of     *)
(* Flags.                                                                  *)
(***************************************************************************)
EXTENDS Naturals, Sequences, SequencesExt

Verdicts == {"allow", "ask", "deny"}

Allowlist ==
    {"pytest", "python", "python3", "npm", "node", "npx", "mvn", "gradle", "gradlew", "go",
     "cargo", "cmake", "make", "ctest", "git"}

Denylist ==
    {"sudo", "shutdown", "reboot", "mkfs", "dd", "bash", "sh", "zsh", "fish", "csh", "dash",
     "cmd", "powershell", "pwsh"}

AskCommands == {"rm", "rmdir", "unlink"}

AskSubcommands ==
    ({"npm"} \X {"install", "i", "ci", "uninstall", "un", "update", "add", "remove", "rm"})
    \cup ({"npx"} \X {"--yes"})
    \cup ({"pip", "pip3"} \X {"install", "uninstall"})
    \cup ({"yarn"} \X {"add", "install", "upgrade", "remove"})
    \cup ({"pnpm"} \X {"add", "install", "i", "update", "remove", "rm"})
    \cup ({"git"} \X {"reset", "push", "clean", "commit", "rebase", "merge", "checkout", "add"})

Flags ==
    {"-m", "-f", "-D", "--yes", "--force", "--force-with-lease", "--delete", "--hard", "-fd",
     "--"}

\* An interpreter's path and version are cut off: python3.11 is python3.
Basename(command) == IF command = "python3.11" THEN "python3" ELSE command

\* The first argument that is neither empty nor a flag.
FirstArg(args) ==
    LET words == SelectSeq(args, LAMBDA a : a # "" /\ a \notin Flags)
    IN  IF words = <<>> THEN "" ELSE Head(words)

Asks(base, args) == base \in AskCommands \/ <<base, FirstArg(args)>> \in AskSubcommands

\* CommandPolicy.decide
Decide(command, args) ==
    LET base == Basename(command)
    IN  IF base = "" \/ base \in Denylist THEN "deny"
        ELSE IF Asks(base, args) THEN "ask"
        ELSE IF base \in Allowlist THEN "allow"
        ELSE "deny"

-----------------------------------------------------------------------------
\* GitPolicy

GitRead ==
    {"status", "diff", "log", "show", "branch", "rev-parse", "ls-files", "describe", "tag",
     "remote", "config", "help", "version"}

GitWrite ==
    {"add", "commit", "checkout", "switch", "merge", "rebase", "cherry-pick", "stash", "reset",
     "restore", "clean", "push", "pull", "fetch", "mv", "rm"}

GitForbidden(sub, args) ==
    LET has(t) == t \in ToSet(args)
    IN  \/ sub = "push"   /\ (has("--force") \/ has("-f") \/ has("--force-with-lease"))
        \/ sub = "reset"  /\ has("--hard")
        \/ sub = "clean"  /\ has("-fd")
        \/ sub = "branch" /\ (has("-D") \/ (has("--delete") /\ has("--force")))
        \/ /\ sub \in {"checkout", "restore"}
           /\ \E i, j \in DOMAIN args : i < j /\ args[i] = "--" /\ args[j] = "."

GitDecide(sub, args) ==
    IF sub = "" \/ GitForbidden(sub, args) THEN "deny"
    ELSE IF sub \in GitRead THEN "allow"
    ELSE IF sub \in GitWrite THEN "ask"
    ELSE "deny"

\* What the git tools pass to it.
GitToolSubcommand(tool) ==
    CASE tool = "git_commit" -> "commit"
      [] tool = "git_switch" -> "switch"
      [] tool = "git_create" -> "branch"
      [] OTHER -> "status"

-----------------------------------------------------------------------------
\* LspPolicy, MCPToolPolicy

LspDecide(operation) ==
    IF operation \in {"status", "diagnostics", "definition", "references", "symbols", "hover"}
    THEN "allow" ELSE "deny"

\* Annotations first, then what the words of the name suggest.
McpDecide(hints, words) ==
    IF "destructive" \in hints THEN "deny"
    ELSE IF "readOnly" \in hints THEN "allow"
    ELSE IF "openWorld" \in hints THEN "ask"
    ELSE IF "dangerous" \in words THEN "deny"
    ELSE IF "write" \in words \/ "read" \notin words THEN "ask"
    ELSE "allow"

-----------------------------------------------------------------------------
\* ExecutionService.run

MinTimeout == 1
MaxTimeout == 1200      \* tenths of a second

Valid(command, timeout) == command # "" /\ timeout \in MinTimeout..MaxTimeout

\* How a run can end; "gone" is a command that does not exist.
Outcomes(command, timeout, cwdOk) ==
    IF ~Valid(command, timeout) THEN {"invalid"}
    ELSE IF ~cwdOk THEN {"no cwd"}
    ELSE {"gone", "exit 0", "exit 1", "timeout"}

\* Those in which the program ran, and may have written.
Ran(outcome) == outcome \in {"exit 0", "exit 1", "timeout"}
===============================================================================
