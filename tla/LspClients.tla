------------------------------- MODULE LspClients -------------------------------
(***************************************************************************)
(* LanguageServerManager, LSPService and LSPContextProvider for one        *)
(* workspace.  What was detected is kept for as long as the process lives, *)
(* and so is the client that was made for it; a pyright is run for each    *)
(* question and reads the files then.  What is installed is external.      *)
(***************************************************************************)
EXTENDS WorkspaceTree, CommandPolicy

CONSTANTS
    Sources,        \* files of a supported language
    NoFocus

ASSUME LspAssumptions == Sources \subseteq Files /\ NoFocus \notin Files

VARIABLES
    installed,      \* "nothing", "server" without the CLI, or "pyright"
    detection,      \* _detections[root], "none" before the first
    client,         \* _clients[root]: "none", "pyright", "unavailable"
    focus,          \* _focus_path of the context provider
    lspSection      \* _cached_text: [status, seen]

lspVars == <<detection, client, focus, lspSection>>

NotBuilt == [status |-> "not built", seen |-> <<>>]

LInit ==
    /\ installed \in {"nothing", "server", "pyright"}
    /\ detection = "none" /\ client = "none"
    /\ focus = NoFocus /\ lspSection = NotBuilt

\* LanguageServerDetector.detect
DetectNow ==
    IF Present(files) \cap (Sources \ Hidden) = {} THEN "unsupported"
    ELSE IF installed = "nothing" THEN "unavailable"
    ELSE "available"

Detect == IF detection = "none" THEN DetectNow ELSE detection

\* default_client_factory: the server alone is of no use.
MakeClient == IF installed = "pyright" THEN "pyright" ELSE "unavailable"

GetClient == IF client = "none" THEN MakeClient ELSE client

\* LSPService.status: a client that works counts more than what was detected.
Status == IF client = "pyright" THEN "available" ELSE Detect

Asked == Status = "available"

Checked(path) == IF path = NoFocus THEN Files ELSE {path}

\* PyrightCliClient.diagnostics; "failed" is a timeout, no output or no JSON.
Diagnostics(path, outcome) ==
    IF GetClient = "pyright" /\ outcome = "ok" /\ (path = NoFocus \/ Resolves(path))
    THEN [status |-> "shown", seen |-> [f \in Checked(path) |-> files[f]]]
    ELSE [status |-> "failed", seen |-> <<>>]

\* LSPContextProvider.build_workspace_context
BuildSection(path, outcome) ==
    IF Asked THEN Diagnostics(path, outcome) ELSE [status |-> Status, seen |-> <<>>]

Remember ==
    /\ detection' = Detect
    /\ client' = IF Asked THEN GetClient ELSE client

\* refresh_lsp_context
RefreshLsp(path, outcome) ==
    /\ LspDecide("diagnostics") = "allow"
    /\ Remember
    /\ focus' = path
    /\ lspSection' = BuildSection(path, outcome)

\* definition, references, symbols, hover: answers that change nothing else.
AskLsp(operation) ==
    /\ LspDecide(operation) = "allow"
    /\ Remember
    /\ UNCHANGED <<focus, lspSection>>

Install(what) ==
    /\ installed # what
    /\ installed' = what
    /\ UNCHANGED lspVars

\* A new process has detected nothing and built nothing.
LspCrash ==
    /\ detection' = "none" /\ client' = "none"
    /\ focus' = NoFocus /\ lspSection' = NotBuilt
===============================================================================
