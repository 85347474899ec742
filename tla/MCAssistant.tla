----------------------------- MODULE MCAssistant -----------------------------
(***************************************************************************)
(* What the program answers an editor and an assistant with: the documents *)
(* of the LSP server, the tools of the MCP server, the context a question  *)
(* is answered with, the commands of the Git backend, the text algorithms  *)
(* and the walks over syntax trees.  They share no state: a behaviour is   *)
(* about one of them, its part, and leaves the others in an initial state. *)
(***************************************************************************)
EXTENDS MCLspDocuments, MCMcpSession, MCContextPipeline, MCGitCommands, MCTextAlgorithms, MCSyntaxWalks

VARIABLE part

allVars == <<part, vars, mcpVars, pipelineVars, gitVars, textVars, syntaxVars>>

OneConfiguration == CHOOSE one \in Configurations : TRUE
OneProject == CHOOSE one \in Projects : TRUE
OneInput == CHOOSE one \in Inputs["id"] : TRUE

InitAssistant ==
  /\ part \in {"documents", "tools", "context", "git", "text", "syntax"}
  /\ part = "documents" \/ enable_rename = FALSE
  /\ Init
  /\ IF part = "tools" THEN TRUE ELSE options = OneConfiguration
  /\ InitSession
  /\ IF part = "context" THEN TRUE ELSE project = OneProject
  /\ InitPipeline
  /\ InitGit
  /\ IF part = "text" THEN InitText ELSE algorithm = "id" /\ input = OneInput /\ result = Nothing
  /\ IF part = "syntax" THEN InitSyntax ELSE tree = File(<<Defaulted>>) /\ indexed = <<>>

NextAssistant ==
  /\ UNCHANGED part
  /\ \/ part = "documents" /\ Next /\ UNCHANGED <<mcpVars, pipelineVars, gitVars, textVars, syntaxVars>>
     \/ part = "tools" /\ NextSession /\ UNCHANGED <<vars, pipelineVars, gitVars, textVars, syntaxVars>>
     \/ part = "context" /\ NextPipeline /\ UNCHANGED <<vars, mcpVars, gitVars, textVars, syntaxVars>>
     \/ part = "git" /\ NextGit /\ UNCHANGED <<vars, mcpVars, pipelineVars, textVars, syntaxVars>>
     \/ part = "text" /\ NextText /\ UNCHANGED <<vars, mcpVars, pipelineVars, gitVars, syntaxVars>>
     \/ part = "syntax" /\ NextSyntax /\ UNCHANGED <<vars, mcpVars, pipelineVars, gitVars, textVars>>

\* What tells two states of a behaviour apart is in the variables of its part.
Changing ==
  CASE part = "documents" -> vars
    [] part = "tools" -> mcpVars
    [] part = "context" -> pipelineVars
    [] part = "git" -> gitVars
    [] part = "text" -> textVars
    [] part = "syntax" -> syntaxVars

View == <<part, Changing>>

SpecAssistant == InitAssistant /\ [][NextAssistant]_allVars
=============================================================================
