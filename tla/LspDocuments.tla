---------------------------- MODULE LspDocuments ----------------------------
(***************************************************************************)
(* LspServer::Run (src/Core/src/LSP/LspServer.cpp): one thread that reads  *)
(* messages from its client, keeps the text of the documents the client    *)
(* has open, answers requests from that text, from the indexes and from    *)
(* the disk, and publishes diagnostics when they appear or disappear.      *)
(* Meanwhile the client sends on without waiting, files are edited, and    *)
(* the FileWatcher of RunLspMode brings the two indexes up to date.        *)
(*                                                                         *)
(* A text is a sequence of lines, and a line holds its identifiers, the    *)
(* name it declares with the type it gives it, whether it is an #include   *)
(* that resolves to no project file, and whether tree-sitter finds a       *)
(* syntax error on it.  A position is a line and the number of the         *)
(* identifier under the cursor, 0 for none.  An index is the text it last  *)
(* read of each file; a deleted file is one without lines.  The URI of a   *)
(* file is the file; one outside the project behaves as a firewalled one.  *)
(***************************************************************************)
EXTENDS Integers, FiniteSets, SequencesExt

CONSTANTS
  Files,         \* the project's C++ files
  Firewalled,    \* those that Sandbox::IsAllowed() refuses
  Texts,         \* what a document may hold
  InitialDisk,   \* what the files hold when the server starts
  Names,         \* the identifiers in them
  None,          \* no identifier, no type, no id, no request under way
  MaxMessages,   \* bounds: notifications and requests the client sends,
  MaxInbox,      \*   those of them on their way to the server,
  MaxEdits       \*   and edits of files on disk

ASSUME FilesAssumption ==
  /\ Firewalled \subseteq Files
  /\ InitialDisk \in [Files -> Texts]
  /\ None \notin Files \cup Names
  /\ None \notin Texts /\ None \notin Nat

VARIABLES
  disk, symbol_index, include_graph,  \* the files, and what the indexes read
  updating,            \* the file whose update has reached symbol_index only
  enable_rename,       \* mcp.enable_lsp_rename
  documents,           \* DocumentStore: the texts by open document
  shutdown_received,
  published,           \* diagnostics_published_nonempty
  running,             \* Run() has not returned
  work,                \* what the request under way has collected
  inbox, outbox,       \* the two streams
  buffers, shown,      \* the client's texts, and the documents it marks
  awaiting,            \* the client's requests without an answer
  sent                 \* how much of the bounds is used up

indexes == <<symbol_index, include_graph, updating>>
server == <<documents, shutdown_received, published, running, work>>
client == <<buffers, shown, awaiting>>
vars == <<disk, indexes, enable_rename, server, inbox, outbox, client, sent>>

-----------------------------------------------------------------------------
(* Texts. *)

\* IdentifierAt.
WordAt(text, at) ==
  IF at.line \in DOMAIN text /\ at.word \in DOMAIN text[at.line].words
  THEN text[at.line].words[at.word] ELSE None

\* FindAllWholeWords over the lines of a text.
Occurrences(text, name) ==
  {at \in [line: DOMAIN text, word: 1..3] : WordAt(text, at) = name}

\* FindWholeWord on one line: the first occurrence, 0 when there is none.
FirstOn(text, line, name) ==
  LET on == {at.word : at \in {o \in Occurrences(text, name) : o.line = line}}
  IN  IF on = {} THEN 0 ELSE CHOOSE w \in on : \A v \in on : w <= v

\* SymbolIndex::FindByName.
FindByName(name) ==
  {[file |-> p[1], line |-> p[2], name |-> name, type |-> symbol_index[p[1]][p[2]].type] :
     p \in {q \in Files \X (1..3) :
       q[2] \in DOMAIN symbol_index[q[1]] /\ symbol_index[q[1]][q[2]].decl = name}}

Allowed(symbols) == {s \in symbols : s.file \notin Firewalled}

\* The place of a symbol, read from the disk: word 0 when the index is stale
\* and the line does not have the name.
LocationFor(s) ==
  [file |-> s.file, line |-> s.line,
   word |-> FirstOn(disk[s.file], s.line, s.name)]

LocationsOf(symbols) == {LocationFor(s) : s \in symbols}

\* Whether ComputeDiagnostics finds anything: the parse error comes from the
\* buffer, the unresolved includes from the graph.
Diagnosed(uri, text) ==
  \/ \E l \in DOMAIN text : text[l].error
  \/ \E l \in DOMAIN include_graph[uri] : include_graph[uri][l].unresolved

-----------------------------------------------------------------------------
(* The streams. *)

Result(id, where) == [id |-> id, kind |-> "result", where |-> where]
Error(id)         == [id |-> id, kind |-> "error", where |-> {}]
Publish(uri, any) == [id |-> None, kind |-> "publish", uri |-> uri, any |-> any]

\* The head of the inbox is the message Run() is handling; the handler ends
\* by taking it out and writing what it writes.
Handling(method) ==
  running /\ inbox # <<>> /\ Head(inbox).method = method /\ work = None

Write(messages) == outbox' = outbox \o messages /\ inbox' = Tail(inbox)

Others == UNCHANGED <<disk, indexes, enable_rename, client, sent>>

Replace(f, uri, x) == [u \in DOMAIN f \cup {uri} |-> IF u = uri THEN x ELSE f[u]]
Without(f, uri)    == Restrict(f, DOMAIN f \ {uri})
WasNonempty(uri)   == uri \in DOMAIN published /\ published[uri]

-----------------------------------------------------------------------------
(* Notifications. *)

\* Mutant: what was published is never cleared by a change.
PublishFindingsOnly(uri, docs) ==
  IF uri \notin Firewalled /\ uri \in DOMAIN docs /\ Diagnosed(uri, docs[uri])
  THEN published' = Replace(published, uri, TRUE) /\ Write(<<Publish(uri, TRUE)>>)
  ELSE UNCHANGED published /\ Write(<<>>)

\* PublishDiagnosticsIfChanged after the documents have become docs: nothing
\* is sent while there was nothing and is nothing.
PublishDiagnosticsIfChanged(uri, docs) ==
  IF /\ uri \notin Firewalled
     /\ uri \in DOMAIN docs
     /\ Diagnosed(uri, docs[uri]) \/ WasNonempty(uri)
  THEN /\ published' = Replace(published, uri, Diagnosed(uri, docs[uri]))
       /\ Write(<<Publish(uri, Diagnosed(uri, docs[uri]))>>)
  ELSE UNCHANGED published /\ Write(<<>>)

HandleDidOpen ==
  /\ Handling("didOpen")
  /\ LET m == Head(inbox) IN
       /\ documents' = Replace(documents, m.uri, m.text)
       /\ PublishDiagnosticsIfChanged(m.uri, documents')
  /\ Others /\ UNCHANGED <<shutdown_received, running, work>>

\* Mutant: the first of the changes counts.
ChangeToFirst ==
  /\ Handling("didChange")
  /\ LET m == Head(inbox) IN
       /\ documents' = IF m.changes = <<>> THEN documents
                       ELSE Replace(documents, m.uri, Head(m.changes))
       /\ PublishDiagnosticsIfChanged(m.uri, documents')
  /\ Others /\ UNCHANGED <<shutdown_received, running, work>>

\* The change kind is Full: each change is a whole text, and the last counts.
HandleDidChange ==
  /\ Handling("didChange")
  /\ LET m == Head(inbox) IN
       /\ documents' = IF m.changes = <<>> THEN documents
                       ELSE Replace(documents, m.uri, Last(m.changes))
       /\ PublishDiagnosticsIfChanged(m.uri, documents')
  /\ Others /\ UNCHANGED <<shutdown_received, running, work>>

\* Mutant: the closed document is forgotten without a word to the client.
CloseSilently ==
  /\ Handling("didClose")
  /\ LET uri == Head(inbox).uri IN
       documents' = Without(documents, uri) /\ published' = Without(published, uri)
  /\ Write(<<>>)
  /\ Others /\ UNCHANGED <<shutdown_received, running, work>>

\* ClearDiagnosticsOnClose publishes the empty list if the last was not.
HandleDidClose ==
  /\ Handling("didClose")
  /\ LET uri == Head(inbox).uri IN
       /\ documents' = Without(documents, uri)
       /\ published' = Without(published, uri)
       /\ Write(IF WasNonempty(uri) THEN <<Publish(uri, FALSE)>> ELSE <<>>)
  /\ Others /\ UNCHANGED <<shutdown_received, running, work>>

\* exit; the end of the stream, bad framing, and a "method" that is no
\* string, whose exception nobody catches, end Run() the same way.
EndRun ==
  /\ Handling("exit")
  /\ running' = FALSE /\ Write(<<>>)
  /\ Others /\ UNCHANGED <<documents, shutdown_received, published, work>>

\* A body that is not JSON or not an object: an error without an id.  So is a
\* notification whose handler throws, which should have no answer at all.
AnswerNobody ==
  /\ Handling("malformed")
  /\ Write(<<Error(None)>>)
  /\ Others /\ UNCHANGED server

\* "initialized" and any notification Run() does not know.
IgnoreNotification ==
  /\ Handling("initialized") /\ Write(<<>>) /\ Others /\ UNCHANGED server

-----------------------------------------------------------------------------
(* Requests: after shutdown all are refused.  The document is the buffer.  *)

Request(method) ==
  /\ Handling(method) /\ ~shutdown_received
  /\ Others /\ UNCHANGED <<documents, shutdown_received, published, running>>

Answer(where) == Write(<<Result(Head(inbox).id, where)>>) /\ work' = None
Fail == Write(<<Error(Head(inbox).id)>>) /\ work' = None

\* The identifier under the cursor, if the document is open.
Word(m) ==
  IF m.uri \in DOMAIN documents THEN WordAt(documents[m.uri], m.at) ELSE None

RefuseAfterShutdown ==
  /\ running /\ inbox # <<>> /\ shutdown_received /\ Head(inbox).id # None
  /\ Fail /\ Others /\ UNCHANGED <<documents, shutdown_received, published, running>>

Initialize == Request("initialize") /\ Answer({})

Shutdown ==
  /\ Handling("shutdown") /\ ~shutdown_received
  /\ shutdown_received' = TRUE /\ Answer({})
  /\ Others /\ UNCHANGED <<documents, published, running>>

\* Any other method, and parameters of a type that makes a handler throw.
MethodNotFound == Request("unknown") /\ Fail

HandleDefinition ==
  /\ Request("definition")
  /\ Answer(LocationsOf(Allowed(FindByName(Word(Head(inbox))))))

\* The types of the symbols of this name are looked up one by one, whoever
\* declares them; the files of the symbols themselves are not asked about.
HandleTypeDefinition ==
  /\ Request("typeDefinition")
  /\ work' = [types |-> {s.type : s \in FindByName(Word(Head(inbox)))} \ {None},
              found |-> {}]
  /\ UNCHANGED <<inbox, outbox>>

Resuming(method) ==
  /\ running /\ work # None /\ Head(inbox).method = method
  /\ Others /\ UNCHANGED <<documents, shutdown_received, published, running>>

LocateType ==
  /\ Resuming("typeDefinition")
  /\ IF work.types = {} THEN Answer(work.found)
     ELSE /\ \E t \in work.types :
               work' = [types |-> work.types \ {t},
                        found |-> work.found \cup LocationsOf(Allowed(FindByName(t)))]
          /\ UNCHANGED <<inbox, outbox>>

HandleDocumentSymbol ==
  /\ Request("documentSymbol")
  /\ LET uri == Head(inbox).uri IN
       Answer(LocationsOf({s \in Allowed(UNION {FindByName(n) : n \in Names}) :
                             s.file = uri}))

\* SymbolSearch: here the query is a name.
HandleWorkspaceSymbol ==
  /\ Request("workspaceSymbol")
  /\ Answer(LocationsOf(Allowed(FindByName(Head(inbox).query))))

\* The declarations to leave out, if the client wants none: where the index
\* has them and the disk still shows the name.  Then every file is read.
HandleReferences ==
  /\ Request("references")
  /\ LET m == Head(inbox) IN
       IF Word(m) = None THEN Answer({})
       ELSE /\ work' = [word  |-> Word(m), left |-> Files \ Firewalled, found |-> {},
                        sites |-> IF m.include_declaration THEN {}
                                  ELSE LocationsOf(Allowed(FindByName(Word(m))))]
            /\ UNCHANGED <<inbox, outbox>>

ReadReferences ==
  /\ Resuming("references")
  /\ IF work.left = {} THEN Answer(work.found)
     ELSE /\ \E f \in work.left :
               LET here == {[file |-> f, line |-> o.line, word |-> o.word] :
                              o \in Occurrences(disk[f], work.word)}
               IN  work' = [word  |-> work.word, left |-> work.left \ {f}, sites |-> work.sites,
                           found |-> work.found \cup (here \ work.sites)]
          /\ UNCHANGED <<inbox, outbox>>

\* ResolveRenameTarget: the word, if the document is open, in the project
\* and allowed, and the index knows the name.
RenameTarget(m) ==
  IF m.uri \notin Firewalled /\ FindByName(Word(m)) # {} THEN Word(m) ELSE None

HandlePrepareRename ==
  /\ Request("prepareRename")
  /\ LET m == Head(inbox) IN
       IF ~enable_rename THEN Fail
       ELSE Answer(IF RenameTarget(m) = None THEN {}
                   ELSE {[file |-> m.uri, line |-> m.at.line, word |-> m.at.word]})

\* Mutant: the occurrences are looked for on disk.
RenameOnDisk ==
  /\ Request("rename")
  /\ LET m == Head(inbox) IN
       IF ~enable_rename \/ ~m.valid_name THEN Fail
       ELSE Answer(IF RenameTarget(m) = None THEN {}
                   ELSE {[file |-> m.uri, line |-> o.line, word |-> o.word] :
                           o \in Occurrences(disk[m.uri], RenameTarget(m))})

\* Edits for each occurrence in the buffer of this one document.
HandleRename ==
  /\ Request("rename")
  /\ LET m == Head(inbox) IN
       IF ~enable_rename \/ ~m.valid_name THEN Fail
       ELSE Answer(IF RenameTarget(m) = None THEN {}
                   ELSE {[file |-> m.uri, line |-> o.line, word |-> o.word] :
                           o \in Occurrences(documents[m.uri], RenameTarget(m))})

-----------------------------------------------------------------------------
(* The FileChanged handler of RunLspMode: one index after the other.       *)

UpdateSymbolIndex ==
  /\ updating = None
  /\ \E f \in Files :
       /\ disk[f] # symbol_index[f] \/ disk[f] # include_graph[f]
       /\ symbol_index' = [symbol_index EXCEPT ![f] = disk[f]]
       /\ updating' = f
  /\ UNCHANGED <<disk, include_graph, enable_rename, server, inbox, outbox, client, sent>>

UpdateIncludeGraph ==
  /\ updating # None
  /\ include_graph' = [include_graph EXCEPT ![updating] = disk[updating]]
  /\ updating' = None
  /\ UNCHANGED <<disk, symbol_index, enable_rename, server, inbox, outbox, client, sent>>

Edit ==
  /\ sent.edits < MaxEdits
  /\ \E f \in Files, t \in Texts : t # disk[f] /\ disk' = [disk EXCEPT ![f] = t]
  /\ sent' = [sent EXCEPT !.edits = @ + 1]
  /\ UNCHANGED <<indexes, enable_rename, server, inbox, outbox, client>>

-----------------------------------------------------------------------------
(* The client: an editor that sends what its user does, and reads what the *)
(* server writes.                                                          *)

Send(m) == inbox' = Append(inbox, m)

MaySend ==
  /\ sent.messages < MaxMessages /\ Len(inbox) < MaxInbox
  /\ sent' = [sent EXCEPT !.messages = @ + 1]

Notify(m) ==
  /\ MaySend
  /\ Send(m)
  /\ UNCHANGED <<disk, indexes, enable_rename, server, outbox, shown, awaiting>>

Open == \E u \in Files \ DOMAIN buffers, t \in Texts :
  /\ buffers' = Replace(buffers, u, t)
  /\ Notify([id |-> None, method |-> "didOpen", uri |-> u, text |-> t])

Change == \E u \in DOMAIN buffers, ts \in Texts \X Texts :
  /\ buffers' = Replace(buffers, u, ts[2])
  /\ Notify([id |-> None, method |-> "didChange", uri |-> u, changes |-> ts])

ChangeNothing == \E u \in Files :
  /\ UNCHANGED buffers
  /\ Notify([id |-> None, method |-> "didChange", uri |-> u, changes |-> <<>>])

Close == \E u \in DOMAIN buffers :
  /\ buffers' = Without(buffers, u)
  /\ Notify([id |-> None, method |-> "didClose", uri |-> u])

Odd == \E kind \in {"exit", "malformed", "initialized"} :
  /\ UNCHANGED buffers /\ Notify([id |-> None, method |-> kind])

\* The client remembers what it asked and the text it had then.
Ask(m, text) ==
  /\ MaySend
  /\ Send(m)
  /\ awaiting' = Append(awaiting, [request |-> m, text |-> text])
  /\ UNCHANGED <<disk, indexes, enable_rename, server, outbox, buffers, shown>>

Id == sent.messages + 1

\* Positions on an identifier of the text, and one beside them.
Positions(text) ==
  (UNION {Occurrences(text, n) : n \in Names}) \cup {[line |-> 1, word |-> 0]}

AskAt == \E u \in DOMAIN buffers : \E at \in Positions(buffers[u]) :
  \/ \E method \in {"definition", "typeDefinition", "prepareRename"} :
       Ask([id |-> Id, method |-> method, uri |-> u, at |-> at], buffers[u])
  \/ \E b \in BOOLEAN :
       \/ Ask([id |-> Id, method |-> "references", uri |-> u, at |-> at,
               include_declaration |-> b], buffers[u])
       \/ Ask([id |-> Id, method |-> "rename", uri |-> u, at |-> at,
               valid_name |-> b], buffers[u])

AskOther ==
  \/ \E method \in {"initialize", "shutdown", "unknown"} :
       Ask([id |-> Id, method |-> method], None)
  \/ \E u \in Files : Ask([id |-> Id, method |-> "documentSymbol", uri |-> u], None)
  \/ \E n \in Names : Ask([id |-> Id, method |-> "workspaceSymbol", query |-> n], None)

Receive ==
  /\ outbox # <<>>
  /\ LET m == Head(outbox) IN
       /\ shown' = IF m.kind # "publish" THEN shown
                   ELSE IF m.any THEN shown \cup {m.uri} ELSE shown \ {m.uri}
       /\ awaiting' = IF m.kind = "publish" \/ m.id = None THEN awaiting ELSE Tail(awaiting)
  /\ outbox' = Tail(outbox)
  /\ UNCHANGED <<disk, indexes, enable_rename, server, inbox, buffers, sent>>

-----------------------------------------------------------------------------

Init ==
  /\ disk = InitialDisk
  /\ symbol_index = disk /\ include_graph = disk /\ updating = None
  /\ enable_rename \in BOOLEAN
  /\ documents = <<>> /\ shutdown_received = FALSE /\ published = <<>>
  /\ running = TRUE /\ work = None
  /\ inbox = <<>> /\ outbox = <<>>
  /\ buffers = <<>> /\ shown = {} /\ awaiting = <<>>
  /\ sent = [messages |-> 0, edits |-> 0]

Serve ==
  \/ HandleDidOpen \/ HandleDidChange \/ HandleDidClose
  \/ EndRun \/ AnswerNobody \/ IgnoreNotification
  \/ RefuseAfterShutdown \/ Initialize \/ Shutdown \/ MethodNotFound
  \/ HandleDefinition \/ HandleTypeDefinition \/ LocateType
  \/ HandleDocumentSymbol \/ HandleWorkspaceSymbol
  \/ HandleReferences \/ ReadReferences
  \/ HandlePrepareRename \/ HandleRename

Next ==
  \/ Serve \/ UpdateSymbolIndex \/ UpdateIncludeGraph \/ Edit
  \/ Open \/ Change \/ ChangeNothing \/ Close \/ Odd \/ AskAt \/ AskOther
  \/ Receive

Spec == Init /\ [][Next]_vars

-----------------------------------------------------------------------------
(* Properties. *)

\* Every variable has its type: texts are texts, and streams hold messages.
TypeOK ==
  /\ {disk, symbol_index, include_graph} \subseteq [Files -> Texts]
  /\ updating \in Files \cup {None}
  /\ \A f \in {documents, buffers} :
       DOMAIN f \subseteq Files /\ \A u \in DOMAIN f : f[u] \in Texts
  /\ DOMAIN published \subseteq Files /\ \A u \in DOMAIN published : published[u] \in BOOLEAN
  /\ shutdown_received \in BOOLEAN /\ running \in BOOLEAN /\ enable_rename \in BOOLEAN
  /\ shown \subseteq Files
  /\ \A m \in Range(outbox) : m.kind \in {"result", "error", "publish"}

\* A notification that decides the text of a document, and the text it leaves.
Settles(m, u) ==
  /\ m.method \in {"didOpen", "didChange", "didClose"} /\ m.uri = u
  /\ m.method = "didChange" => m.changes # <<>>

Left(m) ==
  CASE m.method = "didOpen"   -> m.text
    [] m.method = "didChange" -> Last(m.changes)
    [] m.method = "didClose"  -> None

TextIn(docs, u) == IF u \in DOMAIN docs THEN docs[u] ELSE None

\* The text of u once the server has read n of the messages on their way, None
\* when u is not open then: what the last of them to decide it leaves.
Becomes(n, u, text) ==
  \/ /\ \A i \in 1..n : ~Settles(inbox[i], u)
     /\ text = TextIn(documents, u)
  \/ \E i \in 1..n :
       /\ Settles(inbox[i], u) /\ text = Left(inbox[i])
       /\ \A j \in (i + 1)..n : ~Settles(inbox[j], u)

\* Once it has read what is on its way, the server has exactly the texts the
\* client has, for exactly the documents the client has open.
DocumentsFollowClient ==
  running => \A u \in Files : Becomes(Len(inbox), u, TextIn(buffers, u))

Asked(m) == CHOOSE q \in Range(awaiting) : q.request.id = m.id
Results(method) ==
  {m \in Range(outbox) : m.kind = "result" /\ Asked(m).request.method = method}

\* The edits of a rename replace every occurrence of the identifier that was
\* under the client's cursor, in the text it had when it asked, and nothing
\* else: also when it has typed on since, or sent changes just before.
RenameIsWhole ==
  \A m \in Results("rename") : m.where # {} =>
    LET q == Asked(m) IN
      m.where = {[file |-> q.request.uri, line |-> o.line, word |-> o.word] :
                   o \in Occurrences(q.text, WordAt(q.text, q.request.at))}

\* No answer to a request, and no diagnostic, names a firewalled file.
FirewallHolds ==
  \A m \in Range(outbox) :
    IF m.kind = "publish" THEN m.uri \notin Firewalled
    ELSE \A w \in m.where : w.file \notin Firewalled

\* What the client marks once it has read what is on its way to it.
Concerns(m, u) == m.kind = "publish" /\ m.uri = u

Marked(u) ==
  \/ u \in shown /\ \A i \in DOMAIN outbox : ~Concerns(outbox[i], u)
  \/ \E i \in DOMAIN outbox :
       /\ Concerns(outbox[i], u) /\ outbox[i].any
       /\ \A j \in (i + 1)..Len(outbox) : ~Concerns(outbox[j], u)

\* The one bit the server remembers for a document is what the client sees,
\* and a document that is not open is not marked.
ShownIsPublished ==
  \A u \in Files : /\ Marked(u) <=> WasNonempty(u)
                   /\ Marked(u) => u \in DOMAIN documents

\* What the client sees is what the server takes it to see, and nothing of a
\* firewalled file.
ShownIsAllowed == TypeOK /\ ShownIsPublished /\ FirewallHolds

UpToDate ==
  \A u \in DOMAIN documents \ Firewalled :
    WasNonempty(u) <=> Diagnosed(u, documents[u])

\* Only an update of the include graph leaves what is published out of date:
\* every change of a buffer publishes what it changes.
OnlyTheGraphAges == [][UpToDate /\ include_graph' = include_graph => UpToDate']_vars

=============================================================================
