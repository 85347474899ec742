-------------------------- MODULE ContextFreshness --------------------------
(***************************************************************************)
(* The two caches behind the MCP tool context_retrieve, over the watcher   *)
(* of module FileWatching: ContextCache keeps the answer to an intent      *)
(* under the generation in which it was asked, and ContextRetriever keeps  *)
(* one scan of the project.  The "FileChanged" handler, on the watcher's   *)
(* thread, updates the indexes, then starts a new generation, then drops   *)
(* the scan; McpServer, on the main thread, answers one request at a time. *)
(* One intent stands for all: a cached answer is independent of any other. *)
(***************************************************************************)
EXTENDS FileWatching

CONSTANT Nothing   \* no cached answer, no cached scan

VARIABLES
  generation,       \* ContextCache::generation_
  cached,           \* the entry for the intent in ContextCache::cache_
  snapshot,         \* ContextRetriever::scan_snapshot_
  scanGeneration,   \* ContextRetriever::scan_generation_
  cacheInvalidated, \* the handler is past InvalidateAll()
  server            \* where the server is in its request

cacheVars == <<generation, cached, snapshot, scanGeneration, cacheInvalidated, server>>
freshnessVars == <<fileVars, cacheVars>>

-----------------------------------------------------------------------------
InitFreshness ==
  /\ InitFiles
  /\ generation = 0
  /\ cached = Nothing
  /\ snapshot = Nothing
  /\ scanGeneration = 0
  /\ cacheInvalidated = FALSE
  /\ server = [at |-> "idle"]

-----------------------------------------------------------------------------
(* The handler, after the indexes.                                         *)

\* Every answer on record is outdated from here on.
InvalidateAll ==
  /\ watcher.at = "updated" /\ ~cacheInvalidated
  /\ generation' = generation + 1
  /\ cacheInvalidated' = TRUE
  /\ UNCHANGED <<fileVars, cached, snapshot, scanGeneration, server>>

\* Mutant: only scans that are under way are outdated.
InvalidateScanUnderWay ==
  /\ cacheInvalidated
  /\ scanGeneration' = scanGeneration + 1
  /\ cacheInvalidated' = FALSE
  /\ EventHandled
  /\ UNCHANGED <<generation, cached, snapshot, server>>

\* The scan is dropped, and with that the handler returns.
InvalidateScan ==
  /\ cacheInvalidated
  /\ snapshot' = Nothing
  /\ scanGeneration' = scanGeneration + 1
  /\ cacheInvalidated' = FALSE
  /\ EventHandled
  /\ UNCHANGED <<generation, cached, server>>

-----------------------------------------------------------------------------
(* GetOrRetrieve.                                                          *)

\* The answer on record, if there is one of this generation.
Hit == cached # Nothing /\ cached.generation = generation

\* Otherwise a stale entry is evicted and Retrieve() begins; the generation
\* is remembered for the new entry.
Miss ==
  /\ server.at = "idle" /\ watcher.at # "stopped"
  /\ ~Hit
  /\ cached' = Nothing
  /\ server' = [at |-> "retrieve", generation |-> generation]
  /\ UNCHANGED <<fileVars, generation, snapshot, scanGeneration, cacheInvalidated>>

\* ScanProject() returns the scan it kept ...
ScanKept ==
  /\ server.at = "retrieve" /\ snapshot # Nothing
  /\ server' = [at |-> "search", generation |-> server.generation, scan |-> snapshot]
  /\ UNCHANGED <<fileVars, generation, cached, snapshot, scanGeneration, cacheInvalidated>>

\* ... or reads the project from disk ...
ScanBegins ==
  /\ server.at = "retrieve" /\ snapshot = Nothing
  /\ server' = [at |-> "scan", generation |-> server.generation,
                scanGeneration |-> scanGeneration, seen |-> disk]
  /\ UNCHANGED <<fileVars, generation, cached, snapshot, scanGeneration, cacheInvalidated>>

\* Mutant: every scan is kept.
ScanEndsUnchecked ==
  /\ server.at = "scan"
  /\ \E scan \in ScanResults(server.seen) :
       /\ snapshot' = scan
       /\ server' = [at |-> "search", generation |-> server.generation, scan |-> scan]
  /\ UNCHANGED <<fileVars, generation, cached, scanGeneration, cacheInvalidated>>

\* ... and keeps the scan, unless it was invalidated meanwhile.
ScanEnds ==
  /\ server.at = "scan"
  /\ \E scan \in ScanResults(server.seen) :
       /\ snapshot' = IF scanGeneration = server.scanGeneration THEN scan ELSE snapshot
       /\ server' = [at |-> "search", generation |-> server.generation, scan |-> scan]
  /\ UNCHANGED <<fileVars, generation, cached, scanGeneration, cacheInvalidated>>

\* The retrieval from the symbol index, and the others after it.
SearchIndexes ==
  /\ server.at = "search"
  /\ server' = [at |-> "put", generation |-> server.generation, scan |-> server.scan, symbols |-> index]
  /\ UNCHANGED <<fileVars, generation, cached, snapshot, scanGeneration, cacheInvalidated>>

Put ==
  /\ server.at = "put"
  /\ cached' = [generation |-> server.generation, scan |-> server.scan, symbols |-> server.symbols]
  /\ server' = [at |-> "idle"]
  /\ UNCHANGED <<fileVars, generation, snapshot, scanGeneration, cacheInvalidated>>

-----------------------------------------------------------------------------
ThreadProceeds ==
  \/ WatcherProceeds /\ UNCHANGED cacheVars
  \/ InvalidateAll \/ InvalidateScan

ServerProceeds == ScanKept \/ ScanBegins \/ ScanEnds \/ SearchIndexes \/ Put

NextFreshness ==
  \/ SomebodyEdits /\ UNCHANGED cacheVars
  \/ ThreadProceeds
  \/ Miss \/ ServerProceeds
  \/ Stop /\ server.at = "idle" /\ UNCHANGED cacheVars

SpecFreshness == InitFreshness /\ [][NextFreshness]_freshnessVars

\* The threads are scheduled; nobody has to edit, ask or stop.
FairSpecFreshness == SpecFreshness /\ WF_freshnessVars(ThreadProceeds) /\ WF_freshnessVars(ServerProceeds)

-----------------------------------------------------------------------------
Scans == [Files -> State]

FreshnessTypeOK ==
  /\ FilesTypeOK
  /\ generation \in Nat /\ scanGeneration \in Nat
  /\ cached \in {Nothing} \cup [generation : 0..generation, scan : Scans, symbols : Scans]
  /\ snapshot \in {Nothing} \cup Scans
  /\ cacheInvalidated \in BOOLEAN
  /\ cacheInvalidated => watcher.at = "updated"
  /\ server \in [at : {"idle"}] \cup [at : {"retrieve"}, generation : 0..generation]
       \cup [at : {"scan"}, generation : 0..generation,
             scanGeneration : 0..scanGeneration, seen : Scans]
       \cup [at : {"search"}, generation : 0..generation, scan : Scans]
       \cup [at : {"put"}, generation : 0..generation, scan : Scans, symbols : Scans]

\* While the watcher sleeps, the scan that is kept is what is on disk: one
\* taken before a change was announced has been dropped, and one that was
\* under way then has not been kept.
SnapshotCurrent == Quiet /\ snapshot # Nothing => \A f \in Files \ missed : snapshot[f] = disk[f]

\* What a cached answer took from the indexes is current while the watcher
\* sleeps, and so is that of an answer about to be cached.
CachedSymbolsCurrent ==
  Quiet =>
    /\ Hit => \A f \in Files \ missed : cached.symbols[f] = disk[f]
    /\ server.at = "put" /\ server.generation = generation
         => \A f \in Files \ missed : server.symbols[f] = disk[f]

\* What is kept for later requests is current while the watcher sleeps.
KeptIsCurrent == FreshnessTypeOK /\ SnapshotCurrent /\ CachedSymbolsCurrent

\* A cached answer was made from a scan that is what is on disk.
CachedScanCurrent == Quiet /\ Hit => \A f \in Files \ missed : cached.scan[f] = disk[f]

\* Once nobody edits any more the indexes and the scan come to reflect the
\* disk, with notifications and with the timer.
Fresh ==
  \A f \in Files \ missed :
    index[f] = disk[f] /\ (snapshot # Nothing => snapshot[f] = disk[f])
EventuallyFresh == <>[](Fresh \/ watcher.at = "stopped")

=============================================================================
