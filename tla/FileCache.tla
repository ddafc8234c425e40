------------------------------ MODULE FileCache ------------------------------
(***************************************************************************)
(* What the server tells of the files of a watched repository              *)
(* (services/file-watcher.service.ts) and the cache of their contents,     *)
(* from which the content of a removed file is told                        *)
(* (services/file-cache.service.ts).                                       *)
(*                                                                         *)
(* A file that is added or changed is cached first, by two awaits (stat    *)
(* and readFile), and told then; a removal is told at once.  Calls for the *)
(* same file overlap.  A content is the number of its version.             *)
(***************************************************************************)
EXTENDS Integers, Sequences, SequencesExt

CONSTANTS
  CachedFile,
  CacheCall,     \* calls of cacheFile that can be under way at a time
  Sizes,         \* sizes a version can have
  MaxFileSize,   \* 10 MB in the code
  MaxCacheSize,  \* 100 MB in the code
  MaxVersions    \* bound on the versions of a file, removals included

ASSUME FileCacheAssumption ==
  /\ Sizes \subseteq Nat \ {0}
  /\ {MaxFileSize, MaxCacheSize, MaxVersions} \subseteq Nat
  /\ MaxFileSize <= MaxCacheSize

VARIABLES
  disk,          \* of every file: its version and size; size 0 is absent
  seen,          \* the version the watcher reported last
  present,       \* it reported the file as being there
  call,          \* [pc, file, size, kind] of every call of cacheFile
  cache,         \* the entries [file, content, size] in the order of cachedAt
  currentCacheSize,
  told,          \* the last event clients got of a file
  crossed,       \* files with an event while an earlier one was being handled
  evictedTwice   \* an eviction met the entry that was being replaced

cacheVars == <<disk, seen, present, call, cache, currentCacheSize, told, crossed, evictedTwice>>

NoCall == [pc |-> "idle"]
Calls(f) == {c \in CacheCall : call[c].pc # "idle" /\ call[c].file = f}
Exists(f) == disk[f].size # 0

CacheInit ==
  /\ disk = [f \in CachedFile |-> [version |-> 0, size |-> 0]]
  /\ seen = [f \in CachedFile |-> 0] /\ present = [f \in CachedFile |-> FALSE]
  /\ call = [c \in CacheCall |-> NoCall]
  /\ cache = <<>> /\ currentCacheSize = 0
  /\ told = [f \in CachedFile |-> "nothing"]
  /\ crossed = {} /\ evictedTwice = FALSE

\* Somebody writes or removes a file.
DiskChanges(f) ==
  /\ disk[f].version < MaxVersions
  /\ \E s \in Sizes \cup {0} :
       /\ s # 0 \/ Exists(f)
       /\ disk' = [disk EXCEPT ![f] = [version |-> @.version + 1, size |-> s]]
  /\ UNCHANGED <<seen, present, call, cache, currentCacheSize, told, crossed, evictedTwice>>

\* Fault: a new entry does not replace the old one.
WithoutNothing(entries, f) == entries

Entries(f) == {e \in ToSet(cache) : e.file = f}
Place(entries, f) == SelectInSeq(entries, LAMBDA e : e.file = f)
Without(entries, f) ==
  IF Place(entries, f) = 0 THEN entries ELSE RemoveAt(entries, Place(entries, f))
CachedSize(f) == IF Place(cache, f) = 0 THEN 0 ELSE cache[Place(cache, f)].size
SizeOf(entries) ==
  LET total[n \in 0 .. Len(entries)] == IF n = 0 THEN 0 ELSE total[n - 1] + entries[n].size
  IN  total[Len(entries)]

\* The watcher notices that a file is there, and its handler calls cacheFile.
Notices(f, c) ==
  /\ seen[f] # disk[f].version /\ Exists(f)
  /\ call[c].pc = "idle"
  /\ seen' = [seen EXCEPT ![f] = disk[f].version]
  /\ present' = [present EXCEPT ![f] = TRUE]
  /\ call' = [call EXCEPT ![c] = [pc |-> "stat", file |-> f, size |-> 0,
                                  kind |-> IF present[f] THEN "changed" ELSE "added"]]
  /\ crossed' = IF Calls(f) # {} THEN crossed \cup {f} ELSE crossed
  /\ UNCHANGED <<disk, cache, currentCacheSize, told, evictedTwice>>

\* Fault: the size of what is removed is not given back.
RemovedUncounted(f) == [cache |-> Without(cache, f), size |-> currentCacheSize]

\* Fault: the entry is kept for another deletion.
RemovedNothing(f) == [cache |-> cache, size |-> currentCacheSize]

\* removeFile.
Removed(f) == [cache |-> Without(cache, f), size |-> currentCacheSize - CachedSize(f)]

\* The watcher notices that a file is gone: it is told with what the cache has and
\* leaves the cache, all in one turn.
NoticesRemoval(f) ==
  /\ seen[f] # disk[f].version /\ ~ Exists(f)
  /\ seen' = [seen EXCEPT ![f] = disk[f].version]
  /\ present' = [present EXCEPT ![f] = FALSE]
  /\ IF present[f]
     THEN /\ told' = [told EXCEPT ![f] = "removed"]
          /\ cache' = Removed(f).cache /\ currentCacheSize' = Removed(f).size
          /\ crossed' = IF Calls(f) # {} THEN crossed \cup {f} ELSE crossed
     ELSE UNCHANGED <<told, cache, currentCacheSize, crossed>>
  /\ UNCHANGED <<disk, call, evictedTwice>>

\* Fault: nothing is told of a file that was not read.
TellsRead(c) ==
  /\ told' = IF call[c].pc = "read" THEN [told EXCEPT ![call[c].file] = call[c].kind] ELSE told
  /\ call' = [call EXCEPT ![c] = NoCall]

\* The handler goes on when cacheFile is over, however it ended.
Tells(c) ==
  /\ told' = [told EXCEPT ![call[c].file] = call[c].kind]
  /\ call' = [call EXCEPT ![c] = NoCall]

TooLarge(size) == size > MaxFileSize

\* stat: the file may be gone or too large.
StatDone(c) ==
  /\ call[c].pc = "stat"
  /\ LET size == disk[call[c].file].size
     IN IF size = 0 \/ TooLarge(size)
        THEN Tells(c)
        ELSE /\ call' = [call EXCEPT ![c].pc = "read", ![c].size = size]
             /\ UNCHANGED told
  /\ UNCHANGED <<disk, seen, present, cache, currentCacheSize, crossed, evictedTwice>>

\* evictOldestEntries: as many of the oldest as it takes to free the space.
Evicted(required) ==
  LET n == CHOOSE n \in 0 .. Len(cache) :
             /\ n = Len(cache) \/ SizeOf(SubSeq(cache, 1, n)) >= required
             /\ \A m \in 0 .. n - 1 : SizeOf(SubSeq(cache, 1, m)) < required
  IN SubSeq(cache, 1, n)

\* readFile and the rest of cacheFile: the entry that is replaced gives its size
\* back, and once more if it is evicted.
ReadDone(c) ==
  /\ call[c].pc = "read"
  /\ Tells(c)
  /\ LET f    == call[c].file
         size == call[c].size
         base == currentCacheSize - CachedSize(f)
         gone == IF base + size > MaxCacheSize THEN Evicted(size) ELSE <<>>
         rest == SubSeq(cache, Len(gone) + 1, Len(cache))
     IN IF ~ Exists(f)
        THEN UNCHANGED <<cache, currentCacheSize, evictedTwice>>
        ELSE /\ cache' = Append(Without(rest, f),
                                [file |-> f, content |-> disk[f].version, size |-> size])
             /\ currentCacheSize' = base - SizeOf(gone) + size
             /\ evictedTwice' = (evictedTwice \/ \E e \in ToSet(gone) : e.file = f)
  /\ UNCHANGED <<disk, seen, present, crossed>>

CacheNext ==
  \/ \E f \in CachedFile : DiskChanges(f) \/ NoticesRemoval(f) \/ \E c \in CacheCall : Notices(f, c)
  \/ \E c \in CacheCall : StatDone(c) \/ ReadDone(c)

CacheSpec == CacheInit /\ [][CacheNext]_cacheVars

-----------------------------------------------------------------------------
\* The shapes of the state; a file has one entry at most.
CacheTypeOK ==
  /\ disk \in [CachedFile -> [version : 0 .. MaxVersions, size : Sizes \cup {0}]]
  /\ seen \in [CachedFile -> 0 .. MaxVersions] /\ present \in [CachedFile -> BOOLEAN]
  /\ \A c \in CacheCall : call[c] = NoCall \/
       call[c] \in [pc : {"stat", "read"}, file : CachedFile, size : Sizes \cup {0},
                    kind : {"added", "changed"}]
  /\ cache \in Seq([file : CachedFile, content : 1 .. MaxVersions, size : Sizes])
  /\ \A i, j \in DOMAIN cache : cache[i].file = cache[j].file => i = j
  /\ currentCacheSize \in Int
  /\ told \in [CachedFile -> {"nothing", "added", "changed", "removed"}]
  /\ crossed \subseteq CachedFile /\ evictedTwice \in BOOLEAN

Settled(f) == seen[f] = disk[f].version /\ Calls(f) = {}

\* When the watcher and the handlers are done with a file, the cache has its present
\* content or none, and none of a file that is gone, unless an event came while an
\* earlier one of the file was being handled; of a file that has become too large it
\* keeps an older content.
CacheIsCurrent ==
  \A f \in CachedFile : Settled(f) /\ f \notin crossed =>
    \A e \in Entries(f) : Exists(f) /\ (e.content = disk[f].version \/ TooLarge(disk[f].size))

\* ... and with the same exception clients were told last that it is gone if and
\* only if it is, provided they were told anything.
LastEventTrue ==
  \A f \in CachedFile : Settled(f) /\ f \notin crossed /\ told[f] # "nothing" =>
    (told[f] = "removed" <=> ~ Exists(f))

\* The count never exceeds what is cached, so that nothing is evicted without need,
\* and is right and within the limit until an entry is evicted while it is replaced.
CountedUnlessEvictedTwice ==
  /\ currentCacheSize <= SizeOf(cache)
  /\ ~ evictedTwice => currentCacheSize = SizeOf(cache) /\ SizeOf(cache) <= MaxCacheSize

\* What the cache has and what clients were told is true, and the count as well.
CacheSound == CacheIsCurrent /\ LastEventTrue /\ CountedUnlessEvictedTwice
=============================================================================
