------------------------------- MODULE Explorer -------------------------------
(***************************************************************************)
(* The repository explorer: pages that show the tree of a repository and   *)
(* one of its files (frontend components/repository-explorer/ and their    *)
(* stores), and the server that watches the repository for all of them     *)
(* (services/file-watcher.service.ts, server/routes/repository-explorer.ts).*)
(*                                                                         *)
(* Requests of a page overtake each other, and so do events: of a file     *)
(* that is there the content is cached first.  The watcher is one for all  *)
(* pages and tasks: nobody counts who needs it.  It looks at the files one *)
(* by one before it can tell of them, and it ignores some that the tree    *)
(* shows.  A content is the number of its version.                         *)
(***************************************************************************)
EXTENDS Naturals, Sequences, SequencesExt

CONSTANTS
  Page, ExFile, NoFile,
  IgnoredFile,  \* the files no watcher looks at: .git/, node_modules/, data/, ..., and deep ones
  MaxEdits,     \* bound on changes of files
  MaxClicks     \* bound on what users do

ASSUME ExplorerAssumption ==
  /\ NoFile \notin ExFile /\ IgnoredFile \subseteq ExFile
  /\ {MaxEdits, MaxClicks} \subseteq Nat

VARIABLES
  file, edits,      \* [version, there] of every file; how many changes there were
  watch,            \* the entry of repositoryWatchers: "no", "open" or "closing"
  unscanned,        \* what its watcher has yet to look at for the first time
  reported,         \* what a watcher reported or found last
  asked,            \* of every page: requests to watch or not that are under way
  events,           \* of every page: events under way
  mounted, expanded, tree,
  loads,            \* loadTree calls that await the tree, in the order they were made
  deleted,          \* the store of deleted files, which outlives the explorer
  viewer, content, hasFileChanged, isDeletedFile,
  fileLoads,        \* loadFileContent calls of this viewer, likewise
  gap,              \* of every tree and viewer: the changes made when one last passed it by
  overtaken,        \* views that were filled by an older answer after a newer one
  clicks

explorerVars == <<file, edits, watch, unscanned, reported, asked, events, mounted, expanded, tree,
                  loads, deleted, viewer, content, hasFileChanged, isDeletedFile, fileLoads, gap,
                  overtaken, clicks>>
serverVars == <<file, edits, watch, unscanned, reported>>
viewerVars == <<viewer, content, hasFileChanged, isDeletedFile, fileLoads>>

Views == {"tree", "viewer"}
NoTree == [live |-> {}, ghosts |-> {}, asOf |-> 0, loaded |-> FALSE]
NoContent == [found |-> <<>>, asOf |-> 0]
WatchedFile == ExFile \ IgnoredFile
Present == {f \in ExFile : file[f].there}

ExplorerInit ==
  /\ file \in [ExFile -> {[version |-> 0, there |-> b] : b \in BOOLEAN}] /\ edits = 0
  /\ watch = "no" /\ unscanned = {} /\ reported = file
  /\ asked = [p \in Page |-> [watch |-> 0, unwatch |-> 0]]
  /\ events = [p \in Page |-> <<>>]
  /\ mounted = [p \in Page |-> FALSE] /\ expanded = [p \in Page |-> FALSE]
  /\ tree = [p \in Page |-> NoTree] /\ loads = [p \in Page |-> <<>>]
  /\ deleted = [p \in Page |-> {}]
  /\ viewer = [p \in Page |-> NoFile] /\ content = [p \in Page |-> NoContent]
  /\ hasFileChanged = [p \in Page |-> FALSE] /\ isDeletedFile = [p \in Page |-> FALSE]
  /\ fileLoads = [p \in Page |-> <<>>]
  /\ gap = [p \in Page |-> [v \in Views |-> 0]]
  /\ overtaken = [p \in Page |-> {}]
  /\ clicks = 0

-----------------------------------------------------------------------------
(* The server. *)

Edit(f) ==
  /\ edits < MaxEdits /\ edits' = edits + 1
  /\ \E b \in BOOLEAN :
       /\ b \/ file[f].there
       /\ file' = [file EXCEPT ![f] = [version |-> edits + 1, there |-> b]]
  /\ UNCHANGED <<watch, unscanned, reported, asked, events, mounted, expanded, tree, loads, deleted,
                 viewerVars, gap, overtaken, clicks>>

\* Fault: the name the watcher has for a removal is passed on.
EventTypeRaw(f) == IF ~ file[f].there THEN "unlink" ELSE "changed"

EventType(f) ==
  CASE ~ file[f].there -> "removed"
    [] file[f].there /\ ~ reported[f].there -> "added"
    [] OTHER -> "changed"

\* What the watcher notices: changes of files it has looked at before.
Noticeable(f) ==
  /\ watch = "open" /\ f \in WatchedFile \ unscanned
  /\ reported[f] # file[f]

\* The watcher reports a change to all pages, ...
Report(f) ==
  /\ Noticeable(f)
  /\ reported[f].there \/ file[f].there
  /\ reported' = [reported EXCEPT ![f] = file[f]]
  /\ events' = [p \in Page |-> Append(events[p], [type |-> EventType(f), file |-> f])]
  /\ UNCHANGED <<file, edits, watch, unscanned, asked, mounted, expanded, tree, loads, deleted,
                 viewerVars, gap, overtaken, clicks>>

\* All that all pages show passes over what has changed so far.
AllPassOver == gap' = [p \in Page |-> [v \in Views |-> edits]]

\* ... but nothing of a file that came and went between two looks.
Unnoticed(f) ==
  /\ Noticeable(f)
  /\ ~ reported[f].there /\ ~ file[f].there
  /\ reported' = [reported EXCEPT ![f] = file[f]]
  /\ AllPassOver
  /\ UNCHANGED <<file, edits, watch, unscanned, asked, events, mounted, expanded, tree, loads,
                 deleted, viewerVars, overtaken, clicks>>

\* The first look at a file: nothing is said of what it finds (ignoreInitial).
Scan(f) ==
  /\ watch = "open" /\ f \in unscanned
  /\ unscanned' = unscanned \ {f}
  /\ reported' = [reported EXCEPT ![f] = file[f]]
  /\ IF reported[f] = file[f] THEN UNCHANGED gap ELSE AllPassOver
  /\ UNCHANGED <<file, edits, watch, asked, events, mounted, expanded, tree, loads, deleted,
                 viewerVars, overtaken, clicks>>

\* watchRepository: an entry that is being closed counts as watched.
Watch ==
  /\ watch' = IF watch = "no" THEN "open" ELSE watch
  /\ unscanned' = IF watch = "no" THEN WatchedFile ELSE unscanned

\* unwatchRepository, whoever else needs the watcher.
Unwatch ==
  /\ watch' = IF watch = "open" THEN "closing" ELSE watch
  /\ unscanned' = {}

HandleWatch(p) ==
  /\ asked[p].watch > 0
  /\ asked' = [asked EXCEPT ![p].watch = @ - 1]
  /\ Watch
  /\ UNCHANGED <<file, edits, reported, events, mounted, expanded, tree, loads, deleted, viewerVars,
                 gap, overtaken, clicks>>

HandleUnwatch(p) ==
  /\ asked[p].unwatch > 0
  /\ asked' = [asked EXCEPT ![p].unwatch = @ - 1]
  /\ Unwatch
  /\ UNCHANGED <<file, edits, reported, events, mounted, expanded, tree, loads, deleted, viewerVars,
                 gap, overtaken, clicks>>

\* A task that starts in the repository has it watched; ...
TaskWatches ==
  /\ Watch
  /\ UNCHANGED <<file, edits, reported, asked, events, mounted, expanded, tree, loads, deleted,
                 viewerVars, gap, overtaken, clicks>>

\* ... one that ends in an unexpected error has the watch ended, for everybody.
TaskUnwatches ==
  /\ Unwatch
  /\ UNCHANGED <<file, edits, reported, asked, events, mounted, expanded, tree, loads, deleted,
                 viewerVars, gap, overtaken, clicks>>

\* The entry goes when the watcher is closed.
WatcherClosed ==
  /\ watch = "closing" /\ watch' = "no"
  /\ UNCHANGED <<file, edits, unscanned, reported, asked, events, mounted, expanded, tree, loads,
                 deleted, viewerVars, gap, overtaken, clicks>>

\* GET /repositories/tree and /repositories/file read the disk.
AnswerTree(p, i) ==
  /\ ~ loads[p][i].answered
  /\ loads' = [loads EXCEPT ![p][i].answered = TRUE, ![p][i].live = Present, ![p][i].asOf = edits]
  /\ UNCHANGED <<serverVars, asked, events, mounted, expanded, tree, deleted, viewerVars, gap,
                 overtaken, clicks>>

AnswerFile(p, i) ==
  LET f == fileLoads[p][i].file
  IN /\ ~ fileLoads[p][i].answered
     /\ fileLoads' = [fileLoads EXCEPT ![p][i].answered = TRUE, ![p][i].asOf = edits,
                        ![p][i].found = IF file[f].there THEN <<f, file[f].version>> ELSE <<>>]
     /\ UNCHANGED <<serverVars, asked, events, mounted, expanded, tree, loads, deleted, viewer,
                    content, hasFileChanged, isDeletedFile, gap, overtaken, clicks>>

-----------------------------------------------------------------------------
(* The page. *)

Click == clicks < MaxClicks /\ clicks' = clicks + 1
NewLoad == [answered |-> FALSE, live |-> {}, asOf |-> 0, late |-> FALSE, dead |-> FALSE]

\* The calls left when the i-th is over: an older answer that is still to come, and
\* one for a file that was asked for before, is late now.
Older(a, b) == a.answered /\ a.asOf < b.asOf

AfterDelivery(calls, i) ==
  RemoveAt([j \in DOMAIN calls |->
              [calls[j] EXCEPT !.late = @ \/ Older(calls[j], calls[i])]], i)

AfterFile(calls, i) ==
  RemoveAt([j \in DOMAIN calls |->
              [calls[j] EXCEPT !.late = \/ @ \/ Older(calls[j], calls[i])
                                        \/ j < i /\ calls[j].file # calls[i].file]], i)

\* loadTree is called for every repository when the explorer appears, collapsed.
OpenExplorer(p) ==
  /\ Click /\ ~ mounted[p]
  /\ mounted' = [mounted EXCEPT ![p] = TRUE] /\ expanded' = [expanded EXCEPT ![p] = FALSE]
  /\ tree' = [tree EXCEPT ![p] = NoTree]
  /\ loads' = [loads EXCEPT ![p] = Append(@, NewLoad)]
  /\ overtaken' = [overtaken EXCEPT ![p] = {}]
  /\ UNCHANGED <<serverVars, asked, events, deleted, viewerVars, gap>>

\* The repository of a selected file is expanded again at once.
Toggle(p) ==
  /\ Click /\ mounted[p] /\ viewer[p] = NoFile
  /\ expanded' = [expanded EXCEPT ![p] = ~ @]
  /\ UNCHANGED <<serverVars, asked, events, mounted, tree, loads, deleted, viewerVars, gap,
                 overtaken>>

\* handleRefresh.
Refresh(p) ==
  /\ Click /\ mounted[p] /\ expanded[p]
  /\ loads' = [loads EXCEPT ![p] = Append(@, NewLoad)]
  /\ UNCHANGED <<serverVars, asked, events, mounted, expanded, tree, deleted, viewerVars, gap,
                 overtaken>>

\* The rest of loadTree: deleted files are merged in, the watch is asked for; both
\* also when the explorer is gone by now.
TreeArrives(p, i) ==
  /\ loads[p][i].answered
  /\ loads' = [loads EXCEPT ![p] = AfterDelivery(@, i)]
  /\ asked' = [asked EXCEPT ![p].watch = @ + 1]
  /\ IF loads[p][i].dead
     THEN UNCHANGED <<tree, overtaken>>
     ELSE /\ tree' = [tree EXCEPT ![p] = [live |-> loads[p][i].live, asOf |-> loads[p][i].asOf,
                                          loaded |-> TRUE,
                                          ghosts |-> deleted[p] \ loads[p][i].live]]
          /\ overtaken' = [overtaken EXCEPT ![p] = IF loads[p][i].late THEN @ \cup {"tree"}
                                                   ELSE @ \ {"tree"}]
  /\ UNCHANGED <<serverVars, events, mounted, expanded, deleted, viewerVars, gap, clicks>>

\* loadFileContent: a file on record as deleted is not asked for.
LoadFile(p, f) ==
  /\ hasFileChanged' = [hasFileChanged EXCEPT ![p] = FALSE]
  /\ isDeletedFile' = [isDeletedFile EXCEPT ![p] = f \in deleted[p]]
  /\ IF f \in deleted[p]
     THEN content' = [content EXCEPT ![p] = NoContent] /\ UNCHANGED fileLoads
     ELSE /\ fileLoads' = [fileLoads EXCEPT ![p] = Append(@, [file |-> f, answered |-> FALSE,
                                                     asOf |-> 0, found |-> <<>>, late |-> FALSE])]
          /\ UNCHANGED content

\* handleFileSelect; the viewer appears or changes its file, and asks for the watch.
SelectFile(p, f) ==
  /\ Click /\ mounted[p] /\ expanded[p]
  /\ f \in tree[p].live \cup tree[p].ghosts /\ f # viewer[p]
  /\ viewer' = [viewer EXCEPT ![p] = f]
  /\ LoadFile(p, f)
  /\ asked' = [asked EXCEPT ![p].watch = @ + 1]
  /\ UNCHANGED <<serverVars, events, mounted, expanded, tree, loads, deleted, gap,
                 overtaken>>

ReloadFile(p) ==
  /\ Click /\ viewer[p] # NoFile
  /\ LoadFile(p, viewer[p])
  /\ UNCHANGED <<serverVars, asked, events, mounted, expanded, tree, loads, deleted, viewer, gap,
                 overtaken>>

\* The rest of loadFileContent: the answer is shown whatever the file is by now.
FileArrives(p, i) ==
  /\ fileLoads[p][i].answered
  /\ fileLoads' = [fileLoads EXCEPT ![p] = AfterFile(@, i)]
  /\ content' = [content EXCEPT ![p] = [found |-> fileLoads[p][i].found,
                                         asOf  |-> fileLoads[p][i].asOf]]
  /\ isDeletedFile' = [isDeletedFile EXCEPT ![p] = @ \/ fileLoads[p][i].found = <<>>]
  /\ overtaken' = [overtaken EXCEPT ![p] = IF fileLoads[p][i].late THEN @ \cup {"viewer"}
                                           ELSE @ \ {"viewer"}]
  /\ UNCHANGED <<serverVars, asked, events, mounted, expanded, tree, loads, deleted, viewer,
                 hasFileChanged, gap, clicks>>

ViewerGone(p) ==
  /\ viewer' = [viewer EXCEPT ![p] = NoFile] /\ content' = [content EXCEPT ![p] = NoContent]
  /\ hasFileChanged' = [hasFileChanged EXCEPT ![p] = FALSE]
  /\ isDeletedFile' = [isDeletedFile EXCEPT ![p] = FALSE]
  /\ fileLoads' = [fileLoads EXCEPT ![p] = <<>>]

\* onDestroy of the viewer: nobody needs the watch any more, it thinks.
CloseViewer(p) ==
  /\ Click /\ viewer[p] # NoFile
  /\ ViewerGone(p)
  /\ asked' = [asked EXCEPT ![p].unwatch = @ + 1]
  /\ overtaken' = [overtaken EXCEPT ![p] = @ \ {"viewer"}]
  /\ UNCHANGED <<serverVars, events, mounted, expanded, tree, loads, deleted, gap>>

\* onDestroy of the explorer and of its viewer.
LeaveExplorer(p) ==
  /\ Click /\ mounted[p]
  /\ mounted' = [mounted EXCEPT ![p] = FALSE] /\ expanded' = [expanded EXCEPT ![p] = FALSE]
  /\ tree' = [tree EXCEPT ![p] = NoTree]
  /\ loads' = [loads EXCEPT ![p] = [j \in DOMAIN @ |-> [@[j] EXCEPT !.dead = TRUE]]]
  /\ ViewerGone(p)
  /\ asked' = [asked EXCEPT ![p].unwatch = IF viewer[p] = NoFile THEN @ + 1 ELSE @ + 2]
  /\ overtaken' = [overtaken EXCEPT ![p] = {}]
  /\ UNCHANGED <<serverVars, events, deleted, gap>>

\* Fault: only while nothing is being loaded.
ReloadsIdle(p) == mounted[p] /\ expanded[p] /\ loads[p] = <<>>

\* What the tree makes of an event: it is loaded again if it is expanded.
Reloads(p) == mounted[p] /\ expanded[p]

\* Fault: only while no content is awaited.
NoticedShown(p, event) ==
  viewer[p] = event.file /\ event.type \in {"changed", "removed"} /\ fileLoads[p] = <<>>

\* What the viewer notices: it is marked at a change or a removal of its file.
Noticed(p, event) == viewer[p] = event.file /\ event.type \in {"changed", "removed"}

\* The views of a page that pass over an event: a collapsed tree, and a viewer, which
\* takes no notice of one that adds a file.
PassOver(p, event) ==
  {v \in Views : IF v = "tree" THEN mounted[p] /\ ~ expanded[p] ELSE event.type = "added"}

\* handleFileChange with the handlers of the tree and of the viewer.
EventArrives(p, i) ==
  /\ events' = [events EXCEPT ![p] = RemoveAt(@, i)]
  /\ LET event == events[p][i]
         gone  == Noticed(p, event) /\ event.type = "removed"
     IN /\ deleted' = IF event.type = "removed"
                       THEN [deleted EXCEPT ![p] = @ \cup {event.file}] ELSE deleted
        /\ loads' = [loads EXCEPT ![p] = IF Reloads(p) THEN Append(@, NewLoad) ELSE @]
        /\ gap' = [gap EXCEPT ![p] =
                     [v \in Views |-> IF v \in PassOver(p, event) THEN edits ELSE @[v]]]
        /\ hasFileChanged' = [hasFileChanged EXCEPT ![p] = @ \/ Noticed(p, event)]
        /\ isDeletedFile' = [isDeletedFile EXCEPT ![p] = @ \/ gone]
        /\ content' = [content EXCEPT ![p] = IF gone THEN NoContent ELSE @]
  /\ UNCHANGED <<serverVars, asked, mounted, expanded, tree, viewer, fileLoads, overtaken, clicks>>

\* broadcastToAll: only connections that are open and authenticated get the event, and
\* those of a page come and go at any time.
EventMissed(p, i) ==
  /\ events' = [events EXCEPT ![p] = RemoveAt(@, i)]
  /\ gap' = [gap EXCEPT ![p] = [v \in Views |-> edits]]
  /\ UNCHANGED <<serverVars, asked, mounted, expanded, tree, loads, deleted, viewerVars, overtaken,
                 clicks>>

\* A record is kept for an hour.
DeletedExpires(p) ==
  /\ \E f \in deleted[p] : deleted' = [deleted EXCEPT ![p] = @ \ {f}]
  /\ UNCHANGED <<serverVars, asked, events, mounted, expanded, tree, loads, viewerVars, gap,
                 overtaken, clicks>>

ExplorerNext ==
  \/ \E f \in ExFile : Edit(f) \/ Report(f) \/ Unnoticed(f) \/ Scan(f)
  \/ TaskWatches \/ TaskUnwatches \/ WatcherClosed
  \/ \E p \in Page :
       \/ HandleWatch(p) \/ HandleUnwatch(p)
       \/ \E i \in DOMAIN loads[p] : AnswerTree(p, i) \/ TreeArrives(p, i)
       \/ \E i \in DOMAIN fileLoads[p] : AnswerFile(p, i) \/ FileArrives(p, i)
       \/ OpenExplorer(p) \/ Toggle(p) \/ Refresh(p) \/ LeaveExplorer(p)
       \/ \E f \in ExFile : SelectFile(p, f)
       \/ \E i \in DOMAIN events[p] : EventArrives(p, i) \/ EventMissed(p, i)
       \/ ReloadFile(p) \/ CloseViewer(p) \/ DeletedExpires(p)

ExplorerSpec == ExplorerInit /\ [][ExplorerNext]_explorerVars

-----------------------------------------------------------------------------
\* The shapes of the state.
ExplorerTypeOK ==
  /\ file \in [ExFile -> [version : 0 .. MaxEdits, there : BOOLEAN]]
  /\ reported \in [ExFile -> [version : 0 .. MaxEdits, there : BOOLEAN]]
  /\ edits \in 0 .. MaxEdits /\ clicks \in 0 .. MaxClicks
  /\ watch \in {"no", "open", "closing"} /\ unscanned \subseteq WatchedFile
  /\ asked \in [Page -> [watch : Nat, unwatch : Nat]]
  /\ \A p \in Page :
       /\ events[p] \in Seq([type : {"added", "changed", "removed"}, file : ExFile])
       /\ loads[p] \in Seq([answered : BOOLEAN, live : SUBSET ExFile, asOf : 0 .. MaxEdits,
                             late : BOOLEAN, dead : BOOLEAN])
       /\ content[p].found = <<>> \/ content[p].found \in ExFile \X (0 .. MaxEdits)
  /\ mounted \in [Page -> BOOLEAN] /\ expanded \in [Page -> BOOLEAN]
  /\ tree \in [Page -> [live : SUBSET ExFile, ghosts : SUBSET ExFile, asOf : 0 .. MaxEdits,
                     loaded : BOOLEAN]]
  /\ deleted \in [Page -> SUBSET ExFile] /\ viewer \in [Page -> ExFile \cup {NoFile}]
  /\ hasFileChanged \in [Page -> BOOLEAN] /\ isDeletedFile \in [Page -> BOOLEAN]
  /\ gap \in [Page -> [Views -> 0 .. MaxEdits]]
  /\ overtaken \in [Page -> SUBSET Views]

\* Nothing is under way between the watched files and page p.
Arrived(p) ==
  /\ \A f \in WatchedFile : reported[f] = file[f]
  /\ events[p] = <<>> /\ loads[p] = <<>> /\ fileLoads[p] = <<>>

\* When all has arrived an explorer shows those of the watched files that are there,
\* unless a change passed its tree by (nobody watched, the page was not connected or
\* its tree was collapsed) since it was loaded, or an older answer overwrote a newer one.
TreeTrue ==
  \A p \in Page :
    /\ Arrived(p) /\ tree[p].loaded /\ "tree" \notin overtaken[p]
    /\ tree[p].asOf >= gap[p]["tree"]
    => tree[p].live \cap WatchedFile = Present \cap WatchedFile

\* When all has arrived a content of a watched file that is shown without the mark of a
\* change is the present one of the selected file, unless a change passed the viewer by
\* (nobody watched, the page was not connected or a file was added) since it was loaded,
\* or an older answer, or one for another file, overwrote a newer one.
ViewerTrue ==
  \A p \in Page :
    /\ Arrived(p) /\ viewer[p] \in WatchedFile
    /\ content[p].found # <<>> /\ ~ hasFileChanged[p] /\ ~ isDeletedFile[p]
    /\ "viewer" \notin overtaken[p] /\ content[p].asOf >= gap[p]["viewer"]
    => file[viewer[p]].there /\ content[p].found = <<viewer[p], file[viewer[p]].version>>

\* What a page shows of the watched files when all has arrived is true but for the
\* named cases.
PageTrue == TreeTrue /\ ViewerTrue
=============================================================================
