-------------------------------- MODULE MCHost --------------------------------
(***************************************************************************)
(* Instances of what agents run in and of what pages see of their files:   *)
(* the environment of Claude's sessions, the runs of codex and of gemini,  *)
(* the cache of watched files and the repository explorer.  They share no  *)
(* state, so a behaviour exercises one (part) and leaves the others at     *)
(* rest.                                                                   *)
(***************************************************************************)
EXTENDS ProcessEnv, AgentRuns, FileCache, Explorer

CONSTANTS Parts, FirstPage, FirstFile

VARIABLE part

hostVars == <<envVars, agentVars, cacheVars, explorerVars>>

\* A part at rest starts in one of its initial states; all turns ask for one directory.
HostInit ==
  /\ part \in Parts
  /\ EnvInit /\ AgentsInit /\ CacheInit /\ ExplorerInit
  /\ part # "environment" =>
       /\ env0 = [KEY |-> "key", BEDROCK |-> "none"] /\ mode = "api-key"
       /\ dir = [u \in User |-> NoDir]
  /\ part = "environment" => \A u \in Turn : dir[u] = CHOOSE d \in Dir : TRUE
  /\ part \notin {"explorer", "pages"} => Present = {}
  /\ part = "pages" => Present \subseteq {FirstFile}

\* Any three of the runs and turns, two of them where the directory of the server goes;
\* the others do not begin.
AnyThree ==
  /\ EnvNext
  /\ Cardinality({u \in User : progress'[u] # "idle"}) <= IF homeGone' THEN 2 ELSE 3

\* The adapters of the two kinds share nothing but the queue.
CodexRuns == AgentsNext /\ \A t \in GeminiTask : UNCHANGED <<run[t], taskStatus[t]>>
GeminiRuns == AgentsNext /\ \A t \in AgentTask \ GeminiTask : UNCHANGED <<run[t], taskStatus[t]>>

\* One file through all its versions beside files that are written once.
CachesOne ==
  /\ CacheNext
  /\ \E f \in CachedFile : \A g \in CachedFile \ {f} : disk'[g].version <= 1

\* One page with several files and a change; the others take no notice, and what they
\* are told stays under way.
ExploresFiles ==
  /\ ExplorerNext /\ edits' <= 1 /\ clicks' <= 4
  /\ \A p \in Page \ {FirstPage} : ~ mounted'[p] /\ Len(events'[p]) >= Len(events[p])

\* Several pages, for a shorter time, and one file that changes more often; no task
\* runs in the repository and no hour passes.
ExploresPages ==
  /\ ExplorerNext /\ clicks' <= 3
  /\ ~ TaskWatches /\ ~ TaskUnwatches
  /\ \A p \in Page : deleted[p] \subseteq deleted'[p]
  /\ \A f \in ExFile \ {FirstFile} : UNCHANGED file[f]

HostNext ==
  \/ /\ part = "environment" /\ AnyThree
     /\ UNCHANGED <<part, agentVars, cacheVars, explorerVars>>
  \/ /\ part = "codex" /\ CodexRuns
     /\ UNCHANGED <<part, envVars, cacheVars, explorerVars>>
  \/ /\ part = "gemini" /\ GeminiRuns
     /\ UNCHANGED <<part, envVars, cacheVars, explorerVars>>
  \/ /\ part = "cache" /\ CachesOne
     /\ UNCHANGED <<part, envVars, agentVars, explorerVars>>
  \/ /\ part = "explorer" /\ ExploresFiles
     /\ UNCHANGED <<part, envVars, agentVars, cacheVars>>
  \/ /\ part = "pages" /\ ExploresPages
     /\ UNCHANGED <<part, envVars, agentVars, cacheVars>>

HostSpec == HostInit /\ [][HostNext]_<<part, hostVars>>

\* The shapes of the states of all parts.
HostTypeOK == EnvTypeOK /\ AgentsTypeOK /\ CacheTypeOK /\ ExplorerTypeOK
=============================================================================
