----------------------------- MODULE ProcessEnv -----------------------------
(***************************************************************************)
(* What the sessions of Claude are started through: two variables of       *)
(* process.env, which every run and every chat turn sets and puts back     *)
(* (claude/strategies/, chat/chat-sdk-client.ts), and the working          *)
(* directory of the process, which utils/cwd-mutex.ts changes for the time *)
(* of one constructor call.                                                *)
(*                                                                         *)
(* Runs and turns overlap: each saves what it finds, which may be what     *)
(* another has set.  KEY is CLAUDE_API_KEY, BEDROCK is                     *)
(* CLAUDE_CODE_USE_BEDROCK; the AWS variables go the way of BEDROCK.       *)
(***************************************************************************)
EXTENDS Naturals, Sequences, FiniteSets

CONSTANTS
  Run,        \* tasks of the Claude executor
  Turn,       \* turns of chats
  Dir,        \* directories sessions are asked for
  Home,       \* the directory the server was started in
  NoDir,      \* no directory was asked for
  MaxSwitches \* bound on the changes of the execution mode

User == Run \cup Turn

ASSUME ProcessEnvAssumption ==
  /\ Run \cap Turn = {}
  /\ Home \notin Dir /\ NoDir \notin Dir /\ NoDir # Home
  /\ MaxSwitches \in Nat

VARIABLES
  env, env0,      \* process.env now and at the start
  mode,           \* of the strategy of the shared client
  progress,       \* of every run and turn
  used,           \* the strategy a run was started with; "chat" for a turn
  saved,          \* what it found in env
  dir,            \* the directory it asks for
  given,          \* [env, cwd] its session was constructed with; cwd is NoDir before
  chain,          \* callbacks of withCwd that wait for the one before
  cwd, homeGone,  \* process.cwd(); that directory was removed
  broken,         \* a callback of the chain has thrown: the rest never runs
  switches,
  overlapped, everBedrock

envVars == <<env, env0, mode, progress, used, saved, dir, given, chain, cwd, homeGone, broken,
             switches, overlapped, everBedrock>>

Environment == [KEY : {"none", "key", "undefined"}, BEDROCK : {"none", "1"}]
Active(u) == progress[u] \in {"opening", "streaming"}
NobodyRuns == \A u \in User : ~ Active(u)

\* config.claude.apiKey is read from the environment when the process starts; an
\* undefined value assigned to process.env becomes a text.
ConfigKey == IF env0.KEY = "key" THEN "key" ELSE "undefined"

\* createStrategy throws without a key; credentials of AWS are there.
Available(m) == m = "bedrock" \/ env0.KEY = "key"

\* determineExecutionMode: a key comes first, unless a mode is forced.
EnvInit ==
  /\ env0 \in [KEY : {"none", "key"}, BEDROCK : {"none", "1"}]
  /\ env = env0
  /\ mode \in {m \in {"api-key", "bedrock"} : Available(m)}
  /\ progress = [u \in User |-> "idle"]
  /\ used = [u \in User |-> IF u \in Turn THEN "chat" ELSE "none"]
  /\ saved = [u \in User |-> env0]
  /\ dir \in [User -> Dir \cup {NoDir}]
  /\ given = [u \in User |-> [env |-> env0, cwd |-> NoDir]]
  /\ chain = <<>>
  /\ cwd = Home /\ homeGone = FALSE /\ broken = FALSE
  /\ switches = 0 /\ overlapped = FALSE /\ everBedrock = FALSE

\* PUT /api/settings: the next runs use the other strategy.
SwitchMode(m) ==
  /\ switches < MaxSwitches
  /\ m # mode /\ Available(m)
  /\ mode' = m
  /\ switches' = switches + 1
  /\ UNCHANGED <<env, env0, progress, used, saved, dir, given, chain, cwd, homeGone, broken,
                 overlapped, everBedrock>>

\* The environment a run of strategy m sets before it builds the options of its
\* session, and the one a turn sets.
EnvOf(m) ==
  CASE m = "api-key" -> [KEY |-> "key", BEDROCK |-> "none"]
    [] m = "bedrock" -> [KEY |-> "none", BEDROCK |-> "1"]
    [] OTHER         -> [env EXCEPT !.KEY = ConfigKey]

\* Fault: what was there before is removed, not restored.
PutBackNothing(u) ==
  IF used[u] = "chat" THEN [env EXCEPT !.KEY = "none"] ELSE [KEY |-> "none", BEDROCK |-> "none"]

\* What the finally block of u leaves: the strategy for a key puts BEDROCK back
\* only if there was one, a turn touches KEY alone.
PutBack(u) ==
  CASE used[u] = "bedrock" -> saved[u]
    [] used[u] = "api-key" ->
         [KEY |-> saved[u].KEY,
          BEDROCK |-> IF saved[u].BEDROCK = "none" THEN env.BEDROCK ELSE saved[u].BEDROCK]
    [] OTHER -> [env EXCEPT !.KEY = saved[u].KEY]

\* Fault: the strategies copy it in the callback as well.
SessionEnvLate(u, e) == e

\* The environment of the session of u, when its constructor runs at moment e: a
\* strategy has copied the environment together with its own settings, a turn
\* copies it in the callback.
SessionEnv(u, e) == IF u \in Turn THEN e ELSE EnvOf(used[u])

\* executeQuery of the strategies up to withCwd, and execute of the chat client.
\* Without a directory the session is constructed at once.
Begin(u) ==
  LET m == IF u \in Turn THEN "chat" ELSE mode
  IN /\ progress[u] = "idle"
     /\ saved' = [saved EXCEPT ![u] = env]
     /\ used' = [used EXCEPT ![u] = m]
     /\ env' = EnvOf(m)
     /\ IF dir[u] = NoDir
        THEN /\ progress' = [progress EXCEPT ![u] = "streaming"]
             /\ given' = [given EXCEPT ![u] = [env |-> EnvOf(m), cwd |-> cwd]]
             /\ UNCHANGED chain
        ELSE /\ progress' = [progress EXCEPT ![u] = "opening"]
             /\ chain' = Append(chain, u)
             /\ UNCHANGED given
     /\ overlapped' = (overlapped \/ ~ NobodyRuns)
     /\ everBedrock' = (everBedrock \/ m = "bedrock")
     /\ UNCHANGED <<env0, mode, dir, cwd, homeGone, broken, switches>>

Session(u) == [env |-> SessionEnv(u, env), cwd |-> dir[u]]

\* Fault: the way back is missing where an error is handled.
DirAfterLeft(failed) == IF failed THEN dir[Head(chain)] ELSE Home

\* Where the process is after a callback that failed, or did not.
DirAfter(failed) == Home

\* The chain goes on after a callback, also one that failed.
ChainRuns == chain # <<>> /\ ~ broken /\ ~ homeGone

\* The callback at the head of the chain.  The directory or the constructor may
\* fail: the process goes back and the run ends through its finally block.
Construct(failed) ==
  /\ ChainRuns
  /\ LET u == Head(chain)
     IN IF failed
        THEN /\ progress' = [progress EXCEPT ![u] = "over"]
             /\ env' = PutBack(u)
             /\ UNCHANGED given
        ELSE /\ progress' = [progress EXCEPT ![u] = "streaming"]
             /\ given' = [given EXCEPT ![u] = Session(u)]
             /\ UNCHANGED env
  /\ chain' = Tail(chain)
  /\ cwd' = DirAfter(failed)
  /\ UNCHANGED <<env0, mode, used, saved, dir, homeGone, broken, switches, overlapped, everBedrock>>

\* With the directory of the server gone the callback throws: in process.cwd(),
\* unless Node remembers it, or in the change back, which is tried twice and leaves the
\* process where it is, with or without the session.  The chain stays rejected: its
\* promises never settle.
ConstructThrows ==
  /\ chain # <<>> /\ ~ broken /\ homeGone
  /\ broken' = TRUE
  /\ LET u == Head(chain)
     IN \/ UNCHANGED <<given, cwd>>
        \/ /\ cwd' = dir[u]
           /\ given' \in {given, [given EXCEPT ![u] = Session(u)]}
  /\ UNCHANGED <<env, env0, mode, progress, used, saved, dir, chain, homeGone, switches,
                 overlapped, everBedrock>>

\* The stream of u ends, breaks or is aborted.
Finish(u) ==
  /\ progress[u] = "streaming"
  /\ progress' = [progress EXCEPT ![u] = "over"]
  /\ env' = PutBack(u)
  /\ UNCHANGED <<env0, mode, used, saved, dir, given, chain, cwd, homeGone, broken, switches,
                 overlapped, everBedrock>>

\* The directory of the server is removed.
HomeRemoved ==
  /\ ~ homeGone
  /\ homeGone' = TRUE
  /\ UNCHANGED <<env, env0, mode, progress, used, saved, dir, given, chain, cwd, broken, switches,
                 overlapped, everBedrock>>

EnvNext ==
  \/ \E m \in {"api-key", "bedrock"} : SwitchMode(m)
  \/ \E u \in User : Begin(u) \/ Finish(u)
  \/ \E failed \in BOOLEAN : Construct(failed)
  \/ ConstructThrows \/ HomeRemoved

EnvSpec == EnvInit /\ [][EnvNext]_envVars

-----------------------------------------------------------------------------
\* The shapes of the state.
EnvTypeOK ==
  /\ env \in Environment /\ env0 \in [KEY : {"none", "key"}, BEDROCK : {"none", "1"}]
  /\ mode \in {"api-key", "bedrock"}
  /\ progress \in [User -> {"idle", "opening", "streaming", "over"}]
  /\ used \in [User -> {"none", "chat", "api-key", "bedrock"}]
  /\ saved \in [User -> Environment]
  /\ dir \in [User -> Dir \cup {NoDir}]
  /\ given \in [User -> [env : Environment, cwd : Dir \cup {Home, NoDir}]]
  /\ chain \in Seq(User)
  /\ cwd \in Dir \cup {Home}
  /\ {homeGone, broken, overlapped, everBedrock} \subseteq BOOLEAN
  /\ switches \in 0 .. MaxSwitches

\* However runs, turns and changes of the mode overlap, the session of a run gets
\* the environment of the strategy the run was started with and the directory it
\* asked for, although both are set for the whole process.  One that asks for none
\* gets the directory of the server, or the one the process was left in.
SessionsAsAsked ==
  \A r \in Run : given[r].cwd # NoDir =>
    /\ given[r].env = EnvOf(used[r])
    /\ IF dir[r] = NoDir THEN given[r].cwd \in {Home, cwd} ELSE given[r].cwd = dir[r]

\* Between two callbacks the process is in the directory of the server, unless that
\* was gone when a callback wanted to go back to it.
DirectoryKept == cwd # Home => broken /\ homeGone

\* When no run or turn is left the environment is the original one, provided that
\* none ever overlapped another, or that the server has a key and the strategy for
\* Bedrock was never used: then whoever found BEDROCK set puts it back, and KEY never
\* changes.  (Two turns that overlap without a key leave the text "undefined".)
RestoredUnlessMixed ==
  (NobodyRuns /\ (~ overlapped \/ (~ everBedrock /\ env0.KEY = "key"))) => env = env0

\* Runs and turns may share the variables of the process and its directory: no run
\* starts with those of another, but for the directory of a process that cannot go
\* back, and what is left behind is known.
EnvironmentKept == SessionsAsAsked /\ DirectoryKept /\ RestoredUnlessMixed
=============================================================================
