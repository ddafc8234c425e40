----------------------------- MODULE HostProofs -----------------------------
(***************************************************************************)
(* Proofs about what agents run in and what pages see of their files:      *)
(* about ProcessEnv, for any sets of runs, turns and directories; about    *)
(* AgentRuns, for any finite set of tasks and any bounds; about Explorer   *)
(* and FileCache, for any pages, files, calls and bounds; and about the    *)
(* four beside each other.                                                 *)
(***************************************************************************)
EXTENDS MCHost, SequenceTheorems, WellFoundedInduction, TLAPS

-----------------------------------------------------------------------------
(* ProcessEnv: types. *)

\* What a strategy or a turn sets, and what it puts back, are environments.
LEMMA EnvironmentsTyped ==
  ASSUME EnvTypeOK
  PROVE  /\ \A m : EnvOf(m) \in Environment
         /\ \A u \in User : PutBack(u) \in Environment
         /\ \A u \in User : SessionEnv(u, env) \in Environment
         /\ \A u \in User :
              Session(u) \in [env : Environment, cwd : Dir \cup {Home, NoDir}]
<1>1. \A u \in User : SessionEnv(u, env) \in Environment
  BY DEF EnvTypeOK, Environment, EnvOf, SessionEnv, ConfigKey
<1>2. \A u \in User :
        Session(u) \in [env : Environment, cwd : Dir \cup {Home, NoDir}]
  BY <1>1 DEF EnvTypeOK, Session
<1> QED BY <1>1, <1>2 DEF EnvTypeOK, Environment, EnvOf, PutBack, ConfigKey

\* The rest of the chain is a chain, of the same callbacks one place earlier.
LEMMA RestOfChain ==
  ASSUME EnvTypeOK, chain # <<>>
  PROVE  /\ Head(chain) \in User /\ Tail(chain) \in Seq(User)
         /\ Head(chain) = chain[1] /\ Len(chain) \in Nat /\ 1 \in 1 .. Len(chain)
         /\ Len(Tail(chain)) = Len(chain) - 1
         /\ \A i \in 1 .. Len(Tail(chain)) :
              Tail(chain)[i] = chain[i + 1] /\ i + 1 \in 1 .. Len(chain)
BY DEF EnvTypeOK

\* A callback in the chain belongs to somebody who waits for a directory, and to
\* nobody twice.
ChainSound ==
  /\ \A i \in 1 .. Len(chain) : progress[chain[i]] = "opening" /\ dir[chain[i]] # NoDir
  /\ \A i, j \in 1 .. Len(chain) : chain[i] = chain[j] => i = j

LEMMA EnvTypesKept ==
  ASSUME EnvTypeOK, ChainSound, [EnvNext]_envVars PROVE EnvTypeOK'
<1>1. ASSUME NEW m \in {"api-key", "bedrock"}, SwitchMode(m) PROVE EnvTypeOK'
  BY <1>1, ProcessEnvAssumption DEF EnvTypeOK, SwitchMode, Environment
<1>2. ASSUME NEW u \in User, Begin(u) PROVE EnvTypeOK'
  <2> DEFINE m == IF u \in Turn THEN "chat" ELSE mode
  <2>1. EnvOf(m) \in Environment /\ cwd \in Dir \cup {Home, NoDir}
    BY EnvironmentsTyped DEF EnvTypeOK
  <2>2. env' \in Environment /\ saved' \in [User -> Environment]
        /\ used' \in [User -> {"none", "chat", "api-key", "bedrock"}]
        /\ progress' \in [User -> {"idle", "opening", "streaming", "over"}]
    BY <1>2, <2>1 DEF EnvTypeOK, Begin
  <2>3. [env |-> EnvOf(m), cwd |-> cwd] \in [env : Environment, cwd : Dir \cup {Home, NoDir}]
    BY <2>1
  <2>4. given' \in [User -> [env : Environment, cwd : Dir \cup {Home, NoDir}]]
    BY <1>2, <2>3 DEF EnvTypeOK, Begin
  <2>5. chain' \in Seq(User)
    <3>1. chain \in Seq(User) /\ Append(chain, u) \in Seq(User)
      BY DEF EnvTypeOK
    <3>2. chain' = chain \/ chain' = Append(chain, u)
      BY <1>2 DEF Begin
    <3> QED BY <3>1, <3>2
  <2>6. {homeGone', broken', overlapped', everBedrock'} \subseteq BOOLEAN
    BY <1>2 DEF EnvTypeOK, Begin
  <2> QED BY <1>2, <2>2, <2>4, <2>5, <2>6 DEF EnvTypeOK, Begin, Environment
<1>3. ASSUME NEW failed \in BOOLEAN, Construct(failed) PROVE EnvTypeOK'
  <2>1. Head(chain) \in User /\ Tail(chain) \in Seq(User)
    BY <1>3, RestOfChain DEF Construct, ChainRuns
  <2>2. PutBack(Head(chain)) \in Environment /\ SessionEnv(Head(chain), env) \in Environment
    BY <2>1, EnvironmentsTyped
  <2>3. env' \in Environment /\ progress' \in [User -> {"idle", "opening", "streaming", "over"}]
    BY <1>3, <2>1, <2>2 DEF EnvTypeOK, Construct
  <2>4. Session(Head(chain)) \in [env : Environment, cwd : Dir \cup {Home, NoDir}]
    BY <2>1, <2>2 DEF EnvTypeOK, Session
  <2>5. given' = given \/ given' = [given EXCEPT ![Head(chain)] = Session(Head(chain))]
    BY <1>3 DEF Construct
  <2>6. given' \in [User -> [env : Environment, cwd : Dir \cup {Home, NoDir}]]
    BY <2>1, <2>4, <2>5 DEF EnvTypeOK
  <2> QED BY <1>3, <2>1, <2>3, <2>6 DEF EnvTypeOK, Construct, DirAfter, Environment
<1>4. CASE ConstructThrows
  <2>1. Head(chain) \in User /\ dir[Head(chain)] # NoDir
    BY <1>4, RestOfChain DEF ConstructThrows, ChainSound
  <2>2. Session(Head(chain)) \in [env : Environment, cwd : Dir \cup {Home, NoDir}]
    BY <2>1, EnvironmentsTyped
  <2>3. given' \in [User -> [env : Environment, cwd : Dir \cup {Home, NoDir}]]
    BY <1>4, <2>1, <2>2 DEF ConstructThrows, EnvTypeOK
  <2>4. cwd' \in Dir \cup {Home}
    BY <1>4, <2>1 DEF ConstructThrows, EnvTypeOK
  <2> QED BY <1>4, <2>3, <2>4 DEF EnvTypeOK, ConstructThrows, Environment
<1>5. ASSUME NEW u \in User, Finish(u) PROVE EnvTypeOK'
  <2>1. PutBack(u) \in Environment
    BY EnvironmentsTyped
  <2> QED BY <1>5, <2>1 DEF EnvTypeOK, Finish, Environment
<1>6. CASE HomeRemoved
  BY <1>6 DEF EnvTypeOK, HomeRemoved, Environment
<1>7. CASE UNCHANGED envVars
  BY <1>7 DEF EnvTypeOK, envVars, Environment
<1> QED BY <1>1, <1>2, <1>3, <1>4, <1>5, <1>6, <1>7 DEF EnvNext

LEMMA EnvTypesInitially == EnvInit => EnvTypeOK
<1> SUFFICES ASSUME EnvInit PROVE EnvTypeOK
  OBVIOUS
<1>1. env0 \in [KEY : {"none", "key"}, BEDROCK : {"none", "1"}] /\ env = env0
  BY DEF EnvInit
<1>2. env0 \in Environment
  BY <1>1 DEF Environment
<1>3. mode \in {"api-key", "bedrock"} /\ chain \in Seq(User)
  BY DEF EnvInit
<1>4. /\ progress \in [User -> {"idle", "opening", "streaming", "over"}]
      /\ used \in [User -> {"none", "chat", "api-key", "bedrock"}]
      /\ saved \in [User -> Environment]
  BY <1>2 DEF EnvInit
<1>5. given \in [User -> [env : Environment, cwd : Dir \cup {Home, NoDir}]]
  <2>1. [env |-> env0, cwd |-> NoDir] \in [env : Environment, cwd : Dir \cup {Home, NoDir}]
    BY <1>2
  <2> QED BY <2>1 DEF EnvInit
<1>6. {homeGone, broken, overlapped, everBedrock} \subseteq BOOLEAN
  BY DEF EnvInit
<1>7. cwd \in Dir \cup {Home} /\ switches \in 0 .. MaxSwitches /\ dir \in [User -> Dir \cup {NoDir}]
  BY ProcessEnvAssumption DEF EnvInit
<1> QED BY <1>1, <1>2, <1>3, <1>4, <1>5, <1>6, <1>7 DEF EnvTypeOK

-----------------------------------------------------------------------------
(* ProcessEnv: what runs start with and what is left behind. *)

\* Who has begun has a strategy, which a run got from the mode.
UsedSound ==
  \A u \in User :
    /\ progress[u] = "idle" => given[u].cwd = NoDir
    /\ progress[u] # "idle" =>
         IF u \in Turn THEN used[u] = "chat" ELSE used[u] \in {"api-key", "bedrock"}

\* While nobody has overlapped another, who is active found the original environment
\* and nobody has touched what it set.
AloneSound ==
  ~ overlapped =>
    /\ NobodyRuns => env = env0
    /\ \A u \in User : Active(u) =>
         /\ \A v \in User : Active(v) => v = u
         /\ saved[u] = env0
         /\ env = CASE used[u] = "api-key" -> [KEY |-> "key", BEDROCK |-> "none"]
                    [] used[u] = "bedrock" -> [KEY |-> "none", BEDROCK |-> "1"]
                    [] OTHER               -> [env0 EXCEPT !.KEY = ConfigKey]

\* With a key and without Bedrock's strategy KEY stays what it is, and whoever is to
\* put BEDROCK back is active.
KeySound ==
  (~ everBedrock /\ env0.KEY = "key") =>
    /\ env.KEY = "key"
    /\ \A u \in User : Active(u) => saved[u].KEY = "key" /\ used[u] # "bedrock"
    /\ env0.BEDROCK = "none" =>
         env.BEDROCK = "none" /\ \A u \in User : Active(u) => saved[u].BEDROCK = "none"
    /\ env0.BEDROCK = "1" =>
         \/ env.BEDROCK = "1"
         \/ \E u \in User : Active(u) /\ used[u] = "api-key" /\ saved[u].BEDROCK = "1"

\* The change back fails where the directory of the server is gone, and then no other
\* callback runs.
EnvInv == /\ DirectoryKept /\ ChainSound /\ UsedSound
          /\ SessionsAsAsked /\ AloneSound /\ KeySound

LEMMA EnvInvInitially == EnvInit => EnvInv
<1> SUFFICES ASSUME EnvInit PROVE EnvInv
  OBVIOUS
<1>1. \A u \in User : progress[u] = "idle" /\ given[u].cwd = NoDir
  BY DEF EnvInit
<1>2. DirectoryKept /\ ChainSound
  BY DEF EnvInit, DirectoryKept, ChainSound
<1>3. UsedSound
  BY <1>1 DEF UsedSound
<1>4. SessionsAsAsked
  BY <1>1 DEF SessionsAsAsked, User
<1>5. AloneSound
  BY <1>1 DEF EnvInit, AloneSound, Active
<1>6. KeySound
  <2>1. env = env0 /\ env0.BEDROCK \in {"none", "1"}
    BY DEF EnvInit
  <2> QED BY <1>1, <2>1 DEF KeySound, Active
<1> QED BY <1>2, <1>3, <1>4, <1>5, <1>6 DEF EnvInv

\* The end of u, in a callback that fails or after its stream, leaves what is known
\* of those that are still active.
LEMMA PutBackSound ==
  ASSUME EnvTypeOK, EnvInv, NEW u \in User, Active(u),
         progress' = [progress EXCEPT ![u] = "over"], env' = PutBack(u),
         UNCHANGED <<env0, used, saved, overlapped, everBedrock>>
  PROVE  AloneSound' /\ KeySound'
<1> USE DEF EnvTypeOK, Environment
<1>1. progress[u] # "idle" /\ used[u] \in {"chat", "api-key", "bedrock"}
  BY DEF EnvInv, UsedSound, Active
<1>2. \A v \in User : Active(v)' <=> Active(v) /\ v # u
  BY DEF Active
<1>3. AloneSound'
  <2> SUFFICES ASSUME ~ overlapped PROVE env' = env0
    BY <1>2 DEF EnvInv, AloneSound
  <2>1. saved[u] = env0
    BY DEF EnvInv, AloneSound
  <2>2. CASE used[u] = "bedrock"
    BY <2>1, <2>2 DEF PutBack
  <2>3. CASE used[u] = "api-key"
    <3>1. env = [KEY |-> "key", BEDROCK |-> "none"]
      BY <2>3 DEF EnvInv, AloneSound
    <3> QED BY <2>1, <2>3, <3>1 DEF PutBack
  <2>4. CASE used[u] = "chat"
    <3>1. env = [env0 EXCEPT !.KEY = ConfigKey]
      BY <2>4 DEF EnvInv, AloneSound
    <3> QED BY <2>1, <2>4, <3>1 DEF PutBack
  <2> QED BY <1>1, <2>2, <2>3, <2>4
<1>4. KeySound'
  <2> SUFFICES ASSUME ~ everBedrock, env0.KEY = "key" PROVE KeySound'
    BY DEF KeySound
  <2>1. KeySound /\ saved[u].KEY = "key" /\ used[u] \in {"chat", "api-key"}
    BY <1>1 DEF EnvInv, KeySound
  <2>2. CASE used[u] = "chat"
    <3>1. env'.KEY = "key" /\ env'.BEDROCK = env.BEDROCK
      BY <2>1, <2>2 DEF PutBack
    <3> QED BY <1>2, <2>1, <2>2, <3>1 DEF KeySound
  <2>3. CASE used[u] = "api-key" /\ saved[u].BEDROCK = "none"
    <3>1. env'.KEY = "key" /\ env'.BEDROCK = env.BEDROCK
      BY <2>1, <2>3 DEF PutBack
    <3> QED BY <1>2, <2>1, <2>3, <3>1 DEF KeySound
  <2>4. CASE used[u] = "api-key" /\ saved[u].BEDROCK = "1"
    <3>1. env'.KEY = "key" /\ env'.BEDROCK = "1"
      BY <2>1, <2>4 DEF PutBack
    <3>2. env0.BEDROCK # "none"
      BY <2>1, <2>4 DEF KeySound
    <3> QED BY <1>2, <2>1, <2>4, <3>1, <3>2 DEF KeySound
  <2>5. saved[u].BEDROCK \in {"none", "1"}
    OBVIOUS
  <2> QED BY <2>1, <2>2, <2>3, <2>4, <2>5
<1> QED BY <1>3, <1>4

\* A run or a turn begins.
LEMMA BeginSound ==
  ASSUME EnvTypeOK, EnvInv, NEW u \in User, Begin(u) PROVE EnvInv'
<1> DEFINE m == IF u \in Turn THEN "chat" ELSE mode
<1> USE DEF EnvTypeOK, Environment
<1>1. progress[u] = "idle" /\ given[u].cwd = NoDir /\ cwd' = cwd /\ DirectoryKept'
  BY DEF DirectoryKept, EnvInv, UsedSound, Begin
<1>2. /\ progress' = [progress EXCEPT ![u] = IF dir[u] = NoDir THEN "streaming" ELSE "opening"]
      /\ saved' = [saved EXCEPT ![u] = env] /\ used' = [used EXCEPT ![u] = m]
      /\ env' = EnvOf(m) /\ overlapped' = (overlapped \/ ~ NobodyRuns)
      /\ everBedrock' = (everBedrock \/ m = "bedrock")
      /\ UNCHANGED <<env0, dir>>
  BY DEF Begin
<1>3. \A v \in User : Active(v)' <=> Active(v) \/ v = u
  BY <1>2 DEF Active
<1>4. ChainSound'
  <2>1. CASE dir[u] = NoDir
    <3>1. \A i \in 1 .. Len(chain) : chain[i] \in User /\ chain[i] # u
      BY <1>1 DEF EnvInv, ChainSound
    <3>2. UNCHANGED chain
      BY <2>1 DEF Begin
    <3>3. ChainSound /\ \A i \in 1 .. Len(chain) : progress'[chain[i]] = progress[chain[i]]
      BY <1>2, <3>1 DEF EnvInv
    <3> QED BY <1>2, <3>2, <3>3 DEF ChainSound
  <2>2. CASE dir[u] # NoDir
    <3>1. chain' = Append(chain, u)
      BY <2>2 DEF Begin
    <3>2. /\ Len(chain') = Len(chain) + 1 /\ Len(chain) \in Nat
          /\ chain'[Len(chain) + 1] = u
          /\ \A i \in 1 .. Len(chain) :
               chain'[i] = chain[i] /\ chain[i] \in User /\ chain[i] # u
      BY <1>1, <3>1 DEF EnvInv, ChainSound
    <3>3. \A i \in 1 .. Len(chain') : progress'[chain'[i]] = "opening" /\ dir'[chain'[i]] # NoDir
      BY <1>2, <2>2, <3>2 DEF EnvInv, ChainSound
    <3>4. \A i, j \in 1 .. Len(chain') : chain'[i] = chain'[j] => i = j
      BY <3>2 DEF EnvInv, ChainSound
    <3> QED BY <3>3, <3>4 DEF ChainSound
  <2> QED BY <2>1, <2>2
<1>5. \A v \in User : v # u => given'[v] = given[v] /\ used'[v] = used[v]
  BY <1>2 DEF Begin
<1>6. IF dir[u] = NoDir THEN given'[u] = [env |-> EnvOf(m), cwd |-> cwd] ELSE given' = given
  BY <1>1 DEF Begin
<1>7. UsedSound'
  BY <1>2, <1>5 DEF EnvInv, UsedSound, User
<1>8. SessionsAsAsked'
  <2> SUFFICES ASSUME NEW r \in Run, given'[r].cwd # NoDir
               PROVE /\ given'[r].env = EnvOf(used[r])'
                     /\ IF dir[r] = NoDir THEN given'[r].cwd \in {Home, cwd'}
                        ELSE given'[r].cwd = dir[r]
    BY <1>2 DEF SessionsAsAsked
  <2>1. CASE r = u
    <3>1. m \in {"api-key", "bedrock"} /\ used'[r] = m
      BY <1>2, <2>1, ProcessEnvAssumption DEF User
    <3>2. EnvOf(used[r])' = EnvOf(m)
      BY <3>1 DEF EnvOf
    <3> QED BY <1>1, <1>6, <2>1, <3>2
  <2>2. CASE r # u
    <3>1. r \in User /\ r \notin Turn
      BY ProcessEnvAssumption DEF User
    <3>2. given[r].cwd # NoDir /\ used[r] \in {"api-key", "bedrock"}
      BY <1>5, <2>2, <3>1 DEF EnvInv, UsedSound
    <3>3. EnvOf(used[r])' = EnvOf(used[r])
      BY <1>5, <2>2, <3>1, <3>2 DEF EnvOf
    <3> QED BY <1>1, <1>2, <1>5, <2>2, <3>1, <3>2, <3>3 DEF EnvInv, SessionsAsAsked
  <2> QED BY <2>1, <2>2
<1>9. m \in {"chat", "api-key", "bedrock"}
  OBVIOUS
<1>10. AloneSound'
  <2> SUFFICES ASSUME ~ overlapped' PROVE AloneSound'
    BY DEF AloneSound
  <2>1. NobodyRuns /\ env = env0
    BY <1>2 DEF EnvInv, AloneSound
  <2>2. \A v \in User : Active(v)' <=> v = u
    BY <1>3, <2>1 DEF NobodyRuns
  <2>3. saved'[u] = env0 /\ used'[u] = m
    BY <1>2, <2>1
  <2>4. env' = CASE m = "api-key" -> [KEY |-> "key", BEDROCK |-> "none"]
                 [] m = "bedrock" -> [KEY |-> "none", BEDROCK |-> "1"]
                 [] OTHER         -> [env0 EXCEPT !.KEY = ConfigKey]
    BY <1>2, <2>1 DEF EnvOf
  <2>5. ConfigKey' = ConfigKey /\ ~ NobodyRuns'
    BY <1>2, <2>2 DEF ConfigKey, NobodyRuns
  <2> QED BY <1>2, <2>2, <2>3, <2>4, <2>5 DEF AloneSound
<1>11. KeySound'
  <2> SUFFICES ASSUME ~ everBedrock', env0.KEY = "key" PROVE KeySound'
    BY <1>2 DEF KeySound
  <2>1. m \in {"chat", "api-key"} /\ ~ everBedrock /\ KeySound
    BY <1>2, <1>9 DEF EnvInv
  <2>2. env'.KEY = "key" /\ env.KEY = "key"
    BY <1>2, <2>1 DEF EnvOf, KeySound, ConfigKey
  <2>3. \A v \in User : Active(v)' => saved'[v].KEY = "key" /\ used'[v] # "bedrock"
    BY <1>2, <1>3, <2>1, <2>2 DEF KeySound
  <2>4. env'.BEDROCK = IF m = "chat" THEN env.BEDROCK ELSE "none"
    BY <1>2, <2>1 DEF EnvOf
  <2>5. env0.BEDROCK = "none" =>
          env'.BEDROCK = "none" /\ \A v \in User : Active(v)' => saved'[v].BEDROCK = "none"
    BY <1>2, <1>3, <2>1, <2>4 DEF KeySound
  <2>6. ASSUME env0.BEDROCK = "1"
        PROVE  \/ env'.BEDROCK = "1"
               \/ \E v \in User : Active(v)' /\ used'[v] = "api-key" /\ saved'[v].BEDROCK = "1"
    <3>1. CASE env.BEDROCK = "1"
      BY <1>2, <1>3, <2>1, <2>4, <3>1
    <3>2. CASE env.BEDROCK # "1"
      <4>1. PICK v \in User : Active(v) /\ used[v] = "api-key" /\ saved[v].BEDROCK = "1"
        BY <2>1, <2>6, <3>2 DEF KeySound
      <4>2. v # u
        BY <1>1, <4>1 DEF Active
      <4> QED BY <1>2, <1>3, <4>1, <4>2
    <3> QED BY <3>1, <3>2
  <2> QED BY <1>2, <2>2, <2>3, <2>5, <2>6 DEF KeySound
<1> QED BY <1>1, <1>4, <1>7, <1>8, <1>10, <1>11 DEF EnvInv

\* A step that leaves runs, turns and what they keep alone leaves all else as well.
LEMMA OthersSound ==
  ASSUME EnvInv, UNCHANGED <<env, env0, progress, used, saved, dir, given, chain, cwd,
                             overlapped, everBedrock>>,
         broken => broken', homeGone => homeGone'
  PROVE  EnvInv'
BY DEF EnvInv, DirectoryKept, ChainSound, UsedSound, SessionsAsAsked, AloneSound, KeySound,
       NobodyRuns, Active, EnvOf, ConfigKey

\* The callback at the head of the chain.
LEMMA ConstructSound ==
  ASSUME EnvTypeOK, EnvInv, NEW failed \in BOOLEAN, Construct(failed) PROVE EnvInv'
<1> DEFINE u == Head(chain)
<1>1. /\ u \in User /\ u = chain[1] /\ 1 \in 1 .. Len(chain) /\ Len(chain) \in Nat
      /\ Len(Tail(chain)) = Len(chain) - 1
      /\ \A i \in 1 .. Len(Tail(chain)) :
           Tail(chain)[i] = chain[i + 1] /\ i + 1 \in 1 .. Len(chain)
  BY RestOfChain DEF Construct, ChainRuns
<1>2. progress[u] = "opening" /\ dir[u] # NoDir /\ Active(u)
  BY <1>1 DEF EnvInv, ChainSound, Active
<1>3. /\ chain' = Tail(chain) /\ cwd' = Home /\ cwd = Home /\ DirectoryKept'
      /\ UNCHANGED <<env0, used, saved, dir, overlapped, everBedrock>>
  BY DEF EnvInv, DirectoryKept, Construct, ChainRuns, DirAfter
<1>4. progress' = [progress EXCEPT ![u] = IF failed THEN "over" ELSE "streaming"]
  BY DEF Construct
<1>5. ChainSound'
  <2>1. \A i \in 1 .. Len(chain') :
          /\ chain'[i] = chain[i + 1] /\ i + 1 \in 1 .. Len(chain) /\ chain[i + 1] # u
          /\ chain[i + 1] \in User
    BY <1>1, <1>3 DEF EnvInv, ChainSound, EnvTypeOK
  <2>2. \A i \in 1 .. Len(chain') : progress'[chain'[i]] = "opening" /\ dir'[chain'[i]] # NoDir
    <3> SUFFICES ASSUME NEW i \in 1 .. Len(chain')
                 PROVE  progress'[chain[i + 1]] = "opening" /\ dir[chain[i + 1]] # NoDir
      BY <1>3, <2>1
    <3>1. progress[chain[i + 1]] = "opening" /\ dir[chain[i + 1]] # NoDir
      BY <2>1 DEF EnvInv, ChainSound
    <3> QED BY <1>4, <2>1, <3>1 DEF EnvTypeOK
  <2>3. \A i, j \in 1 .. Len(chain') : chain'[i] = chain'[j] => i = j
    <3> SUFFICES ASSUME NEW i \in 1 .. Len(chain'), NEW j \in 1 .. Len(chain'),
                        chain'[i] = chain'[j]
                 PROVE i = j
      OBVIOUS
    <3>1. i + 1 = j + 1
      BY <2>1 DEF EnvInv, ChainSound
    <3> QED BY <3>1
  <2> QED BY <2>2, <2>3 DEF ChainSound
<1>6. /\ \A v \in User : v # u => given'[v] = given[v]
      /\ failed => given' = given
      /\ ~ failed => given'[u] = [env |-> SessionEnv(u, env), cwd |-> dir[u]] /\ env' = env
  BY <1>1 DEF Construct, Session, EnvTypeOK
<1>7. UsedSound'
  BY <1>1, <1>2, <1>3, <1>4, <1>6 DEF EnvInv, UsedSound, EnvTypeOK
<1>8. SessionsAsAsked'
  <2> SUFFICES ASSUME NEW r \in Run, given'[r].cwd # NoDir
               PROVE /\ given'[r].env = EnvOf(used[r])'
                     /\ IF dir[r] = NoDir THEN given'[r].cwd \in {Home, cwd'}
                        ELSE given'[r].cwd = dir[r]
    BY <1>3 DEF SessionsAsAsked
  <2>1. r \in User /\ r \notin Turn
    BY ProcessEnvAssumption DEF User
  <2>2. CASE r = u /\ ~ failed
    <3>1. used[r] \in {"api-key", "bedrock"}
      BY <1>2, <2>1, <2>2 DEF EnvInv, UsedSound
    <3>2. EnvOf(used[r])' = EnvOf(used[r])
      BY <1>3, <3>1 DEF EnvOf
    <3> QED BY <1>2, <1>6, <2>1, <2>2, <3>2 DEF SessionEnv
  <2>3. CASE r # u \/ failed
    <3>1. given'[r] = given[r]
      BY <1>6, <2>1, <2>3
    <3>2. used[r] \in {"api-key", "bedrock"}
      BY <2>1, <3>1 DEF EnvInv, UsedSound
    <3>3. EnvOf(used[r])' = EnvOf(used[r])
      BY <1>3, <3>2 DEF EnvOf
    <3> QED BY <1>3, <3>1, <3>3 DEF EnvInv, SessionsAsAsked
  <2> QED BY <2>2, <2>3
<1>9. AloneSound' /\ KeySound'
  <2>1. CASE failed
    BY <1>1, <1>2, <1>3, <1>4, <2>1, PutBackSound DEF Construct
  <2>2. CASE ~ failed
    <3>1. \A v \in User : Active(v)' <=> Active(v)
      BY <1>1, <1>2, <1>4, <2>2 DEF Active, EnvTypeOK
    <3> QED BY <1>3, <1>6, <2>2, <3>1 DEF EnvInv, AloneSound, KeySound, NobodyRuns, ConfigKey
  <2> QED BY <2>1, <2>2
<1> QED BY <1>3, <1>5, <1>7, <1>8, <1>9 DEF EnvInv

\* The end of a stream.
LEMMA FinishSound ==
  ASSUME EnvTypeOK, EnvInv, NEW u \in User, Finish(u) PROVE EnvInv'
<1>1. /\ progress[u] = "streaming" /\ progress' = [progress EXCEPT ![u] = "over"]
      /\ env' = PutBack(u)
      /\ UNCHANGED <<env0, used, saved, dir, given, chain, cwd, overlapped, everBedrock>>
      /\ UNCHANGED <<broken, homeGone>>
  BY DEF Finish
<1>2. AloneSound' /\ KeySound'
  BY <1>1, PutBackSound DEF Active
<1>3. ChainSound'
  <2>1. \A i \in 1 .. Len(chain) : chain[i] \in User /\ chain[i] # u
    BY <1>1 DEF EnvInv, ChainSound, EnvTypeOK
  <2> QED BY <1>1, <2>1 DEF EnvInv, ChainSound, EnvTypeOK
<1>4. UsedSound'
  BY <1>1 DEF EnvInv, UsedSound, EnvTypeOK
<1>5. SessionsAsAsked'
  <2> SUFFICES ASSUME NEW r \in Run, given[r].cwd # NoDir
               PROVE EnvOf(used[r])' = EnvOf(used[r])
    BY <1>1 DEF EnvInv, SessionsAsAsked
  <2>1. used[r] \in {"api-key", "bedrock"}
    BY ProcessEnvAssumption DEF EnvInv, UsedSound, User
  <2> QED BY <1>1, <2>1 DEF EnvOf
<1>6. DirectoryKept'
  BY <1>1 DEF EnvInv, DirectoryKept
<1> QED BY <1>1, <1>2, <1>3, <1>4, <1>5, <1>6 DEF EnvInv

\* The callback that cannot go back: whoever waits keeps waiting.
LEMMA ThrowsSound ==
  ASSUME EnvTypeOK, EnvInv, ConstructThrows PROVE EnvInv'
<1> DEFINE u == Head(chain)
<1>1. u \in User /\ u = chain[1] /\ 1 \in 1 .. Len(chain)
  BY RestOfChain DEF ConstructThrows
<1>2. progress[u] = "opening" /\ dir[u] # NoDir
  BY <1>1 DEF EnvInv, ChainSound
<1>3. /\ UNCHANGED <<env, env0, progress, used, saved, dir, chain, overlapped, everBedrock>>
      /\ \A v \in User : v # u => given'[v] = given[v]
      /\ given'[u] = given[u] \/ given'[u] = [env |-> SessionEnv(u, env), cwd |-> dir[u]]
      /\ cwd = Home /\ broken' /\ homeGone'
  BY <1>1 DEF ConstructThrows, Session, EnvTypeOK, EnvInv, DirectoryKept
<1>4. ChainSound' /\ AloneSound' /\ KeySound' /\ DirectoryKept'
  BY <1>3 DEF EnvInv, ChainSound, AloneSound, KeySound, NobodyRuns, Active, ConfigKey,
              DirectoryKept
<1>5. UsedSound'
  BY <1>1, <1>2, <1>3 DEF EnvInv, UsedSound
<1>6. SessionsAsAsked'
  <2> SUFFICES ASSUME NEW r \in Run, given'[r].cwd # NoDir
               PROVE /\ given'[r].env = EnvOf(used[r])'
                     /\ IF dir[r] = NoDir THEN given'[r].cwd \in {Home, cwd'}
                        ELSE given'[r].cwd = dir[r]
    BY <1>3 DEF SessionsAsAsked
  <2>1. r \in User /\ r \notin Turn
    BY ProcessEnvAssumption DEF User
  <2>2. used[r] \in {"api-key", "bedrock"}
    BY <1>2, <1>3, <2>1 DEF EnvInv, UsedSound
  <2>3. EnvOf(used[r])' = EnvOf(used[r])
    BY <1>3, <2>2 DEF EnvOf
  <2>4. CASE given'[r] = given[r]
    BY <1>3, <2>3, <2>4 DEF EnvInv, SessionsAsAsked
  <2>5. CASE r = u /\ given'[r] = [env |-> SessionEnv(u, env), cwd |-> dir[u]]
    BY <1>2, <2>1, <2>3, <2>5 DEF SessionEnv
  <2> QED BY <1>3, <2>1, <2>4, <2>5
<1> QED BY <1>4, <1>5, <1>6 DEF EnvInv

LEMMA EnvInvKept ==
  ASSUME EnvTypeOK, EnvInv, [EnvNext]_envVars PROVE EnvInv'
<1>1. ASSUME NEW m \in {"api-key", "bedrock"}, SwitchMode(m) PROVE EnvInv'
  BY <1>1, OthersSound DEF SwitchMode
<1>3. CASE HomeRemoved
  BY <1>3, OthersSound DEF HomeRemoved
<1>4. CASE UNCHANGED envVars
  BY <1>4, OthersSound DEF envVars
<1> QED BY <1>1, <1>3, <1>4, BeginSound, ConstructSound, ThrowsSound, FinishSound DEF EnvNext

LEMMA EnvInvariant == EnvSpec => [](EnvTypeOK /\ EnvInv)
<1>1. EnvTypeOK /\ EnvInv /\ [EnvNext]_envVars => EnvTypeOK' /\ EnvInv'
  BY EnvTypesKept, EnvInvKept DEF EnvInv
<1> QED BY <1>1, EnvTypesInitially, EnvInvInitially, PTL DEF EnvSpec

\* The variables of the process, and what runs and turns keep of them, have their
\* types.
THEOREM EnvironmentTyped == EnvSpec => []EnvTypeOK
BY EnvInvariant, PTL

\* However runs, turns, failures and changes of the mode interleave, a run's session
\* gets its own credentials and the directory it asks for, the process is in another
\* directory than its own only when a callback could not go back, and once all are over
\* the environment is the original one but for the overlaps that are named.
THEOREM EnvironmentIsKept == EnvSpec => []EnvironmentKept
<1>1. EnvTypeOK /\ EnvInv => EnvironmentKept
  <2> SUFFICES ASSUME EnvTypeOK, EnvInv, NobodyRuns, ~ everBedrock, env0.KEY = "key"
               PROVE  env = env0
    BY DEF EnvInv, EnvironmentKept, RestoredUnlessMixed, AloneSound
  <2>1. env.KEY = env0.KEY /\ env.BEDROCK = env0.BEDROCK
    BY DEF EnvInv, KeySound, NobodyRuns, EnvTypeOK
  <2> QED BY <2>1 DEF EnvTypeOK, Environment
<1> QED BY <1>1, EnvInvariant, PTL

-----------------------------------------------------------------------------
(* AgentRuns: types. *)

LEMMA MaxTurnsIsNat ==
  MaxTurns \in Nat /\ MaxEvents \in Nat /\ MaxAttempts \in Nat /\ 0 < MaxAttempts
BY AgentRunsAssumption

\* A run is only queued while its task has attempts left.
AttemptsLeft == \A t \in AgentTask : run[t] = "queued" => attempts[t] < MaxAttempts

AgentTypes == AgentsTypeOK /\ AttemptsLeft

LEMMA AgentTypesInitially == AgentsInit => AgentTypes
BY MaxTurnsIsNat, AgentRunsAssumption
   DEF AgentsInit, AgentTypes, AgentsTypeOK, AttemptsLeft, RunPhases

\* The end of a run keeps the types, with what the end of an SDK's import changes.
LEMMA EndRunTyped ==
  ASSUME AgentTypes, NEW t \in AgentTask, NEW result \in {"success", "failure"},
         EndRun(t, result), UNCHANGED <<iteration, late>>,
         sdk' \in [Kind -> {"unused", "loaded", "failed"}], sdkFailures' \in 0 .. MaxSdkFailures
  PROVE  AgentTypes'
<1> USE DEF AgentTypes, AgentsTypeOK, AttemptsLeft, RunPhases
<1>1. CASE /\ run' = [run EXCEPT ![t] = "none"]
           /\ taskStatus' = [taskStatus EXCEPT ![t] =
                               IF result = "success" THEN "completed" ELSE "failed"]
  BY <1>1 DEF EndRun
<1>2. CASE Retries(t) /\ run' = [run EXCEPT ![t] = "queued"] /\ UNCHANGED taskStatus
  BY <1>2 DEF EndRun, Retries
<1> QED BY <1>1, <1>2 DEF EndRun

\* A run that enters an adapter keeps them.
LEMMA EnterTyped ==
  ASSUME AgentTypes, NEW t \in AgentTask, NEW a \in Nat, Enter(t, a),
         kept' \in [Kind -> Nat], adapters' \in [Kind -> Nat],
         UNCHANGED <<taskStatus, cancel, attempts, outcome, sdk, sdkFailures, early>>
  PROVE  AgentTypes'
BY DEF AgentTypes, AgentsTypeOK, AttemptsLeft, RunPhases, InAdapter, Enter

LEMMA KindIsKind == \A t : KindOf(t) \in Kind
BY DEF KindOf, Kind

LEMMA NewAdapterTyped ==
  ASSUME AgentTypes, NEW k \in Kind, NewAdapter(k)
  PROVE  kept' \in [Kind -> Nat] /\ adapters' \in [Kind -> Nat] /\ adapters[k] + 1 \in Nat
BY DEF AgentTypes, AgentsTypeOK, NewAdapter

\* A step that moves a run within its adapter, or into the import of one.
LEMMA MoveTyped ==
  ASSUME AgentTypes, NEW t \in AgentTask, NEW next \in AwaitsAdapter \cup InAdapter,
         run' = [run EXCEPT ![t] = next],
         iteration' \in [AgentTask -> Nat], late' \in [AgentTask -> Nat],
         sdk' \in [Kind -> {"unused", "loaded", "failed"}],
         UNCHANGED <<taskStatus, home, cancel, kept, adapters, registry, stopping, attempts,
                     outcome, sdkFailures, crowded, early>>
  PROVE  AgentTypes'
BY DEF AgentTypes, AgentsTypeOK, AttemptsLeft, RunPhases, AwaitsAdapter, InAdapter

LEMMA NextTurnTyped ==
  ASSUME AgentTypes, NEW t \in AgentTask, NextTurn(t)
  PROVE  iteration' \in [AgentTask -> Nat] /\ late' \in [AgentTask -> Nat]
BY DEF AgentTypes, AgentsTypeOK, NextTurn

LEMMA AbortTyped ==
  ASSUME AgentTypes, NEW t \in AgentTask, NEW a, Abort(t, a)
  PROVE  registry' \subseteq AgentTask \X Nat /\ stopping' \subseteq AgentTask
BY DEF AgentTypes, AgentsTypeOK, Abort

LEMMA SetCancelledTyped ==
  ASSUME AgentTypes, NEW t \in AgentTask, SetCancelled(t)
  PROVE  /\ early' \subseteq AgentTask
         /\ taskStatus' \in [AgentTask -> {"pending", "running", "completed", "failed",
                                          "cancelled"}]
BY DEF AgentTypes, AgentsTypeOK, SetCancelled

LEMMA AgentTypesKept ==
  ASSUME AgentTypes, [AgentsNext]_agentVars PROVE AgentTypes'
<1>1. ASSUME NEW t \in AgentTask, StartTask(t) PROVE AgentTypes'
  <2>1. attempts[t] + 1 \in 0 .. MaxAttempts
    BY <1>1, MaxTurnsIsNat DEF StartTask, AgentTypes, AgentsTypeOK, AttemptsLeft
  <2> QED BY <1>1, <2>1
        DEF StartTask, AgentTypes, AgentsTypeOK, AttemptsLeft, RunPhases, AwaitsAdapter
<1>2. ASSUME NEW t \in AgentTask, UseAdapter(t) PROVE AgentTypes'
  <2>1. kept[KindOf(t)] \in Nat
    BY KindIsKind DEF AgentTypes, AgentsTypeOK
  <2>2. kept' \in [Kind -> Nat] /\ adapters' \in [Kind -> Nat]
    BY <1>2 DEF UseAdapter, AgentTypes, AgentsTypeOK
  <2> QED BY <1>2, <2>1, <2>2, EnterTyped DEF UseAdapter
<1>3. ASSUME NEW t \in AgentTask, AwaitAdapter(t) PROVE AgentTypes'
  <2>1. "importing" \in AwaitsAdapter \cup InAdapter
    BY DEF AwaitsAdapter
  <2> QED BY <1>3, <2>1, MoveTyped DEF AwaitAdapter, AgentTypes, AgentsTypeOK
<1>4. ASSUME NEW t \in AgentTask, AdapterImported(t) PROVE AgentTypes'
  BY <1>4, NewAdapterTyped, KindIsKind, EnterTyped DEF AdapterImported
<1>5. ASSUME NEW t \in AgentTask, SdkReady(t) PROVE AgentTypes'
  <2>1. "turn" \in AwaitsAdapter \cup InAdapter
    BY DEF InAdapter
  <2> QED BY <1>5, <2>1, MoveTyped DEF SdkReady, AgentTypes, AgentsTypeOK
<1>6. ASSUME NEW t \in AgentTask, SdkFails(t) PROVE AgentTypes'
  <2>1. sdk' \in [Kind -> {"unused", "loaded", "failed"}]
    BY <1>6 DEF SdkFails, AgentTypes, AgentsTypeOK
  <2>2. sdkFailures \in 0 .. MaxSdkFailures /\ MaxSdkFailures \in Nat
    BY AgentRunsAssumption DEF AgentTypes, AgentsTypeOK
  <2>3. sdkFailures' \in 0 .. MaxSdkFailures
    BY <1>6, <2>2 DEF SdkFails
  <2> QED BY <1>6, <2>1, <2>3, EndRunTyped DEF SdkFails
<1>7. ASSUME NEW t \in AgentTask, CodexEvent(t) PROVE AgentTypes'
  <2>1. "generating" \in AwaitsAdapter \cup InAdapter
    BY DEF InAdapter
  <2> QED BY <1>7, <2>1, MoveTyped, NextTurnTyped DEF CodexEvent, AgentTypes, AgentsTypeOK
<1>8. ASSUME NEW t \in AgentTask, CodexChecked(t) PROVE AgentTypes'
  <2>1. "turn" \in AwaitsAdapter \cup InAdapter
    BY DEF InAdapter
  <2>2. CASE Stopped(t)
    BY <1>8, <2>2, EndRunTyped DEF CodexChecked, AgentTypes, AgentsTypeOK
  <2>3. CASE ~ Stopped(t)
    BY <1>8, <2>1, <2>3, MoveTyped DEF CodexChecked, AgentTypes, AgentsTypeOK
  <2> QED BY <2>2, <2>3
<1>9. ASSUME NEW t \in AgentTask, CodexEnds(t) PROVE AgentTypes'
  BY <1>9, EndRunTyped DEF CodexEnds, AgentTypes, AgentsTypeOK
<1>10. ASSUME NEW t \in AgentTask, GeminiAsks(t) PROVE AgentTypes'
  <2>1. "generating" \in AwaitsAdapter \cup InAdapter
    BY DEF InAdapter
  <2>2. CASE Stopped(t)
    BY <1>10, <2>2, EndRunTyped DEF GeminiAsks, AgentTypes, AgentsTypeOK
  <2>3. CASE ~ Stopped(t)
    BY <1>10, <2>1, <2>3, MoveTyped, NextTurnTyped DEF GeminiAsks, AgentTypes, AgentsTypeOK
  <2> QED BY <2>2, <2>3
<1>11. ASSUME NEW t \in AgentTask, NEW calls \in BOOLEAN, GeminiAnswers(t, calls)
       PROVE  AgentTypes'
  <2> DEFINE next == IF calls THEN "turn" ELSE "closing"
  <2>1. next \in AwaitsAdapter \cup InAdapter
    BY DEF InAdapter
  <2>2. late' \in [AgentTask -> Nat] /\ iteration' \in [AgentTask -> Nat]
    BY <1>11 DEF GeminiAnswers, AgentTypes, AgentsTypeOK
  <2> QED BY <1>11, <2>1, <2>2, MoveTyped DEF GeminiAnswers, AgentTypes, AgentsTypeOK
<1>12. ASSUME NEW t \in AgentTask, GeminiThrows(t) PROVE AgentTypes'
  BY <1>12, EndRunTyped DEF GeminiThrows, AgentTypes, AgentsTypeOK
<1>13. ASSUME NEW t \in AgentTask, GeminiChecked(t) PROVE AgentTypes'
  <2>1. "reporting" \in AwaitsAdapter \cup InAdapter
    BY DEF InAdapter
  <2>2. CASE Stopped(t)
    BY <1>13, <2>2, EndRunTyped DEF GeminiChecked, AgentTypes, AgentsTypeOK
  <2>3. CASE ~ Stopped(t)
    BY <1>13, <2>1, <2>3, MoveTyped DEF GeminiChecked, AgentTypes, AgentsTypeOK
  <2> QED BY <2>2, <2>3
<1>14. ASSUME NEW t \in AgentTask, GeminiReports(t) PROVE AgentTypes'
  BY <1>14, EndRunTyped DEF GeminiReports, AgentTypes, AgentsTypeOK
<1>15. ASSUME NEW t \in AgentTask, CancelTask(t) PROVE AgentTypes'
  <2>1. registry' \subseteq AgentTask \X Nat /\ stopping' \subseteq AgentTask
    BY <1>15, AbortTyped DEF CancelTask, AgentTypes, AgentsTypeOK
  <2>2. /\ cancel' \in [AgentTask -> BOOLEAN] /\ early' \subseteq AgentTask
        /\ taskStatus' \in [AgentTask -> {"pending", "running", "completed", "failed",
                                          "cancelled"}]
    BY <1>15, SetCancelledTyped DEF CancelTask, AgentTypes, AgentsTypeOK
  <2> QED BY <1>15, <2>1, <2>2 DEF CancelTask, AgentTypes, AgentsTypeOK, AttemptsLeft
<1>16. ASSUME NEW t \in AgentTask, CancelImported(t) PROVE AgentTypes'
  <2>1. registry' \subseteq AgentTask \X Nat /\ stopping' \subseteq AgentTask
    BY <1>16, AbortTyped DEF CancelImported
  <2>2. kept' \in [Kind -> Nat] /\ adapters' \in [Kind -> Nat]
    BY <1>16, NewAdapterTyped, KindIsKind DEF CancelImported
  <2>3. /\ early' \subseteq AgentTask
        /\ taskStatus' \in [AgentTask -> {"pending", "running", "completed", "failed",
                                          "cancelled"}]
    BY <1>16, SetCancelledTyped DEF CancelImported
  <2> QED BY <1>16, <2>1, <2>2, <2>3 DEF CancelImported, AgentTypes, AgentsTypeOK, AttemptsLeft
<1>17. CASE UNCHANGED agentVars
  BY <1>17 DEF agentVars, AgentTypes, AgentsTypeOK, AttemptsLeft
<1> QED BY <1>1, <1>2, <1>3, <1>4, <1>5, <1>6, <1>7, <1>8, <1>9, <1>10, <1>11, <1>12, <1>13,
           <1>14, <1>15, <1>16, <1>17 DEF AgentsNext

\* The state of tasks, runs and adapters has its types; no task runs more often than
\* its attempts allow.
THEOREM AgentsTyped == AgentsSpec => []AgentsTypeOK
<1>1. AgentTypes => AgentsTypeOK
  BY DEF AgentTypes
<1> QED BY <1>1, AgentTypesInitially, AgentTypesKept, PTL DEF AgentsSpec

-----------------------------------------------------------------------------
(* AgentRuns: the registries. *)

\* The queue has the latest adapter, a run is in one that was created, and the adapters
\* know the runs that are in them and were not told to stop.
Registered ==
  /\ kept = adapters
  /\ \A t \in AgentTask : run[t] \in InAdapter => home[t] \in 1 .. adapters[KindOf(t)]
  /\ \A t \in AgentTask, a \in Nat :
       <<t, a>> \in registry <=> (run[t] \in InAdapter /\ home[t] = a /\ t \notin stopping)

\* Whoever is in an adapter while others await theirs, or is in another than the latest,
\* entered it while others awaited theirs.
Strays ==
  \A t \in AgentTask :
    run[t] \in InAdapter /\ (Awaited(t) \/ home[t] # kept[KindOf(t)]) => t \in crowded

RegistryInv == Registered /\ Strays

LEMMA RegistryInitially == AgentsInit => RegistryInv
BY DEF AgentsInit, RegistryInv, Registered, Strays, InAdapter

\* A step by which nobody enters or leaves an adapter, nobody begins to wait for one
\* after the first was created, and no adapter is created.
LEMMA RegistryUntouched ==
  ASSUME AgentTypes, RegistryInv, UNCHANGED <<home, kept, adapters, registry, stopping, crowded>>,
         \A t \in AgentTask : run'[t] \in InAdapter <=> run[t] \in InAdapter,
         \A t \in AgentTask :
           (cancel'[t] /\ ~ cancel[t]) \/ (run'[t] = "importing" /\ run[t] # "importing")
             => kept[KindOf(t)] = 0
  PROVE  RegistryInv'
<1>1. Registered'
  BY DEF RegistryInv, Registered
<1>2. Strays'
  <2> SUFFICES ASSUME NEW t \in AgentTask, run'[t] \in InAdapter,
                      Awaited(t)' \/ home'[t] # kept'[KindOf(t)]
               PROVE  t \in crowded
    BY DEF Strays
  <2>1. run[t] \in InAdapter /\ home[t] \in 1 .. adapters[KindOf(t)]
    BY DEF RegistryInv, Registered
  <2>2. kept[KindOf(t)] # 0 /\ kept[KindOf(t)] \in Nat
    BY <2>1, KindIsKind DEF RegistryInv, Registered, AgentTypes, AgentsTypeOK
  <2>3. Awaited(t)' => Awaited(t)
    BY <2>2 DEF Awaited
  <2> QED BY <2>1, <2>3 DEF RegistryInv, Strays
<1> QED BY <1>1, <1>2 DEF RegistryInv

\* The end of a run.
LEMMA RegistryEndRun ==
  ASSUME AgentTypes, RegistryInv, NEW t \in AgentTask, NEW result, run[t] \in InAdapter,
         EndRun(t, result)
  PROVE  RegistryInv'
<1>1. /\ run'[t] \notin InAdapter /\ run'[t] # "importing"
      /\ \A s \in AgentTask : s # t => run'[s] = run[s] /\ home'[s] = home[s]
      /\ registry' = registry \ {<<t, home[t]>>}
      /\ UNCHANGED <<cancel, kept, adapters, stopping, crowded>>
  BY DEF EndRun, AgentTypes, AgentsTypeOK, InAdapter
<1>2. Registered'
  <2>1. \A s \in AgentTask, a \in Nat :
          <<s, a>> \in registry' <=> (run'[s] \in InAdapter /\ home'[s] = a /\ s \notin stopping')
    BY <1>1 DEF RegistryInv, Registered
  <2>2. \A s \in AgentTask : run'[s] \in InAdapter => home'[s] \in 1 .. adapters'[KindOf(s)]
    BY <1>1 DEF RegistryInv, Registered
  <2> QED BY <1>1, <2>1, <2>2 DEF RegistryInv, Registered
<1>3. \A s \in AgentTask : s # t => (Awaited(s)' => Awaited(s))
  BY <1>1 DEF Awaited
<1>4. Strays'
  BY <1>1, <1>3 DEF RegistryInv, Strays
<1> QED BY <1>2, <1>4 DEF RegistryInv

\* A run enters the latest adapter, which may have been created for it.
LEMMA RegistryEnter ==
  ASSUME AgentTypes, RegistryInv, NEW t \in AgentTask, run[t] \in AwaitsAdapter,
         kept' = adapters', adapters' \in [Kind -> Nat], Enter(t, adapters'[KindOf(t)]),
         adapters'[KindOf(t)] > 0, UNCHANGED cancel,
         \A k \in Kind : adapters'[k] >= adapters[k],
         \A k \in Kind : adapters'[k] # adapters[k] => k = KindOf(t) /\ run[t] = "importing"
  PROVE  RegistryInv'
<1> DEFINE latest == adapters'[KindOf(t)]
<1>1. /\ run' = [run EXCEPT ![t] = "loading"] /\ home' = [home EXCEPT ![t] = latest]
      /\ registry' = registry \cup {<<t, latest>>} /\ stopping' = stopping \ {t}
      /\ crowded' = IF Awaited(t) THEN crowded \cup {t} ELSE crowded \ {t}
  BY DEF Enter
<1>2. run[t] \notin InAdapter /\ "loading" \in InAdapter /\ latest \in Nat
  BY KindIsKind DEF AwaitsAdapter, InAdapter
<1>3. Registered'
  <2>1. \A s \in AgentTask : run'[s] \in InAdapter => home'[s] \in 1 .. adapters'[KindOf(s)]
    <3> SUFFICES ASSUME NEW s \in AgentTask, run'[s] \in InAdapter
                 PROVE  home'[s] \in 1 .. adapters'[KindOf(s)]
      OBVIOUS
    <3>1. CASE s = t
      BY <1>1, <1>2, <3>1 DEF AgentTypes, AgentsTypeOK
    <3>2. CASE s # t
      <4>1. home'[s] = home[s] /\ home[s] \in 1 .. adapters[KindOf(s)]
        BY <1>1, <3>2 DEF RegistryInv, Registered, AgentTypes, AgentsTypeOK
      <4>2. adapters[KindOf(s)] \in Nat /\ adapters'[KindOf(s)] \in Nat
            /\ adapters'[KindOf(s)] >= adapters[KindOf(s)]
        BY KindIsKind DEF AgentTypes, AgentsTypeOK
      <4> QED BY <4>1, <4>2
    <3> QED BY <3>1, <3>2
  <2>2. \A s \in AgentTask, a \in Nat :
          <<s, a>> \in registry' <=> (run'[s] \in InAdapter /\ home'[s] = a /\ s \notin stopping')
    <3> SUFFICES ASSUME NEW s \in AgentTask, NEW a \in Nat
                 PROVE  <<s, a>> \in registry' <=>
                          (run'[s] \in InAdapter /\ home'[s] = a /\ s \notin stopping')
      OBVIOUS
    <3>1. CASE s = t
      BY <1>1, <1>2, <3>1 DEF RegistryInv, Registered, AgentTypes, AgentsTypeOK
    <3>2. CASE s # t
      BY <1>1, <3>2 DEF RegistryInv, Registered, AgentTypes, AgentsTypeOK
    <3> QED BY <3>1, <3>2
  <2> QED BY <2>1, <2>2 DEF Registered
<1>4. Strays'
  <2> SUFFICES ASSUME NEW s \in AgentTask, run'[s] \in InAdapter,
                      Awaited(s)' \/ home'[s] # adapters'[KindOf(s)]
               PROVE  s \in crowded'
    BY DEF Strays
  <2>1. \A u \in AgentTask : u # t => run'[u] = run[u]
    BY <1>1 DEF AgentTypes, AgentsTypeOK
  <2>2. run'[t] = "loading" /\ home'[t] = latest
    BY <1>1 DEF AgentTypes, AgentsTypeOK
  <2>3. CASE s = t
    <3>1. Awaited(t)'
      BY <2>2, <2>3
    <3>2. Awaited(t)
      BY <2>1, <3>1 DEF Awaited
    <3> QED BY <1>1, <2>3, <3>2
  <2>4. CASE s # t
    <3>1. run[s] \in InAdapter /\ home'[s] = home[s]
      BY <1>1, <2>4 DEF AgentTypes, AgentsTypeOK
    <3>2. Awaited(s)' => Awaited(s)
      BY <2>1, <2>2 DEF Awaited
    <3>3. adapters'[KindOf(s)] # adapters[KindOf(s)] => Awaited(s)
      BY <2>4, KindIsKind DEF Awaited
    <3>4. s \in crowded
      BY <3>1, <3>2, <3>3 DEF RegistryInv, Registered, Strays
    <3> QED BY <1>1, <2>4, <3>4
  <2> QED BY <2>3, <2>4
<1> QED BY <1>3, <1>4 DEF RegistryInv

\* A cancellation asks an adapter, perhaps one that was created for it.
LEMMA RegistryAbort ==
  ASSUME AgentTypes, RegistryInv, NEW t \in AgentTask, NEW a \in Nat, Abort(t, a),
         UNCHANGED <<run, home>>
  PROVE  \A s \in AgentTask, b \in Nat :
           <<s, b>> \in registry' <=> (run'[s] \in InAdapter /\ home'[s] = b /\ s \notin stopping')
BY DEF RegistryInv, Registered, Abort

\* A step within an adapter.
LEMMA RegistryMove ==
  ASSUME AgentTypes, RegistryInv, NEW t \in AgentTask, NEW next \in InAdapter,
         run[t] \in InAdapter, run' = [run EXCEPT ![t] = next],
         UNCHANGED <<home, cancel, kept, adapters, registry, stopping, crowded>>
  PROVE  RegistryInv'
<1>1. \A s \in AgentTask : run'[s] \in InAdapter <=> run[s] \in InAdapter
  BY DEF AgentTypes, AgentsTypeOK
<1>2. \A s \in AgentTask : run'[s] = "importing" => run[s] = "importing"
  BY DEF AgentTypes, AgentsTypeOK, InAdapter
<1> QED BY <1>1, <1>2, RegistryUntouched

LEMMA RegistryKept ==
  ASSUME AgentTypes, RegistryInv, [AgentsNext]_agentVars PROVE RegistryInv'
<1> USE DEF InAdapter
<1>1. ASSUME NEW t \in AgentTask, StartTask(t) PROVE RegistryInv'
  <2>1. \A s \in AgentTask : s # t => run'[s] = run[s]
    BY <1>1 DEF StartTask, AgentTypes, AgentsTypeOK
  <2>2. run[t] = "queued" /\ run'[t] = "preparing"
    BY <1>1 DEF StartTask, AgentTypes, AgentsTypeOK
  <2>3. \A s \in AgentTask : run'[s] \in InAdapter <=> run[s] \in InAdapter
    BY <2>1, <2>2
  <2>4. \A s \in AgentTask : run'[s] = "importing" => run[s] = "importing"
    BY <2>1, <2>2
  <2> QED BY <1>1, <2>3, <2>4, RegistryUntouched DEF StartTask
<1>2. ASSUME NEW t \in AgentTask, UseAdapter(t) PROVE RegistryInv'
  <2>1. kept = adapters /\ adapters \in [Kind -> Nat] /\ UNCHANGED <<kept, adapters, cancel>>
    BY <1>2 DEF UseAdapter, RegistryInv, Registered, AgentTypes, AgentsTypeOK
  <2>2. adapters'[KindOf(t)] > 0 /\ run[t] \in AwaitsAdapter /\ Enter(t, adapters'[KindOf(t)])
    BY <1>2, <2>1, KindIsKind DEF UseAdapter, AwaitsAdapter
  <2>3. \A k \in Kind : adapters'[k] >= adapters[k] /\ adapters'[k] = adapters[k]
    BY <2>1
  <2> QED BY <2>1, <2>2, <2>3, RegistryEnter
<1>3. ASSUME NEW t \in AgentTask, AwaitAdapter(t) PROVE RegistryInv'
  <2>1. \A s \in AgentTask : s # t => run'[s] = run[s]
    BY <1>3 DEF AwaitAdapter, AgentTypes, AgentsTypeOK
  <2>2. run[t] = "preparing" /\ run'[t] = "importing" /\ kept[KindOf(t)] = 0
    BY <1>3 DEF AwaitAdapter, AgentTypes, AgentsTypeOK
  <2>3. \A s \in AgentTask : run'[s] \in InAdapter <=> run[s] \in InAdapter
    BY <2>1, <2>2
  <2>4. \A s \in AgentTask :
          run'[s] = "importing" /\ run[s] # "importing" => kept[KindOf(s)] = 0
    BY <2>1, <2>2
  <2> QED BY <1>3, <2>3, <2>4, RegistryUntouched DEF AwaitAdapter
<1>4. ASSUME NEW t \in AgentTask, AdapterImported(t) PROVE RegistryInv'
  <2> DEFINE k == KindOf(t)
  <2>1. k \in Kind /\ kept = adapters /\ adapters \in [Kind -> Nat]
    BY KindIsKind DEF RegistryInv, Registered, AgentTypes, AgentsTypeOK
  <2>2. adapters' = [adapters EXCEPT ![k] = @ + 1] /\ kept' = [kept EXCEPT ![k] = adapters[k] + 1]
    BY <1>4 DEF AdapterImported, NewAdapter
  <2>3. /\ kept' = adapters' /\ adapters' \in [Kind -> Nat] /\ adapters'[k] = adapters[k] + 1
        /\ \A j \in Kind : j # k => adapters'[j] = adapters[j]
    BY <2>1, <2>2
  <2>4. \A j \in Kind : adapters'[j] >= adapters[j]
    BY <2>1, <2>3
  <2>5. adapters'[k] > 0 /\ Enter(t, adapters'[k]) /\ UNCHANGED cancel /\ run[t] = "importing"
    BY <1>4, <2>1, <2>3 DEF AdapterImported
  <2>6. run[t] \in AwaitsAdapter
    BY <2>5 DEF AwaitsAdapter
  <2> QED BY <2>3, <2>4, <2>5, <2>6, RegistryEnter
<1>5. ASSUME NEW t \in AgentTask, SdkReady(t) PROVE RegistryInv'
  <2>1. run[t] \in InAdapter /\ "turn" \in InAdapter
    BY <1>5 DEF SdkReady
  <2> QED BY <1>5, <2>1, RegistryMove DEF SdkReady
<1>6. ASSUME NEW t \in AgentTask, SdkFails(t) PROVE RegistryInv'
  BY <1>6, RegistryEndRun DEF SdkFails
<1>7. ASSUME NEW t \in AgentTask, CodexEvent(t) PROVE RegistryInv'
  <2>1. run[t] \in InAdapter /\ "generating" \in InAdapter
    BY <1>7 DEF CodexEvent
  <2> QED BY <1>7, <2>1, RegistryMove DEF CodexEvent
<1>8. ASSUME NEW t \in AgentTask, CodexChecked(t) PROVE RegistryInv'
  <2>1. run[t] \in InAdapter /\ "turn" \in InAdapter
    BY <1>8 DEF CodexChecked
  <2> QED BY <1>8, <2>1, RegistryMove, RegistryEndRun DEF CodexChecked
<1>9. ASSUME NEW t \in AgentTask, CodexEnds(t) PROVE RegistryInv'
  BY <1>9, RegistryEndRun DEF CodexEnds
<1>10. ASSUME NEW t \in AgentTask, GeminiAsks(t) PROVE RegistryInv'
  <2>1. run[t] \in InAdapter /\ "generating" \in InAdapter
    BY <1>10 DEF GeminiAsks
  <2> QED BY <1>10, <2>1, RegistryMove, RegistryEndRun DEF GeminiAsks
<1>11. ASSUME NEW t \in AgentTask, NEW calls \in BOOLEAN, GeminiAnswers(t, calls)
       PROVE  RegistryInv'
  <2> DEFINE next == IF calls THEN "turn" ELSE "closing"
  <2>1. run[t] \in InAdapter /\ next \in InAdapter
    BY <1>11 DEF GeminiAnswers
  <2> QED BY <1>11, <2>1, RegistryMove DEF GeminiAnswers
<1>12. ASSUME NEW t \in AgentTask, GeminiThrows(t) PROVE RegistryInv'
  BY <1>12, RegistryEndRun DEF GeminiThrows
<1>13. ASSUME NEW t \in AgentTask, GeminiChecked(t) PROVE RegistryInv'
  <2>1. run[t] \in InAdapter /\ "reporting" \in InAdapter
    BY <1>13 DEF GeminiChecked
  <2> QED BY <1>13, <2>1, RegistryMove, RegistryEndRun DEF GeminiChecked
<1>14. ASSUME NEW t \in AgentTask, GeminiReports(t) PROVE RegistryInv'
  BY <1>14, RegistryEndRun DEF GeminiReports
<1>15. ASSUME NEW t \in AgentTask, CancelTask(t) PROVE RegistryInv'
  <2>1. CASE cancel' = [cancel EXCEPT ![t] = TRUE] /\ kept[KindOf(t)] = 0
             /\ UNCHANGED <<registry, stopping>>
    <3>1. \A s \in AgentTask : cancel'[s] /\ ~ cancel[s] => s = t
      BY <2>1 DEF AgentTypes, AgentsTypeOK
    <3> QED BY <1>15, <2>1, <3>1, RegistryUntouched DEF CancelTask
  <2>2. CASE Abort(t, kept[KindOf(t)]) /\ UNCHANGED cancel
    <3>1. kept[KindOf(t)] \in Nat /\ UNCHANGED <<run, home, kept, adapters, crowded>>
      BY <1>15, KindIsKind DEF CancelTask, AgentTypes, AgentsTypeOK
    <3>2. Registered'
      BY <2>2, <3>1, RegistryAbort DEF RegistryInv, Registered
    <3>3. Strays'
      BY <2>2, <3>1 DEF RegistryInv, Strays, Awaited
    <3> QED BY <3>2, <3>3 DEF RegistryInv
  <2>3. CASE UNCHANGED <<registry, stopping, cancel>>
    BY <1>15, <2>3, RegistryUntouched DEF CancelTask
  <2> QED BY <1>15, <2>1, <2>2, <2>3 DEF CancelTask
<1>16. ASSUME NEW t \in AgentTask, CancelImported(t) PROVE RegistryInv'
  <2> DEFINE k == KindOf(t)
  <2>1. k \in Kind /\ kept = adapters /\ adapters \in [Kind -> Nat] /\ cancel[t]
        /\ UNCHANGED <<run, home, crowded>>
    BY <1>16, KindIsKind
       DEF CancelImported, RegistryInv, Registered, AgentTypes, AgentsTypeOK
  <2>2. adapters' = [adapters EXCEPT ![k] = @ + 1] /\ kept' = [kept EXCEPT ![k] = adapters[k] + 1]
        /\ cancel' = [cancel EXCEPT ![t] = FALSE]
    BY <1>16 DEF CancelImported, NewAdapter
  <2>3. kept' = adapters' /\ \A j \in Kind : j # k => adapters'[j] = adapters[j]
    BY <2>1, <2>2
  <2>4. \A j \in Kind : adapters[j] \in Nat /\ adapters'[j] \in Nat /\ adapters'[j] >= adapters[j]
    BY <2>1, <2>2
  <2>5. \A s \in AgentTask : run'[s] \in InAdapter => home'[s] \in 1 .. adapters'[KindOf(s)]
    <3> SUFFICES ASSUME NEW s \in AgentTask, run[s] \in InAdapter
                 PROVE  home[s] \in 1 .. adapters'[KindOf(s)]
      BY <2>1
    <3>1. home[s] \in 1 .. adapters[KindOf(s)]
      BY DEF RegistryInv, Registered
    <3> QED BY <2>4, <3>1, KindIsKind
  <2>6. \A s \in AgentTask, b \in Nat :
          <<s, b>> \in registry' <=> (run'[s] \in InAdapter /\ home'[s] = b /\ s \notin stopping')
    <3>1. adapters[k] + 1 \in Nat
      BY <2>1
    <3> QED BY <1>16, <2>1, <3>1, RegistryAbort DEF CancelImported
  <2>7. Registered'
    BY <2>3, <2>5, <2>6 DEF Registered
  <2>8. Strays'
    <3> SUFFICES ASSUME NEW s \in AgentTask, run[s] \in InAdapter,
                        Awaited(s)' \/ home[s] # adapters'[KindOf(s)]
                 PROVE  s \in crowded
      BY <2>1, <2>3 DEF Strays
    <3>1. Awaited(s)' => Awaited(s)
      BY <2>1, <2>2 DEF Awaited, AgentTypes, AgentsTypeOK
    <3>2. KindOf(s) = k => Awaited(s)
      BY <2>1 DEF Awaited
    <3>3. KindOf(s) # k => adapters'[KindOf(s)] = kept[KindOf(s)]
      BY <2>1, <2>3, KindIsKind
    <3> QED BY <3>1, <3>2, <3>3 DEF RegistryInv, Strays
  <2> QED BY <2>7, <2>8 DEF RegistryInv
<1>17. CASE UNCHANGED agentVars
  BY <1>17, RegistryUntouched DEF agentVars
<1> QED BY <1>1, <1>2, <1>3, <1>4, <1>5, <1>6, <1>7, <1>8, <1>9, <1>10, <1>11, <1>12, <1>13,
           <1>14, <1>15, <1>16, <1>17 DEF AgentsNext

\* A task whose run has begun is running, or was cancelled before the run was in an
\* adapter, or its run was told to stop or had entered while others awaited an adapter.
CancelledAt(t) ==
  taskStatus[t] # "running" =>
    /\ run[t] \in AwaitsAdapter => t \in early
    /\ run[t] \in InAdapter => t \in stopping \cup crowded \cup early

CancelledInv == \A t \in AgentTask : CancelledAt(t)

LEMMA CancelledInitially == AgentsInit => CancelledInv
BY DEF AgentsInit, CancelledInv, CancelledAt, AwaitsAdapter, InAdapter

\* A step of the run of t, or a cancellation of t, is nothing to the others.
LEMMA CancelledOthers ==
  ASSUME CancelledInv, NEW t \in AgentTask, CancelledAt(t)',
         \A s \in AgentTask :
           s # t => /\ run'[s] = run[s] /\ taskStatus'[s] = taskStatus[s]
                    /\ (s \in stopping => s \in stopping')
                    /\ (s \in crowded => s \in crowded') /\ (s \in early => s \in early')
  PROVE  CancelledInv'
<1> SUFFICES ASSUME NEW s \in AgentTask, s # t PROVE CancelledAt(s)'
  BY DEF CancelledInv
<1> QED BY DEF CancelledInv, CancelledAt

\* A run that moves, in or out of an adapter.
LEMMA CancelledMove ==
  ASSUME AgentTypes, CancelledInv, NEW t \in AgentTask, NEW next,
         run' = [run EXCEPT ![t] = next],
         UNCHANGED <<taskStatus, stopping, crowded, early>>,
         \/ run[t] \in InAdapter /\ next \in InAdapter
         \/ run[t] \in AwaitsAdapter /\ next \in AwaitsAdapter
  PROVE  CancelledInv'
<1>1. run'[t] = next /\ \A s \in AgentTask : s # t => run'[s] = run[s]
  BY DEF AgentTypes, AgentsTypeOK
<1>2. CancelledAt(t)'
  BY <1>1 DEF CancelledInv, CancelledAt, AwaitsAdapter, InAdapter
<1> QED BY <1>1, <1>2, CancelledOthers

LEMMA CancelledEnter ==
  ASSUME AgentTypes, CancelledInv, NEW t \in AgentTask, NEW a, Enter(t, a),
         run[t] \in AwaitsAdapter, UNCHANGED <<taskStatus, early>>
  PROVE  CancelledInv'
<1>1. /\ run'[t] = "loading"
      /\ \A s \in AgentTask :
           s # t => /\ run'[s] = run[s] /\ (s \in stopping => s \in stopping')
                    /\ (s \in crowded => s \in crowded')
  BY DEF Enter, AgentTypes, AgentsTypeOK
<1>2. CancelledAt(t)'
  BY <1>1 DEF CancelledInv, CancelledAt, AwaitsAdapter, InAdapter
<1> QED BY <1>1, <1>2, CancelledOthers

LEMMA CancelledEndRun ==
  ASSUME AgentTypes, CancelledInv, NEW t \in AgentTask, NEW result, EndRun(t, result)
  PROVE  CancelledInv'
<1>1. /\ run'[t] \in {"none", "queued"}
      /\ \A s \in AgentTask : s # t => run'[s] = run[s] /\ taskStatus'[s] = taskStatus[s]
      /\ UNCHANGED <<stopping, crowded, early>>
  BY DEF EndRun, AgentTypes, AgentsTypeOK
<1>2. CancelledAt(t)'
  BY <1>1 DEF CancelledAt, AwaitsAdapter, InAdapter
<1> QED BY <1>1, <1>2, CancelledOthers

\* The end of a cancellation of t, after which a run of t in an adapter is told to stop
\* or had entered it while others awaited theirs.
LEMMA CancelledSet ==
  ASSUME AgentTypes, CancelledInv, NEW t \in AgentTask, SetCancelled(t), NEW a, Abort(t, a),
         UNCHANGED <<run, crowded>>,
         run[t] \in InAdapter => t \in stopping' \cup crowded \cup early
  PROVE  CancelledInv'
<1>1. \A s \in AgentTask : s # t => taskStatus'[s] = taskStatus[s]
  BY DEF SetCancelled, AgentTypes, AgentsTypeOK
<1>2. /\ \A s \in AgentTask : (s \in stopping => s \in stopping') /\ (s \in early => s \in early')
      /\ run[t] \in AwaitsAdapter => t \in early'
  BY DEF SetCancelled, Abort
<1>3. CancelledAt(t)'
  BY <1>2 DEF CancelledAt
<1> QED BY <1>1, <1>2, <1>3, CancelledOthers

LEMMA CancelledKept ==
  ASSUME AgentTypes, RegistryInv, CancelledInv, [AgentsNext]_agentVars PROVE CancelledInv'
<1>1. ASSUME NEW t \in AgentTask, StartTask(t) PROVE CancelledInv'
  <2>1. /\ taskStatus'[t] = "running"
        /\ \A s \in AgentTask : s # t => run'[s] = run[s] /\ taskStatus'[s] = taskStatus[s]
        /\ UNCHANGED <<stopping, crowded>> /\ early' = early \ {t}
    BY <1>1 DEF StartTask, AgentTypes, AgentsTypeOK
  <2>2. CancelledAt(t)'
    BY <2>1 DEF CancelledAt
  <2> QED BY <2>1, <2>2, CancelledOthers
<1>2. ASSUME NEW t \in AgentTask, UseAdapter(t) PROVE CancelledInv'
  BY <1>2, CancelledEnter DEF UseAdapter, AwaitsAdapter
<1>3. ASSUME NEW t \in AgentTask, AwaitAdapter(t) PROVE CancelledInv'
  BY <1>3, CancelledMove DEF AwaitAdapter, AwaitsAdapter
<1>4. ASSUME NEW t \in AgentTask, AdapterImported(t) PROVE CancelledInv'
  BY <1>4, CancelledEnter DEF AdapterImported, AwaitsAdapter
<1>5. ASSUME NEW t \in AgentTask, SdkReady(t) PROVE CancelledInv'
  BY <1>5, CancelledMove DEF SdkReady, InAdapter
<1>6. ASSUME NEW t \in AgentTask, SdkFails(t) PROVE CancelledInv'
  BY <1>6, CancelledEndRun DEF SdkFails
<1>7. ASSUME NEW t \in AgentTask, CodexEvent(t) PROVE CancelledInv'
  BY <1>7, CancelledMove DEF CodexEvent, InAdapter
<1>8. ASSUME NEW t \in AgentTask, CodexChecked(t) PROVE CancelledInv'
  BY <1>8, CancelledMove, CancelledEndRun DEF CodexChecked, InAdapter
<1>9. ASSUME NEW t \in AgentTask, CodexEnds(t) PROVE CancelledInv'
  BY <1>9, CancelledEndRun DEF CodexEnds
<1>10. ASSUME NEW t \in AgentTask, GeminiAsks(t) PROVE CancelledInv'
  BY <1>10, CancelledMove, CancelledEndRun DEF GeminiAsks, InAdapter
<1>11. ASSUME NEW t \in AgentTask, NEW calls \in BOOLEAN, GeminiAnswers(t, calls)
       PROVE  CancelledInv'
  <2> DEFINE next == IF calls THEN "turn" ELSE "closing"
  <2>1. run[t] \in InAdapter /\ next \in InAdapter
    BY <1>11 DEF GeminiAnswers, InAdapter
  <2> QED BY <1>11, <2>1, CancelledMove DEF GeminiAnswers
<1>12. ASSUME NEW t \in AgentTask, GeminiThrows(t) PROVE CancelledInv'
  BY <1>12, CancelledEndRun DEF GeminiThrows
<1>13. ASSUME NEW t \in AgentTask, GeminiChecked(t) PROVE CancelledInv'
  BY <1>13, CancelledMove, CancelledEndRun DEF GeminiChecked, InAdapter
<1>14. ASSUME NEW t \in AgentTask, GeminiReports(t) PROVE CancelledInv'
  BY <1>14, CancelledEndRun DEF GeminiReports
<1>15. ASSUME NEW t \in AgentTask, CancelTask(t) PROVE CancelledInv'
  <2>1. UNCHANGED <<run, crowded>>
    BY <1>15 DEF CancelTask
  <2>2. CASE UNCHANGED <<taskStatus, stopping, early>>
    BY <2>1, <2>2 DEF CancelledInv, CancelledAt
  <2>3. CASE Abort(t, kept[KindOf(t)]) /\ SetCancelled(t)
    <3>1. run[t] \in InAdapter => t \in stopping' \cup crowded
      <4> SUFFICES ASSUME run[t] \in InAdapter, t \notin stopping PROVE t \in stopping' \cup crowded
        BY <2>3 DEF Abort
      <4>1. CASE home[t] = kept[KindOf(t)]
        <5>1. kept[KindOf(t)] \in Nat
          BY KindIsKind DEF AgentTypes, AgentsTypeOK
        <5>2. <<t, kept[KindOf(t)]>> \in registry
          BY <4>1, <5>1 DEF RegistryInv, Registered
        <5> QED BY <2>3, <5>2 DEF Abort
      <4>2. CASE home[t] # kept[KindOf(t)]
        BY <4>2 DEF RegistryInv, Strays
      <4> QED BY <4>1, <4>2
    <3> QED BY <2>1, <2>3, <3>1, CancelledSet
  <2>4. CASE SetCancelled(t) /\ taskStatus[t] # "running" /\ UNCHANGED <<registry, stopping>>
    <3>1. \A s \in AgentTask : s # t => taskStatus'[s] = taskStatus[s]
      BY <2>4 DEF SetCancelled, AgentTypes, AgentsTypeOK
    <3>2. \A s \in AgentTask : s \in early => s \in early'
      BY <2>4 DEF SetCancelled
    <3>3. CancelledAt(t)'
      BY <2>1, <2>4, <3>2 DEF CancelledInv, CancelledAt
    <3> QED BY <2>1, <2>4, <3>1, <3>2, <3>3, CancelledOthers
  <2>5. \/ UNCHANGED <<taskStatus, stopping, early>>
        \/ Abort(t, kept[KindOf(t)]) /\ SetCancelled(t)
        \/ SetCancelled(t) /\ taskStatus[t] # "running" /\ UNCHANGED <<registry, stopping>>
    BY <1>15 DEF CancelTask
  <2> QED BY <2>2, <2>3, <2>4, <2>5
<1>16. ASSUME NEW t \in AgentTask, CancelImported(t) PROVE CancelledInv'
  <2>1. run[t] \in InAdapter => t \in crowded
    BY <1>16 DEF CancelImported, RegistryInv, Strays, Awaited
  <2> QED BY <1>16, <2>1, CancelledSet DEF CancelImported
<1>17. CASE UNCHANGED agentVars
  BY <1>17 DEF agentVars, CancelledInv, CancelledAt
<1> QED BY <1>1, <1>2, <1>3, <1>4, <1>5, <1>6, <1>7, <1>8, <1>9, <1>10, <1>11, <1>12, <1>13,
           <1>14, <1>15, <1>16, <1>17 DEF AgentsNext

LEMMA RegistryHolds == AgentsSpec => [](AgentTypes /\ RegistryInv /\ CancelledInv)
<1>1. /\ AgentTypes /\ RegistryInv /\ CancelledInv /\ [AgentsNext]_agentVars
      => (AgentTypes /\ RegistryInv /\ CancelledInv)'
  BY AgentTypesKept, RegistryKept, CancelledKept
<1> QED BY <1>1, AgentTypesInitially, RegistryInitially, CancelledInitially, PTL DEF AgentsSpec

\* However tasks race for the import of an adapter and are cancelled meanwhile, the
\* registries list what runs in the adapters, and a run that was not told to stop is one
\* that a cancellation tells, but for those that entered their adapter while others
\* awaited one and those whose task was cancelled before they entered it.
THEOREM CancelsFind == AgentsSpec => []CancelFinds
<1>1. AgentTypes /\ RegistryInv => RegistryExact
  <2> SUFFICES ASSUME AgentTypes, RegistryInv PROVE RegistryExact
    OBVIOUS
  <2> DEFINE heard == {s \in AgentTask : run[s] \in InAdapter /\ s \notin stopping}
  <2>1. registry \subseteq AgentTask \X Nat /\ home \in [AgentTask -> Nat]
    BY DEF AgentTypes, AgentsTypeOK
  <2>2. ASSUME NEW e \in registry PROVE e \in {<<t, home[t]>> : t \in heard}
    <3>1. PICK t \in AgentTask, a \in Nat : e = <<t, a>>
      BY <2>1, <2>2
    <3>2. t \in heard /\ home[t] = a
      BY <2>2, <3>1 DEF RegistryInv, Registered
    <3> QED BY <3>1, <3>2
  <2>3. ASSUME NEW t \in heard PROVE <<t, home[t]>> \in registry
    <3>1. home[t] \in Nat
      BY <2>1, <2>3
    <3> QED BY <2>3, <3>1 DEF RegistryInv, Registered
  <2>4. registry = {<<t, home[t]>> : t \in heard}
    BY <2>2, <2>3
  <2> QED BY <2>4 DEF RegistryExact
<1>2. AgentTypes /\ RegistryInv /\ CancelledInv => OutOfReachIsKnown
  <2> SUFFICES ASSUME AgentTypes, RegistryInv, CancelledInv, NEW t \in AgentTask,
                      t \notin stopping \cup crowded \cup early, run[t] \in InAdapter
               PROVE  WithinReach(t)
    BY DEF OutOfReachIsKnown
  <2>1. taskStatus[t] = "running"
    BY DEF CancelledInv, CancelledAt
  <2>2. home[t] = kept[KindOf(t)] /\ ~ Awaited(t)
    BY DEF RegistryInv, Strays
  <2>3. ~ cancel[t]
    BY <2>2 DEF Awaited
  <2> QED BY <2>1, <2>2, <2>3 DEF WithinReach
<1> QED BY <1>1, <1>2, RegistryHolds, PTL DEF CancelFinds

-----------------------------------------------------------------------------
(* AgentRuns: what a run does after it was told to stop. *)

\* A run has an outcome only when it is over.  If it went on after it was told to
\* stop, it is on its way to the next look at the signal.
HeededAt(t) ==
  /\ late[t] <= 1 /\ (t \in GeminiTask => iteration[t] <= MaxTurns)
  /\ run[t] \in AwaitsAdapter \cup InAdapter => outcome[t] = "none"
  /\ run[t] \in InAdapter /\ late[t] > 0 =>
       t \in stopping /\ run[t] \in IF t \in GeminiTask THEN {"turn", "closing"} ELSE {"generating"}
  /\ t \in GeminiTask /\ outcome[t] = "success" => late[t] = 0

AbortInv == \A t \in AgentTask : HeededAt(t)

LEMMA AbortInitially == AgentsInit => AbortInv
BY MaxTurnsIsNat DEF AgentsInit, AbortInv, HeededAt, AwaitsAdapter, InAdapter

\* A step of the run of t is nothing to the others.
LEMMA HeedOthers ==
  ASSUME AgentTypes, AbortInv, NEW t \in AgentTask, HeededAt(t)',
         \A s \in AgentTask :
           s # t => /\ run'[s] = run[s] /\ late'[s] = late[s] /\ iteration'[s] = iteration[s]
                    /\ outcome'[s] = outcome[s] /\ (s \in stopping => s \in stopping')
  PROVE  AbortInv'
<1> SUFFICES ASSUME NEW s \in AgentTask, s # t PROVE HeededAt(s)'
  BY DEF AbortInv
<1> QED BY DEF AbortInv, HeededAt

\* A run that ends may succeed only if it is for codex or did nothing after the abort.
LEMMA HeedEndRun ==
  ASSUME AgentTypes, AbortInv, NEW t \in AgentTask, NEW result \in {"success", "failure"},
         EndRun(t, result), UNCHANGED <<iteration, late>>,
         result = "success" => t \notin GeminiTask \/ late[t] = 0
  PROVE  AbortInv'
<1>1. /\ run'[t] \in {"none", "queued"} /\ outcome'[t] = result
      /\ \A s \in AgentTask : s # t => run'[s] = run[s] /\ outcome'[s] = outcome[s]
      /\ UNCHANGED stopping
  BY DEF EndRun, AgentTypes, AgentsTypeOK
<1>2. HeededAt(t)'
  BY <1>1 DEF AbortInv, HeededAt, AwaitsAdapter, InAdapter
<1> QED BY <1>1, <1>2, HeedOthers

\* A run that moves, in or out of an adapter, where its lateness allows it.
LEMMA HeedMove ==
  ASSUME AgentTypes, AbortInv, NEW t \in AgentTask, NEW next, run' = [run EXCEPT ![t] = next],
         UNCHANGED <<iteration, late, stopping, outcome>>,
         run[t] \in AwaitsAdapter \cup InAdapter, next \in InAdapter => late[t] = 0
  PROVE  AbortInv'
<1>1. run'[t] = next /\ \A s \in AgentTask : s # t => run'[s] = run[s]
  BY DEF AgentTypes, AgentsTypeOK
<1>2. HeededAt(t)'
  BY <1>1 DEF AbortInv, HeededAt
<1> QED BY <1>1, <1>2, HeedOthers

\* A run that enters an adapter starts afresh.
LEMMA HeedEnter ==
  ASSUME AgentTypes, AbortInv, NEW t \in AgentTask, NEW a, Enter(t, a),
         run[t] \in AwaitsAdapter, UNCHANGED outcome
  PROVE  AbortInv'
<1>1. /\ iteration'[t] = 0 /\ late'[t] = 0 /\ outcome[t] = "none"
      /\ \A s \in AgentTask :
           s # t => /\ run'[s] = run[s] /\ late'[s] = late[s] /\ iteration'[s] = iteration[s]
                    /\ (s \in stopping => s \in stopping')
  BY DEF Enter, AgentTypes, AgentsTypeOK, AbortInv, HeededAt
<1>2. HeededAt(t)'
  BY <1>1, MaxTurnsIsNat DEF HeededAt
<1> QED BY <1>1, <1>2, HeedOthers

\* A cancellation only adds to the runs that are to stop.
LEMMA HeedAbort ==
  ASSUME AbortInv, stopping \subseteq stopping', UNCHANGED <<run, iteration, late, outcome>>
  PROVE  AbortInv'
BY DEF AbortInv, HeededAt

LEMMA AbortKept ==
  ASSUME AgentTypes, AbortInv, [AgentsNext]_agentVars PROVE AbortInv'
<1> USE DEF InAdapter, AwaitsAdapter
<1>1. ASSUME NEW t \in AgentTask, StartTask(t) PROVE AbortInv'
  <2>1. /\ run'[t] = "preparing" /\ outcome'[t] = "none"
        /\ \A s \in AgentTask : s # t => run'[s] = run[s] /\ outcome'[s] = outcome[s]
        /\ UNCHANGED <<iteration, late, stopping>>
    BY <1>1 DEF StartTask, AgentTypes, AgentsTypeOK
  <2>2. HeededAt(t)'
    BY <2>1 DEF AbortInv, HeededAt
  <2> QED BY <2>1, <2>2, HeedOthers
<1>2. ASSUME NEW t \in AgentTask, UseAdapter(t) PROVE AbortInv'
  BY <1>2, HeedEnter DEF UseAdapter
<1>3. ASSUME NEW t \in AgentTask, AwaitAdapter(t) PROVE AbortInv'
  BY <1>3, HeedMove DEF AwaitAdapter
<1>4. ASSUME NEW t \in AgentTask, AdapterImported(t) PROVE AbortInv'
  BY <1>4, HeedEnter DEF AdapterImported
<1>5. ASSUME NEW t \in AgentTask, SdkReady(t) PROVE AbortInv'
  <2>1. late[t] = 0
    BY <1>5 DEF SdkReady, AbortInv, HeededAt, AgentTypes, AgentsTypeOK
  <2> QED BY <1>5, <2>1, HeedMove DEF SdkReady
<1>6. ASSUME NEW t \in AgentTask, SdkFails(t) PROVE AbortInv'
  BY <1>6, HeedEndRun DEF SdkFails
<1>7. ASSUME NEW t \in AgentTask, CodexEvent(t) PROVE AbortInv'
  <2>1. late[t] = 0 /\ outcome[t] = "none" /\ t \notin GeminiTask
    BY <1>7 DEF CodexEvent, AbortInv, HeededAt, AgentTypes, AgentsTypeOK
  <2>2. /\ run'[t] = "generating" /\ late'[t] = IF t \in stopping THEN 1 ELSE 0
        /\ UNCHANGED <<outcome, stopping>>
        /\ \A s \in AgentTask :
             s # t => run'[s] = run[s] /\ late'[s] = late[s] /\ iteration'[s] = iteration[s]
    BY <1>7, <2>1 DEF CodexEvent, NextTurn, AgentTypes, AgentsTypeOK
  <2>3. HeededAt(t)'
    BY <2>1, <2>2 DEF HeededAt
  <2> QED BY <2>2, <2>3, HeedOthers
<1>8. ASSUME NEW t \in AgentTask, CodexChecked(t) PROVE AbortInv'
  <2>1. CASE Stopped(t)
    BY <1>8, <2>1, HeedEndRun DEF CodexChecked
  <2>2. CASE ~ Stopped(t)
    <3>1. late[t] = 0
      BY <1>8, <2>2 DEF CodexChecked, Stopped, AbortInv, HeededAt, AgentTypes, AgentsTypeOK
    <3> QED BY <1>8, <2>2, <3>1, HeedMove DEF CodexChecked
  <2> QED BY <2>1, <2>2
<1>9. ASSUME NEW t \in AgentTask, CodexEnds(t) PROVE AbortInv'
  BY <1>9, HeedEndRun DEF CodexEnds
<1>10. ASSUME NEW t \in AgentTask, GeminiAsks(t) PROVE AbortInv'
  <2>1. CASE Stopped(t)
    BY <1>10, <2>1, HeedEndRun DEF GeminiAsks
  <2>2. CASE ~ Stopped(t)
    <3>1. late[t] = 0 /\ outcome[t] = "none" /\ iteration[t] + 1 <= MaxTurns
      BY <1>10, <2>2, MaxTurnsIsNat
         DEF GeminiAsks, Stopped, AbortInv, HeededAt, AgentTypes, AgentsTypeOK
    <3>2. /\ late'[t] = 0 /\ iteration'[t] = iteration[t] + 1 /\ UNCHANGED <<outcome, stopping>>
          /\ \A s \in AgentTask :
               s # t => run'[s] = run[s] /\ late'[s] = late[s] /\ iteration'[s] = iteration[s]
      BY <1>10, <2>2, <3>1 DEF GeminiAsks, Stopped, NextTurn, AgentTypes, AgentsTypeOK
    <3>3. HeededAt(t)'
      BY <3>1, <3>2 DEF HeededAt
    <3> QED BY <3>2, <3>3, HeedOthers
  <2> QED BY <2>1, <2>2
<1>11. ASSUME NEW t \in AgentTask, NEW calls \in BOOLEAN, GeminiAnswers(t, calls)
       PROVE  AbortInv'
  <2>1. late[t] = 0 /\ outcome[t] = "none" /\ t \in GeminiTask /\ iteration[t] <= MaxTurns
    BY <1>11 DEF GeminiAnswers, AbortInv, HeededAt, AgentTypes, AgentsTypeOK
  <2>2. /\ run'[t] \in {"turn", "closing"} /\ late'[t] = IF t \in stopping THEN 1 ELSE 0
        /\ UNCHANGED <<iteration, outcome, stopping>>
        /\ \A s \in AgentTask : s # t => run'[s] = run[s] /\ late'[s] = late[s]
    BY <1>11, <2>1 DEF GeminiAnswers, AgentTypes, AgentsTypeOK
  <2>3. HeededAt(t)'
    BY <2>1, <2>2 DEF HeededAt
  <2> QED BY <2>2, <2>3, HeedOthers
<1>12. ASSUME NEW t \in AgentTask, GeminiThrows(t) PROVE AbortInv'
  BY <1>12, HeedEndRun DEF GeminiThrows
<1>13. ASSUME NEW t \in AgentTask, GeminiChecked(t) PROVE AbortInv'
  <2>1. CASE Stopped(t)
    BY <1>13, <2>1, HeedEndRun DEF GeminiChecked
  <2>2. CASE ~ Stopped(t)
    <3>1. late[t] = 0
      BY <1>13, <2>2 DEF GeminiChecked, Stopped, AbortInv, HeededAt, AgentTypes, AgentsTypeOK
    <3> QED BY <1>13, <2>2, <3>1, HeedMove DEF GeminiChecked
  <2> QED BY <2>1, <2>2
<1>14. ASSUME NEW t \in AgentTask, GeminiReports(t) PROVE AbortInv'
  <2>1. t \in GeminiTask => late[t] = 0
    BY <1>14 DEF GeminiReports, AbortInv, HeededAt, AgentTypes, AgentsTypeOK
  <2> QED BY <1>14, <2>1, HeedEndRun DEF GeminiReports
<1>15. ASSUME NEW t \in AgentTask, CancelTask(t) PROVE AbortInv'
  BY <1>15, HeedAbort DEF CancelTask, Abort
<1>16. ASSUME NEW t \in AgentTask, CancelImported(t) PROVE AbortInv'
  BY <1>16, HeedAbort DEF CancelImported, Abort
<1>17. CASE UNCHANGED agentVars
  BY <1>17, HeedAbort DEF agentVars
<1> QED BY <1>1, <1>2, <1>3, <1>4, <1>5, <1>6, <1>7, <1>8, <1>9, <1>10, <1>11, <1>12, <1>13,
           <1>14, <1>15, <1>16, <1>17 DEF AgentsNext

\* Whenever an abort comes, a run goes on for one event or one answer at most, and a
\* gemini run that went on does not succeed; a codex run whose turn is completed by the
\* next event does.
THEOREM AbortsAreHeeded == AgentsSpec => []AbortHeeded
<1>1. AgentTypes /\ AbortInv /\ [AgentsNext]_agentVars => (AgentTypes /\ AbortInv)'
  BY AgentTypesKept, AbortKept
<1>2. GeminiTask \subseteq AgentTask
  BY AgentRunsAssumption
<1>3. AbortInv => AbortHeeded
  BY <1>2 DEF AbortInv, HeededAt, AbortHeeded, AbortIsSwift, AbortedGeminiFails
<1> QED BY <1>1, <1>3, AgentTypesInitially, AbortInitially, PTL DEF AgentsSpec

-----------------------------------------------------------------------------
(* Explorer: types. *)

\* A sequence without its element i.
LEMMA RemovedOne ==
  ASSUME NEW S, NEW s \in Seq(S), NEW i \in 1 .. Len(s)
  PROVE  /\ RemoveAt(s, i) \in Seq(S)
         /\ Len(RemoveAt(s, i)) = Len(s) - 1
         /\ \A j \in 1 .. Len(s) - 1 :
              RemoveAt(s, i)[j] = IF j < i THEN s[j] ELSE s[j + 1]
<1> DEFINE a == SubSeq(s, 1, i - 1)
           b == SubSeq(s, i + 1, Len(s))
<1>1. Len(s) \in Nat /\ i \in Nat /\ 1 <= i /\ i <= Len(s)
  OBVIOUS
<1>2. /\ a \in Seq(S) /\ Len(a) = i - 1
      /\ \A j \in 1 .. i - 1 : a[j] = s[j]
  <2>1. i - 1 \in Int /\ 1 \in Int /\ i - 1 <= Len(s) /\ 1 <= i - 1 + 1
    BY <1>1
  <2>2. /\ a \in Seq(S)
        /\ Len(a) = IF 1 <= i - 1 THEN i - 1 - 1 + 1 ELSE 0
        /\ \A k \in 1 .. Len(a) : a[k] = s[1 + k - 1]
    BY <1>1, SubSeqProperties
  <2> QED BY <1>1, <2>2
<1>3. /\ b \in Seq(S) /\ Len(b) = Len(s) - i
      /\ \A j \in 1 .. Len(s) - i : b[j] = s[j + i]
  <2>2. /\ b \in Seq(S)
        /\ Len(b) = IF i + 1 <= Len(s) THEN Len(s) - (i + 1) + 1 ELSE 0
        /\ \A k \in 1 .. Len(b) : b[k] = s[(i + 1) + k - 1]
    BY <1>1, SubSeqProperties
  <2> QED BY <1>1, <2>2
<1>4. RemoveAt(s, i) = a \o b
  BY DEF RemoveAt
<1> HIDE DEF a, b
<1>5. /\ a \o b \in Seq(S) /\ Len(a \o b) = Len(a) + Len(b)
      /\ \A j \in 1 .. Len(a) + Len(b) :
           (a \o b)[j] = IF j <= Len(a) THEN a[j] ELSE b[j - Len(a)]
  BY <1>2, <1>3, ConcatProperties
<1>6. ASSUME NEW j \in 1 .. Len(s) - 1
      PROVE  (a \o b)[j] = IF j < i THEN s[j] ELSE s[j + 1]
  <2>1. CASE j < i
    BY <1>1, <1>2, <1>3, <1>5, <2>1
  <2>2. CASE ~ (j < i)
    <3>1. j - Len(a) \in 1 .. Len(s) - i /\ ~ (j <= Len(a)) /\ j \in 1 .. Len(a) + Len(b)
      BY <1>1, <1>2, <1>3, <2>2
    <3>2. b[j - Len(a)] = s[(j - Len(a)) + i] /\ (j - Len(a)) + i = j + 1
      BY <1>1, <1>2, <1>3, <3>1
    <3> QED BY <1>5, <2>2, <3>1, <3>2
  <2> QED BY <2>1, <2>2
<1> QED BY <1>1, <1>2, <1>3, <1>4, <1>5, <1>6

TreeLoad  == [answered : BOOLEAN, live : SUBSET ExFile, asOf : 0 .. MaxEdits,
              late : BOOLEAN, dead : BOOLEAN]
Found     == {<<>>} \cup (ExFile \X (0 .. MaxEdits))
FileLoad  == [file : ExFile, answered : BOOLEAN, asOf : 0 .. MaxEdits, found : Found,
              late : BOOLEAN]
FileEvent == [type : {"added", "changed", "removed"}, file : ExFile]
FileState == [version : 0 .. MaxEdits, there : BOOLEAN]

\* x is the call y, and has become late if it was told after z or is of another file.
SameLoad(x, y) ==
  x.answered = y.answered /\ x.live = y.live /\ x.asOf = y.asOf /\ x.dead = y.dead
LateLoad(x, y, z) == x.late <=> y.late \/ Older(y, z)
SameFileLoad(x, y) ==
  x.answered = y.answered /\ x.found = y.found /\ x.asOf = y.asOf /\ x.file = y.file
LateFileLoad(x, y, z, before) ==
  x.late <=> y.late \/ Older(y, z) \/ (before /\ y.file # z.file)

\* The calls that are left when one is over: the others, in their order, of which some
\* are late now.
LEMMA TreeDelivered ==
  ASSUME NEW s \in Seq(TreeLoad), NEW i \in 1 .. Len(s), NEW q, q = AfterDelivery(s, i)
  PROVE  /\ q \in Seq(TreeLoad)
         /\ \A j \in 1 .. Len(q) : \E k \in 1 .. Len(s) :
              k # i /\ SameLoad(q[j], s[k]) /\ LateLoad(q[j], s[k], s[i])
         /\ \A k \in 1 .. Len(s) : k # i => \E j \in 1 .. Len(q) : SameLoad(q[j], s[k])
<1> DEFINE t == [j \in DOMAIN s |-> [s[j] EXCEPT !.late = @ \/ Older(s[j], s[i])]]
<1>1. Len(s) \in Nat /\ DOMAIN s = 1 .. Len(s) /\ \A j \in 1 .. Len(s) : s[j] \in TreeLoad
  OBVIOUS
<1>2. ASSUME NEW j \in 1 .. Len(s)
      PROVE  /\ t[j] \in TreeLoad
             /\ SameLoad(t[j], s[j]) /\ LateLoad(t[j], s[j], s[i])
  <2>1. t[j] = [s[j] EXCEPT !.late = s[j].late \/ Older(s[j], s[i])]
    BY <1>1
  <2>2. (s[j].late \/ Older(s[j], s[i])) \in BOOLEAN
    OBVIOUS
  <2> QED BY <1>1, <2>1, <2>2 DEF TreeLoad, SameLoad, LateLoad
<1>3. t \in Seq(TreeLoad) /\ Len(t) = Len(s) /\ i \in 1 .. Len(t)
  <2>1. t \in [1 .. Len(s) -> TreeLoad]
    BY <1>1, <1>2
  <2> QED BY <1>1, <2>1
<1>4. q = RemoveAt(t, i)
  BY DEF AfterDelivery
<1> HIDE DEF t
<1>5. /\ q \in Seq(TreeLoad) /\ Len(q) = Len(s) - 1
      /\ \A j \in 1 .. Len(s) - 1 : q[j] = IF j < i THEN t[j] ELSE t[j + 1]
  <2>1. /\ RemoveAt(t, i) \in Seq(TreeLoad) /\ Len(RemoveAt(t, i)) = Len(t) - 1
        /\ \A j \in 1 .. Len(t) - 1 :
             RemoveAt(t, i)[j] = IF j < i THEN t[j] ELSE t[j + 1]
    BY <1>3, RemovedOne
  <2> QED BY <1>3, <1>4, <2>1
<1>6. ASSUME NEW j \in 1 .. Len(q)
      PROVE  \E k \in 1 .. Len(s) : k # i /\ q[j] = t[k]
  <2>1. CASE j < i
    BY <1>1, <1>5, <2>1
  <2>2. CASE ~ (j < i)
    <3>1. j + 1 \in 1 .. Len(s) /\ j + 1 # i /\ q[j] = t[j + 1]
      BY <1>1, <1>5, <2>2
    <3> QED BY <3>1
  <2> QED BY <2>1, <2>2
<1>7. ASSUME NEW k \in 1 .. Len(s), k # i
      PROVE  \E j \in 1 .. Len(q) : q[j] = t[k]
  <2>1. CASE k < i
    BY <1>1, <1>5, <2>1
  <2>2. CASE ~ (k < i)
    <3>1. k - 1 \in 1 .. Len(q) /\ ~ (k - 1 < i) /\ (k - 1) + 1 = k
      BY <1>1, <1>5, <1>7, <2>2
    <3>2. q[k - 1] = t[(k - 1) + 1]
      BY <1>5, <3>1
    <3> QED BY <3>1, <3>2
  <2> QED BY <2>1, <2>2
<1>8. \A j \in 1 .. Len(q) : \E k \in 1 .. Len(s) :
        k # i /\ SameLoad(q[j], s[k]) /\ LateLoad(q[j], s[k], s[i])
  BY <1>2, <1>6
<1>9. \A k \in 1 .. Len(s) : k # i => \E j \in 1 .. Len(q) : SameLoad(q[j], s[k])
  BY <1>2, <1>7
<1> QED BY <1>5, <1>8, <1>9

LEMMA FileDelivered ==
  ASSUME NEW s \in Seq(FileLoad), NEW i \in 1 .. Len(s), NEW q, q = AfterFile(s, i)
  PROVE  /\ q \in Seq(FileLoad) /\ Len(q) = Len(s) - 1
         /\ \A j \in 1 .. Len(q) : \E k \in 1 .. Len(s) :
              k # i /\ SameFileLoad(q[j], s[k]) /\ LateFileLoad(q[j], s[k], s[i], k < i)
         /\ \A k \in 1 .. Len(s) : k # i => \E j \in 1 .. Len(q) : SameFileLoad(q[j], s[k])
         /\ i # Len(s) => Len(q) > 0 /\ q[Len(q)].file = s[Len(s)].file
<1> DEFINE nowLate(j) == \/ s[j].late \/ Older(s[j], s[i])
                         \/ j < i /\ s[j].file # s[i].file
           t == [j \in DOMAIN s |-> [s[j] EXCEPT !.late = nowLate(j)]]
<1>1. Len(s) \in Nat /\ DOMAIN s = 1 .. Len(s) /\ \A j \in 1 .. Len(s) : s[j] \in FileLoad
  OBVIOUS
<1>2. ASSUME NEW j \in 1 .. Len(s)
      PROVE  /\ t[j] \in FileLoad
             /\ SameFileLoad(t[j], s[j])
             /\ LateFileLoad(t[j], s[j], s[i], j < i)
  <2>1. t[j] = [s[j] EXCEPT !.late = nowLate(j)]
    BY <1>1
  <2>2. nowLate(j) \in BOOLEAN
    OBVIOUS
  <2>3. nowLate(j) <=> s[j].late \/ Older(s[j], s[i]) \/ (j < i /\ s[j].file # s[i].file)
    OBVIOUS
  <2> HIDE DEF nowLate
  <2>4. t[j] \in FileLoad /\ SameFileLoad(t[j], s[j]) /\ t[j].late = nowLate(j)
    BY <1>1, <2>1, <2>2 DEF FileLoad, SameFileLoad
  <2> QED BY <2>3, <2>4 DEF LateFileLoad
<1>3. t \in Seq(FileLoad) /\ Len(t) = Len(s) /\ i \in 1 .. Len(t)
  <2>1. t \in [1 .. Len(s) -> FileLoad]
    BY <1>1, <1>2
  <2> QED BY <1>1, <2>1
<1>4. q = RemoveAt(t, i)
  <2>1. t = [j \in DOMAIN s |-> [s[j] EXCEPT !.late = \/ @ \/ Older(s[j], s[i])
                                                      \/ j < i /\ s[j].file # s[i].file]]
    OBVIOUS
  <2> QED BY <2>1 DEF AfterFile
<1> HIDE DEF t, nowLate
<1>5. /\ q \in Seq(FileLoad) /\ Len(q) = Len(s) - 1
      /\ \A j \in 1 .. Len(s) - 1 : q[j] = IF j < i THEN t[j] ELSE t[j + 1]
  <2>1. /\ RemoveAt(t, i) \in Seq(FileLoad) /\ Len(RemoveAt(t, i)) = Len(t) - 1
        /\ \A j \in 1 .. Len(t) - 1 :
             RemoveAt(t, i)[j] = IF j < i THEN t[j] ELSE t[j + 1]
    BY <1>3, RemovedOne
  <2> QED BY <1>3, <1>4, <2>1
<1>6. ASSUME NEW j \in 1 .. Len(q)
      PROVE  \E k \in 1 .. Len(s) : k # i /\ q[j] = t[k]
  <2>1. CASE j < i
    BY <1>1, <1>5, <2>1
  <2>2. CASE ~ (j < i)
    <3>1. j + 1 \in 1 .. Len(s) /\ j + 1 # i /\ q[j] = t[j + 1]
      BY <1>1, <1>5, <2>2
    <3> QED BY <3>1
  <2> QED BY <2>1, <2>2
<1>7. ASSUME NEW k \in 1 .. Len(s), k # i
      PROVE  \E j \in 1 .. Len(q) : q[j] = t[k]
  <2>1. CASE k < i
    BY <1>1, <1>5, <2>1
  <2>2. CASE ~ (k < i)
    <3>1. k - 1 \in 1 .. Len(q) /\ ~ (k - 1 < i) /\ (k - 1) + 1 = k
      BY <1>1, <1>5, <1>7, <2>2
    <3>2. q[k - 1] = t[(k - 1) + 1]
      BY <1>5, <3>1
    <3> QED BY <3>1, <3>2
  <2> QED BY <2>1, <2>2
<1>8. ASSUME i # Len(s) PROVE Len(q) > 0 /\ q[Len(q)].file = s[Len(s)].file
  <2>a. i \in Nat /\ 1 <= i /\ i <= Len(s)
    BY <1>1
  <2>0. i \in Nat /\ 1 <= i /\ i <= Len(s) /\ i < Len(s)
    <3>1. Len(s) \in Nat
      BY <1>1
    <3>2. \A m, n \in Nat : m <= n /\ m # n => m < n
      OBVIOUS
    <3>3. i < Len(s)
      BY <1>8, <2>a, <3>1, <3>2
    <3> QED BY <2>a, <3>3
  <2>1. /\ Len(q) \in 1 .. Len(s) - 1 /\ ~ (Len(q) < i) /\ Len(q) + 1 = Len(s)
        /\ Len(s) \in 1 .. Len(s) /\ Len(q) > 0
    BY <1>1, <1>5, <2>0
  <2>2. q[Len(q)] = t[Len(s)]
    BY <1>5, <2>1
  <2> QED BY <1>2, <2>1, <2>2 DEF SameFileLoad
<1>9. \A j \in 1 .. Len(q) : \E k \in 1 .. Len(s) :
        k # i /\ SameFileLoad(q[j], s[k]) /\ LateFileLoad(q[j], s[k], s[i], k < i)
  BY <1>2, <1>6
<1>10. \A k \in 1 .. Len(s) : k # i => \E j \in 1 .. Len(q) : SameFileLoad(q[j], s[k])
  BY <1>2, <1>7
<1> QED BY <1>5, <1>8, <1>9, <1>10

\* One element of one of the sequences is replaced.
LEMMA ReplacedOne ==
  ASSUME NEW P, NEW S, NEW q \in [P -> Seq(S)], NEW p \in P, NEW i \in 1 .. Len(q[p]),
         NEW x \in S
  PROVE  LET r == [q EXCEPT ![p] = [q[p] EXCEPT ![i] = x]]
         IN  /\ r \in [P -> Seq(S)] /\ Len(r[p]) = Len(q[p]) /\ r[p][i] = x
             /\ \A j \in 1 .. Len(q[p]) : j # i => r[p][j] = q[p][j]
             /\ \A o \in P : o # p => r[o] = q[o]
<1>1. q[p] \in Seq(S)
  OBVIOUS
<1>2. /\ [q[p] EXCEPT ![i] = x] \in Seq(S) /\ Len([q[p] EXCEPT ![i] = x]) = Len(q[p])
      /\ [q[p] EXCEPT ![i] = x][i] = x
      /\ \A j \in 1 .. Len(q[p]) : j # i => [q[p] EXCEPT ![i] = x][j] = q[p][j]
  BY <1>1, ExceptSeq
<1> QED BY <1>2

\* The state by what changes together.
DiskTyped ==
  /\ file \in [ExFile -> FileState] /\ reported \in [ExFile -> FileState]
  /\ edits \in 0 .. MaxEdits /\ watch \in {"no", "open", "closing"}
  /\ unscanned \subseteq WatchedFile
PagesTyped ==
  /\ asked \in [Page -> [watch : Nat, unwatch : Nat]] /\ clicks \in 0 .. MaxClicks
  /\ mounted \in [Page -> BOOLEAN] /\ expanded \in [Page -> BOOLEAN]
  /\ overtaken \in [Page -> SUBSET Views] /\ gap \in [Page -> [Views -> 0 .. MaxEdits]]
TreesTyped ==
  /\ tree \in [Page -> [live : SUBSET ExFile, ghosts : SUBSET ExFile, asOf : 0 .. MaxEdits,
                        loaded : BOOLEAN]]
  /\ loads \in [Page -> Seq(TreeLoad)] /\ events \in [Page -> Seq(FileEvent)]
  /\ deleted \in [Page -> SUBSET ExFile]
ViewersTyped ==
  /\ viewer \in [Page -> ExFile \cup {NoFile}]
  /\ content \in [Page -> [found : Found, asOf : 0 .. MaxEdits]]
  /\ hasFileChanged \in [Page -> BOOLEAN] /\ isDeletedFile \in [Page -> BOOLEAN]
  /\ fileLoads \in [Page -> Seq(FileLoad)]

ExplorerTypes == DiskTyped /\ PagesTyped /\ TreesTyped /\ ViewersTyped

\* A call is answered: it has what the disk has now, and the other calls are as before.
LEMMA TreeAnswered ==
  ASSUME TreesTyped, DiskTyped, NEW p \in Page, NEW i \in 1 .. Len(loads[p]), AnswerTree(p, i)
  PROVE  /\ loads' \in [Page -> Seq(TreeLoad)] /\ Len(loads'[p]) = Len(loads[p])
         /\ loads'[p][i].answered /\ loads'[p][i].live = Present /\ loads'[p][i].asOf = edits
         /\ loads'[p][i].late = loads[p][i].late /\ loads'[p][i].dead = loads[p][i].dead
         /\ \A j \in 1 .. Len(loads[p]) : j # i => loads'[p][j] = loads[p][j]
         /\ \A o \in Page : o # p => loads'[o] = loads[o]
<1>a. PICK q \in [Page -> Seq(TreeLoad)] : q = loads
  BY DEF TreesTyped
<1>b. PICK l \in SUBSET ExFile : l = Present
  BY DEF Present
<1>c. PICK a \in 0 .. MaxEdits : a = edits
  BY DEF DiskTyped
<1>d. i \in 1 .. Len(q[p])
  BY <1>a
<1> DEFINE x1 == [q[p][i] EXCEPT !.answered = TRUE]
           q1 == [q EXCEPT ![p] = [q[p] EXCEPT ![i] = x1]]
<1>1. q[p][i] \in TreeLoad
  BY <1>d
<1>2. x1 \in TreeLoad /\ x1.answered /\ x1.late = q[p][i].late /\ x1.dead = q[p][i].dead
  BY <1>1 DEF TreeLoad
<1>3. q1 = [q EXCEPT ![p][i].answered = TRUE]
  OBVIOUS
<1> HIDE DEF x1
<1>4. /\ q1 \in [Page -> Seq(TreeLoad)] /\ Len(q1[p]) = Len(q[p]) /\ q1[p][i] = x1
      /\ \A j \in 1 .. Len(q[p]) : j # i => q1[p][j] = q[p][j]
      /\ \A o \in Page : o # p => q1[o] = q[o]
  BY <1>2, <1>d, ReplacedOne
<1> HIDE DEF q1
<1> DEFINE x2 == [q1[p][i] EXCEPT !.live = l]
           q2 == [q1 EXCEPT ![p] = [q1[p] EXCEPT ![i] = x2]]
<1>5. x2 \in TreeLoad /\ x2.answered /\ x2.live = l /\ x2.late = x1.late /\ x2.dead = x1.dead
  BY <1>2, <1>4 DEF TreeLoad
<1>6. q2 = [q1 EXCEPT ![p][i].live = l]
  OBVIOUS
<1> HIDE DEF x2
<1>7. /\ q2 \in [Page -> Seq(TreeLoad)] /\ Len(q2[p]) = Len(q1[p]) /\ q2[p][i] = x2
      /\ \A j \in 1 .. Len(q1[p]) : j # i => q2[p][j] = q1[p][j]
      /\ \A o \in Page : o # p => q2[o] = q1[o]
  BY <1>4, <1>5, <1>d, ReplacedOne
<1> HIDE DEF q2
<1> DEFINE x3 == [q2[p][i] EXCEPT !.asOf = a]
           q3 == [q2 EXCEPT ![p] = [q2[p] EXCEPT ![i] = x3]]
<1>8. /\ x3 \in TreeLoad /\ x3.answered /\ x3.live = l /\ x3.asOf = a
      /\ x3.late = x2.late /\ x3.dead = x2.dead
  BY <1>5, <1>7 DEF TreeLoad
<1>9. q3 = [q2 EXCEPT ![p][i].asOf = a]
  OBVIOUS
<1> HIDE DEF x3
<1>10. /\ q3 \in [Page -> Seq(TreeLoad)] /\ Len(q3[p]) = Len(q2[p]) /\ q3[p][i] = x3
       /\ \A j \in 1 .. Len(q2[p]) : j # i => q3[p][j] = q2[p][j]
       /\ \A o \in Page : o # p => q3[o] = q2[o]
  BY <1>4, <1>7, <1>8, <1>d, ReplacedOne
<1> HIDE DEF q3
<1>11. loads' = q3
  BY <1>3, <1>6, <1>9, <1>a, <1>b, <1>c DEF AnswerTree
<1>12. loads'[p][i].answered /\ loads'[p][i].live = Present /\ loads'[p][i].asOf = edits
  BY <1>8, <1>10, <1>11, <1>b, <1>c
<1>13. loads'[p][i].late = loads[p][i].late /\ loads'[p][i].dead = loads[p][i].dead
  BY <1>2, <1>5, <1>8, <1>10, <1>11, <1>a
<1>14. /\ loads' \in [Page -> Seq(TreeLoad)] /\ Len(loads'[p]) = Len(loads[p])
       /\ \A j \in 1 .. Len(loads[p]) : j # i => loads'[p][j] = loads[p][j]
       /\ \A o \in Page : o # p => loads'[o] = loads[o]
  BY <1>4, <1>7, <1>10, <1>11, <1>a
<1> QED BY <1>12, <1>13, <1>14

LEMMA FileAnswered ==
  ASSUME ViewersTyped, DiskTyped, NEW p \in Page, NEW i \in 1 .. Len(fileLoads[p]),
         AnswerFile(p, i)
  PROVE  /\ fileLoads' \in [Page -> Seq(FileLoad)] /\ Len(fileLoads'[p]) = Len(fileLoads[p])
         /\ fileLoads'[p][i].answered /\ fileLoads'[p][i].asOf = edits
         /\ LET f == fileLoads[p][i].file
            IN  fileLoads'[p][i].found = IF file[f].there THEN <<f, file[f].version>> ELSE <<>>
         /\ fileLoads'[p][i].late = fileLoads[p][i].late
         /\ fileLoads'[p][i].file = fileLoads[p][i].file
         /\ \A j \in 1 .. Len(fileLoads[p]) : j # i => fileLoads'[p][j] = fileLoads[p][j]
         /\ \A o \in Page : o # p => fileLoads'[o] = fileLoads[o]
<1>a. PICK q \in [Page -> Seq(FileLoad)] : q = fileLoads
  BY DEF ViewersTyped
<1> DEFINE f == fileLoads[p][i].file
           found == IF file[f].there THEN <<f, file[f].version>> ELSE <<>>
<1>e. found \in Found
  <2>1. f \in ExFile
    <3>1. fileLoads[p] \in Seq(FileLoad)
      BY DEF ViewersTyped
    <3>2. fileLoads[p][i] \in FileLoad
      BY <3>1
    <3> QED BY <3>2 DEF FileLoad
  <2>2. file[f].version \in 0 .. MaxEdits
    BY <2>1 DEF DiskTyped, FileState
  <2> QED BY <2>1, <2>2 DEF Found
<1>b. PICK l \in Found : l = found
  BY <1>e
<1>c. PICK a \in 0 .. MaxEdits : a = edits
  BY DEF DiskTyped
<1>d. i \in 1 .. Len(q[p])
  BY <1>a
<1>f. AnswerFile(p, i) => fileLoads' = [fileLoads EXCEPT ![p][i].answered = TRUE,
                                         ![p][i].asOf = edits, ![p][i].found = found]
  BY DEF AnswerFile
<1> HIDE DEF f, found
<1> DEFINE x1 == [q[p][i] EXCEPT !.answered = TRUE]
           q1 == [q EXCEPT ![p] = [q[p] EXCEPT ![i] = x1]]
<1>1. q[p][i] \in FileLoad
  BY <1>d
<1>2. x1 \in FileLoad /\ x1.answered /\ x1.late = q[p][i].late /\ x1.file = q[p][i].file
  BY <1>1 DEF FileLoad
<1>3. q1 = [q EXCEPT ![p][i].answered = TRUE]
  OBVIOUS
<1> HIDE DEF x1
<1>4. /\ q1 \in [Page -> Seq(FileLoad)] /\ Len(q1[p]) = Len(q[p]) /\ q1[p][i] = x1
      /\ \A j \in 1 .. Len(q[p]) : j # i => q1[p][j] = q[p][j]
      /\ \A o \in Page : o # p => q1[o] = q[o]
  BY <1>2, <1>d, ReplacedOne
<1> HIDE DEF q1
<1> DEFINE x2 == [q1[p][i] EXCEPT !.asOf = a]
           q2 == [q1 EXCEPT ![p] = [q1[p] EXCEPT ![i] = x2]]
<1>5. x2 \in FileLoad /\ x2.answered /\ x2.asOf = a /\ x2.late = x1.late /\ x2.file = x1.file
  BY <1>2, <1>4 DEF FileLoad
<1>6. q2 = [q1 EXCEPT ![p][i].asOf = a]
  OBVIOUS
<1> HIDE DEF x2
<1>7. /\ q2 \in [Page -> Seq(FileLoad)] /\ Len(q2[p]) = Len(q1[p]) /\ q2[p][i] = x2
      /\ \A j \in 1 .. Len(q1[p]) : j # i => q2[p][j] = q1[p][j]
      /\ \A o \in Page : o # p => q2[o] = q1[o]
  BY <1>4, <1>5, <1>d, ReplacedOne
<1> HIDE DEF q2
<1> DEFINE x3 == [q2[p][i] EXCEPT !.found = l]
           q3 == [q2 EXCEPT ![p] = [q2[p] EXCEPT ![i] = x3]]
<1>8. /\ x3 \in FileLoad /\ x3.answered /\ x3.found = l /\ x3.asOf = a
      /\ x3.late = x2.late /\ x3.file = x2.file
  BY <1>5, <1>7 DEF FileLoad
<1>9. q3 = [q2 EXCEPT ![p][i].found = l]
  OBVIOUS
<1> HIDE DEF x3
<1>10. /\ q3 \in [Page -> Seq(FileLoad)] /\ Len(q3[p]) = Len(q2[p]) /\ q3[p][i] = x3
       /\ \A j \in 1 .. Len(q2[p]) : j # i => q3[p][j] = q2[p][j]
       /\ \A o \in Page : o # p => q3[o] = q2[o]
  BY <1>4, <1>7, <1>8, <1>d, ReplacedOne
<1> HIDE DEF q3
<1>11. fileLoads' = q3
  BY <1>3, <1>6, <1>9, <1>a, <1>b, <1>c, <1>f
<1>12. LET g == fileLoads[p][i].file
       IN  l = IF file[g].there THEN <<g, file[g].version>> ELSE <<>>
  BY <1>b DEF f, found
<1>13. fileLoads'[p][i].found = l
  BY <1>8, <1>10, <1>11
<1>14. fileLoads'[p][i].answered /\ fileLoads'[p][i].asOf = edits
  BY <1>8, <1>10, <1>11, <1>c
<1>15. /\ fileLoads'[p][i].late = fileLoads[p][i].late
       /\ fileLoads'[p][i].file = fileLoads[p][i].file
  BY <1>2, <1>5, <1>8, <1>10, <1>11, <1>a
<1>16. /\ fileLoads' \in [Page -> Seq(FileLoad)] /\ Len(fileLoads'[p]) = Len(fileLoads[p])
       /\ \A j \in 1 .. Len(fileLoads[p]) : j # i => fileLoads'[p][j] = fileLoads[p][j]
       /\ \A o \in Page : o # p => fileLoads'[o] = fileLoads[o]
  BY <1>4, <1>7, <1>10, <1>11, <1>a
<1> QED BY <1>12, <1>13, <1>14, <1>15, <1>16

LEMMA ExplorerTypesImply == ExplorerTypes => ExplorerTypeOK
<1> SUFFICES ASSUME ExplorerTypes PROVE ExplorerTypeOK
  OBVIOUS
<1> USE DEF ExplorerTypes
<1>1. ASSUME NEW p \in Page
      PROVE  /\ events[p] \in Seq([type : {"added", "changed", "removed"}, file : ExFile])
             /\ loads[p] \in Seq([answered : BOOLEAN, live : SUBSET ExFile, asOf : 0 .. MaxEdits,
                                   late : BOOLEAN, dead : BOOLEAN])
  BY DEF TreesTyped, TreeLoad, FileEvent
<1>2. ASSUME NEW p \in Page
      PROVE  content[p].found = <<>> \/ content[p].found \in ExFile \X (0 .. MaxEdits)
  <2>1. content[p].found \in Found
    BY DEF ViewersTyped
  <2> QED BY <2>1 DEF Found
<1>3. /\ file \in [ExFile -> [version : 0 .. MaxEdits, there : BOOLEAN]]
      /\ reported \in [ExFile -> [version : 0 .. MaxEdits, there : BOOLEAN]]
      /\ edits \in 0 .. MaxEdits /\ watch \in {"no", "open", "closing"}
      /\ unscanned \subseteq WatchedFile
  BY DEF DiskTyped, FileState
<1>4. /\ asked \in [Page -> [watch : Nat, unwatch : Nat]] /\ clicks \in 0 .. MaxClicks
      /\ mounted \in [Page -> BOOLEAN] /\ expanded \in [Page -> BOOLEAN]
      /\ overtaken \in [Page -> SUBSET Views] /\ gap \in [Page -> [Views -> 0 .. MaxEdits]]
  BY DEF PagesTyped
<1>5. /\ tree \in [Page -> [live : SUBSET ExFile, ghosts : SUBSET ExFile, asOf : 0 .. MaxEdits,
                            loaded : BOOLEAN]]
      /\ deleted \in [Page -> SUBSET ExFile]
  BY DEF TreesTyped
<1>6. /\ viewer \in [Page -> ExFile \cup {NoFile}]
      /\ hasFileChanged \in [Page -> BOOLEAN] /\ isDeletedFile \in [Page -> BOOLEAN]
  BY DEF ViewersTyped
<1> QED BY <1>1, <1>2, <1>3, <1>4, <1>5, <1>6 DEF ExplorerTypeOK

LEMMA NewTyped ==
  /\ NewLoad \in TreeLoad /\ Older(NewLoad, NewLoad) \in BOOLEAN
  /\ NoTree \in [live : SUBSET ExFile, ghosts : SUBSET ExFile, asOf : 0 .. MaxEdits,
                 loaded : BOOLEAN]
  /\ NoContent \in [found : Found, asOf : 0 .. MaxEdits]
  /\ \A f \in ExFile : [file |-> f, answered |-> FALSE, asOf |-> 0, found |-> <<>>,
                        late |-> FALSE] \in FileLoad
  /\ \A f \in ExFile, v \in 0 .. MaxEdits : <<f, v>> \in Found /\ <<f, v>> # <<>>
  /\ 0 \in 0 .. MaxEdits
<1>1. 0 \in 0 .. MaxEdits
  BY ExplorerAssumption
<1>2. <<>> \in Found
  BY DEF Found
<1>3. \A f \in ExFile, v \in 0 .. MaxEdits : <<f, v>> \in Found /\ <<f, v>> # <<>>
  BY DEF Found
<1>4. NewLoad \in TreeLoad
  BY <1>1 DEF NewLoad, TreeLoad
<1>5. \A f \in ExFile : [file |-> f, answered |-> FALSE, asOf |-> 0, found |-> <<>>,
                         late |-> FALSE] \in FileLoad
  BY <1>1, <1>2 DEF FileLoad
<1> QED BY <1>1, <1>2, <1>3, <1>4, <1>5 DEF NoTree, NoContent, Older

LEMMA ExplorerTypesKept ==
  ASSUME ExplorerTypes, [ExplorerNext]_explorerVars PROVE ExplorerTypes'
<1> USE DEF ExplorerTypes, serverVars, viewerVars
<1>0. MaxEdits \in Nat /\ MaxClicks \in Nat
  BY ExplorerAssumption
<1>a. /\ UNCHANGED <<file, reported, edits, watch, unscanned>> => DiskTyped'
      /\ UNCHANGED <<asked, clicks, mounted, expanded, overtaken, gap>> => PagesTyped'
      /\ UNCHANGED <<tree, loads, events, deleted>> => TreesTyped'
      /\ UNCHANGED <<viewer, content, hasFileChanged, isDeletedFile, fileLoads>> => ViewersTyped'
  BY DEF DiskTyped, PagesTyped, TreesTyped, ViewersTyped
<1>c. Click => clicks' \in 0 .. MaxClicks
  BY <1>0 DEF Click, PagesTyped
<1>1. ASSUME NEW f \in ExFile, Edit(f) PROVE ExplorerTypes'
  <2>1. edits' \in 0 .. MaxEdits /\ edits + 1 \in 0 .. MaxEdits
    BY <1>0, <1>1 DEF Edit, DiskTyped
  <2>2. file' \in [ExFile -> FileState]
    BY <1>1, <2>1 DEF Edit, DiskTyped, FileState
  <2>3. DiskTyped'
    BY <1>1, <2>1, <2>2 DEF Edit, DiskTyped
  <2> QED BY <1>1, <1>a, <2>3 DEF Edit
<1>b. AllPassOver => gap' \in [Page -> [Views -> 0 .. MaxEdits]]
  BY DEF AllPassOver, DiskTyped
<1>2. ASSUME NEW f \in ExFile, Report(f) PROVE ExplorerTypes'
  <2>1. DiskTyped'
    BY <1>2 DEF Report, DiskTyped
  <2>2. [type |-> EventType(f), file |-> f] \in FileEvent
    BY DEF EventType, FileEvent
  <2>3. events' \in [Page -> Seq(FileEvent)]
    <3>1. ASSUME NEW p \in Page
          PROVE  Append(events[p], [type |-> EventType(f), file |-> f]) \in Seq(FileEvent)
      <4>1. events[p] \in Seq(FileEvent)
        BY DEF TreesTyped
      <4> QED BY <2>2, <4>1, AppendProperties
    <3> QED BY <1>2, <3>1 DEF Report
  <2>4. TreesTyped'
    BY <1>2, <2>3 DEF Report, TreesTyped
  <2> QED BY <1>2, <1>a, <2>1, <2>4 DEF Report
<1>3. ASSUME NEW f \in ExFile, Unnoticed(f) \/ Scan(f) PROVE ExplorerTypes'
  <2>1. DiskTyped'
    BY <1>3 DEF Unnoticed, Scan, DiskTyped
  <2>2. PagesTyped'
    BY <1>3, <1>b DEF Unnoticed, Scan, PagesTyped
  <2> QED BY <1>3, <1>a, <2>1, <2>2 DEF Unnoticed, Scan
<1>w. Watch \/ Unwatch => watch' \in {"no", "open", "closing"} /\ unscanned' \subseteq WatchedFile
  BY DEF Watch, Unwatch, DiskTyped
<1>4. CASE WatcherClosed \/ TaskWatches \/ TaskUnwatches
  <2>1. DiskTyped'
    BY <1>4, <1>w DEF WatcherClosed, TaskWatches, TaskUnwatches, DiskTyped
  <2> QED BY <1>4, <1>a, <2>1 DEF WatcherClosed, TaskWatches, TaskUnwatches
<1>5. ASSUME NEW p \in Page, HandleWatch(p) \/ HandleUnwatch(p) PROVE ExplorerTypes'
  <2>1. DiskTyped'
    BY <1>5, <1>w DEF HandleWatch, HandleUnwatch, DiskTyped
  <2>2. PagesTyped'
    <3>1. asked[p].watch \in Nat /\ asked[p].unwatch \in Nat
      BY DEF PagesTyped
    <3>2. CASE HandleWatch(p)
      <4>1. asked[p].watch - 1 \in Nat
        BY <3>1, <3>2 DEF HandleWatch
      <4>2. asked' \in [Page -> [watch : Nat, unwatch : Nat]]
        BY <3>2, <4>1 DEF HandleWatch, PagesTyped
      <4> QED BY <3>2, <4>2 DEF HandleWatch, PagesTyped
    <3>3. CASE HandleUnwatch(p)
      <4>1. asked[p].unwatch - 1 \in Nat
        BY <3>1, <3>3 DEF HandleUnwatch
      <4>2. asked' \in [Page -> [watch : Nat, unwatch : Nat]]
        BY <3>3, <4>1 DEF HandleUnwatch, PagesTyped
      <4> QED BY <3>3, <4>2 DEF HandleUnwatch, PagesTyped
    <3> QED BY <1>5, <3>2, <3>3
  <2> QED BY <1>5, <1>a, <2>1, <2>2 DEF HandleWatch, HandleUnwatch
<1>6. ASSUME NEW p \in Page, NEW i \in DOMAIN loads[p], AnswerTree(p, i) PROVE ExplorerTypes'
  <2>1. i \in 1 .. Len(loads[p])
    BY DEF TreesTyped
  <2>3. loads' \in [Page -> Seq(TreeLoad)]
    BY <1>6, <2>1, TreeAnswered
  <2>6. TreesTyped'
    BY <1>6, <2>3 DEF AnswerTree, TreesTyped
  <2> QED BY <1>6, <1>a, <2>6 DEF AnswerTree
<1>7. ASSUME NEW p \in Page, NEW i \in DOMAIN loads[p], TreeArrives(p, i) PROVE ExplorerTypes'
  <2>1. loads[p] \in Seq(TreeLoad) /\ i \in 1 .. Len(loads[p]) /\ loads[p][i] \in TreeLoad
    BY DEF TreesTyped
  <2>2. AfterDelivery(loads[p], i) \in Seq(TreeLoad)
    BY <2>1, TreeDelivered
  <2>3. loads' \in [Page -> Seq(TreeLoad)]
    BY <1>7, <2>2 DEF TreeArrives, TreesTyped
  <2>4. tree' \in [Page -> [live : SUBSET ExFile, ghosts : SUBSET ExFile, asOf : 0 .. MaxEdits,
                            loaded : BOOLEAN]]
    <3> DEFINE shown == [live |-> loads[p][i].live, asOf |-> loads[p][i].asOf, loaded |-> TRUE,
                         ghosts |-> deleted[p] \ loads[p][i].live]
    <3>1. shown \in [live : SUBSET ExFile, ghosts : SUBSET ExFile, asOf : 0 .. MaxEdits,
                     loaded : BOOLEAN]
      BY <2>1 DEF TreesTyped, TreeLoad
    <3>2. tree' = tree \/ tree' = [tree EXCEPT ![p] = shown]
      BY <1>7 DEF TreeArrives
    <3> HIDE DEF shown
    <3> QED BY <3>1, <3>2 DEF TreesTyped
  <2>a. /\ overtaken \in [Page -> SUBSET Views]
        /\ asked \in [Page -> [watch : Nat, unwatch : Nat]]
    BY DEF PagesTyped
  <2>5. overtaken' \in [Page -> SUBSET Views]
    BY <1>7, <2>a DEF TreeArrives, Views
  <2>6. asked' \in [Page -> [watch : Nat, unwatch : Nat]]
    BY <1>7, <2>a DEF TreeArrives
  <2> QED BY <1>7, <1>a, <2>3, <2>4, <2>5, <2>6 DEF TreeArrives, PagesTyped, TreesTyped
<1>8. ASSUME NEW p \in Page, NEW i \in DOMAIN fileLoads[p], AnswerFile(p, i) PROVE ExplorerTypes'
  <2>1. i \in 1 .. Len(fileLoads[p])
    BY DEF ViewersTyped
  <2>5. fileLoads' \in [Page -> Seq(FileLoad)]
    BY <1>8, <2>1, FileAnswered
  <2>7. ViewersTyped'
    BY <1>8, <2>5 DEF AnswerFile, ViewersTyped
  <2> QED BY <1>8, <1>a, <2>7 DEF AnswerFile
<1>9. ASSUME NEW p \in Page, OpenExplorer(p) \/ Refresh(p) PROVE ExplorerTypes'
  <2>1. loads' \in [Page -> Seq(TreeLoad)]
    <3>1. loads[p] \in Seq(TreeLoad)
      BY DEF TreesTyped
    <3>2. Append(loads[p], NewLoad) \in Seq(TreeLoad)
      BY <3>1, NewTyped, AppendProperties
    <3> QED BY <1>9, <3>2 DEF OpenExplorer, Refresh, TreesTyped
  <2>2. TreesTyped'
    BY <1>9, <2>1, NewTyped, ZenonT(40) DEF OpenExplorer, Refresh, TreesTyped
  <2>3. PagesTyped'
    BY <1>9, <1>c DEF OpenExplorer, Refresh, PagesTyped
  <2> QED BY <1>9, <1>a, <2>2, <2>3 DEF OpenExplorer, Refresh
<1>10. ASSUME NEW p \in Page, Toggle(p) PROVE ExplorerTypes'
  <2>1. PagesTyped'
    BY <1>10, <1>c DEF Toggle, PagesTyped
  <2> QED BY <1>10, <1>a, <2>1 DEF Toggle
<1>11. ASSUME NEW p \in Page, NEW f \in ExFile, LoadFile(p, f)
       PROVE  /\ content' \in [Page -> [found : Found, asOf : 0 .. MaxEdits]]
              /\ hasFileChanged' \in [Page -> BOOLEAN] /\ isDeletedFile' \in [Page -> BOOLEAN]
              /\ fileLoads' \in [Page -> Seq(FileLoad)]
  <2> DEFINE load == [file |-> f, answered |-> FALSE, asOf |-> 0, found |-> <<>>, late |-> FALSE]
  <2>1. Append(fileLoads[p], load) \in Seq(FileLoad)
    <3>1. fileLoads[p] \in Seq(FileLoad) /\ load \in FileLoad
      BY NewTyped DEF ViewersTyped
    <3> QED BY <3>1, AppendProperties
  <2>2. fileLoads' \in [Page -> Seq(FileLoad)]
    BY <1>11, <2>1 DEF LoadFile, ViewersTyped
  <2>3. content' \in [Page -> [found : Found, asOf : 0 .. MaxEdits]]
    BY <1>11, NewTyped DEF LoadFile, ViewersTyped
  <2>4. hasFileChanged' \in [Page -> BOOLEAN]
    BY <1>11 DEF LoadFile, ViewersTyped
  <2>5. isDeletedFile' \in [Page -> BOOLEAN]
    BY <1>11 DEF LoadFile, ViewersTyped
  <2> QED BY <2>2, <2>3, <2>4, <2>5
<1>12. ASSUME NEW p \in Page, NEW f \in ExFile, SelectFile(p, f) PROVE ExplorerTypes'
  <2>1. viewer' \in [Page -> ExFile \cup {NoFile}]
    BY <1>12 DEF SelectFile, ViewersTyped
  <2>2. ViewersTyped'
    BY <1>11, <1>12, <2>1 DEF SelectFile, ViewersTyped
  <2>3. asked' \in [Page -> [watch : Nat, unwatch : Nat]]
    BY <1>12 DEF SelectFile, PagesTyped
  <2>4. PagesTyped'
    BY <1>12, <1>c, <2>3 DEF SelectFile, PagesTyped
  <2> QED BY <1>12, <1>a, <2>2, <2>4 DEF SelectFile
<1>13. ASSUME NEW p \in Page, ReloadFile(p) PROVE ExplorerTypes'
  <2>1. viewer[p] \in ExFile
    BY <1>13 DEF ReloadFile, ViewersTyped
  <2>2. ViewersTyped'
    BY <1>11, <1>13, <2>1 DEF ReloadFile, ViewersTyped
  <2>3. PagesTyped'
    BY <1>13, <1>c DEF ReloadFile, PagesTyped
  <2> QED BY <1>13, <1>a, <2>2, <2>3 DEF ReloadFile
<1>14. ASSUME NEW p \in Page, NEW i \in DOMAIN fileLoads[p], FileArrives(p, i)
       PROVE  ExplorerTypes'
  <2>1. /\ fileLoads[p] \in Seq(FileLoad) /\ i \in 1 .. Len(fileLoads[p])
        /\ fileLoads[p][i] \in FileLoad
    BY DEF ViewersTyped
  <2>2. AfterFile(fileLoads[p], i) \in Seq(FileLoad)
    BY <2>1, FileDelivered
  <2>3. fileLoads' \in [Page -> Seq(FileLoad)]
    BY <1>14, <2>2 DEF FileArrives, ViewersTyped
  <2>4. content' \in [Page -> [found : Found, asOf : 0 .. MaxEdits]]
    BY <1>14, <2>1 DEF FileArrives, ViewersTyped, FileLoad
  <2>5. ViewersTyped'
    BY <1>14, <2>3, <2>4 DEF FileArrives, ViewersTyped
  <2>6. PagesTyped'
    BY <1>14 DEF FileArrives, PagesTyped, Views
  <2> QED BY <1>14, <1>a, <2>5, <2>6 DEF FileArrives
<1>15. ASSUME NEW p \in Page, ViewerGone(p) PROVE ViewersTyped'
  <2>1. <<>> \in Seq(FileLoad)
    OBVIOUS
  <2>2. fileLoads' \in [Page -> Seq(FileLoad)]
    BY <1>15, <2>1 DEF ViewerGone, ViewersTyped
  <2> QED BY <1>15, <2>2, NewTyped DEF ViewerGone, ViewersTyped
<1>16. ASSUME NEW p \in Page, CloseViewer(p) PROVE ExplorerTypes'
  <2>1. asked' \in [Page -> [watch : Nat, unwatch : Nat]]
    BY <1>16 DEF CloseViewer, PagesTyped
  <2>2. PagesTyped'
    BY <1>16, <1>c, <2>1 DEF CloseViewer, PagesTyped, Views
  <2> QED BY <1>15, <1>16, <1>a, <2>2 DEF CloseViewer
<1>17. ASSUME NEW p \in Page, LeaveExplorer(p) PROVE ExplorerTypes'
  <2>1. asked' \in [Page -> [watch : Nat, unwatch : Nat]]
    BY <1>17 DEF LeaveExplorer, PagesTyped
  <2>2. PagesTyped'
    BY <1>17, <1>c, <2>1 DEF LeaveExplorer, PagesTyped, Views
  <2>3. loads' \in [Page -> Seq(TreeLoad)]
    <3> DEFINE left == [j \in DOMAIN loads[p] |-> [loads[p][j] EXCEPT !.dead = TRUE]]
    <3>1. /\ Len(loads[p]) \in Nat /\ DOMAIN loads[p] = 1 .. Len(loads[p])
          /\ \A j \in DOMAIN loads[p] : loads[p][j] \in TreeLoad
      BY DEF TreesTyped
    <3>2. \A j \in DOMAIN loads[p] : [loads[p][j] EXCEPT !.dead = TRUE] \in TreeLoad
      BY <3>1 DEF TreeLoad
    <3>3. left \in Seq(TreeLoad)
      BY <3>1, <3>2
    <3>4. loads' = [loads EXCEPT ![p] = left]
      BY <1>17 DEF LeaveExplorer
    <3> HIDE DEF left
    <3> QED BY <3>3, <3>4 DEF TreesTyped
  <2>4. TreesTyped'
    BY <1>17, <2>3, NewTyped DEF LeaveExplorer, TreesTyped
  <2> QED BY <1>15, <1>17, <1>a, <2>2, <2>4 DEF LeaveExplorer
<1>18. ASSUME NEW p \in Page, NEW i \in DOMAIN events[p], EventArrives(p, i)
       PROVE  ExplorerTypes'
  <2>1. /\ events[p] \in Seq(FileEvent) /\ i \in 1 .. Len(events[p])
        /\ loads[p] \in Seq(TreeLoad)
    BY DEF TreesTyped
  <2>2. events[p][i] \in FileEvent /\ RemoveAt(events[p], i) \in Seq(FileEvent)
    BY <2>1, RemovedOne
  <2>3. Append(loads[p], NewLoad) \in Seq(TreeLoad)
    BY <2>1, NewTyped, AppendProperties
  <2>4. events' \in [Page -> Seq(FileEvent)]
    BY <1>18, <2>2 DEF EventArrives, TreesTyped
  <2>5. loads' \in [Page -> Seq(TreeLoad)]
    BY <1>18, <2>1, <2>3 DEF EventArrives, TreesTyped
  <2>6. deleted' \in [Page -> SUBSET ExFile]
    <3>1. events[p][i].file \in ExFile
      BY <2>2 DEF FileEvent
    <3> QED BY <1>18, <3>1 DEF EventArrives, TreesTyped
  <2>7. PagesTyped'
    <3>1. gap[p] \in [Views -> 0 .. MaxEdits] /\ edits \in 0 .. MaxEdits
      BY DEF PagesTyped, DiskTyped
    <3>2. gap' = [gap EXCEPT ![p] =
                    [v \in Views |-> IF v \in PassOver(p, events[p][i]) THEN edits ELSE gap[p][v]]]
      BY <1>18 DEF EventArrives, PagesTyped
    <3>3. gap' \in [Page -> [Views -> 0 .. MaxEdits]]
      BY <3>1, <3>2 DEF PagesTyped
    <3> QED BY <1>18, <3>3 DEF EventArrives, PagesTyped
  <2>8. TreesTyped'
    BY <1>18, <2>4, <2>5, <2>6 DEF EventArrives, TreesTyped
  <2>9. /\ hasFileChanged' \in [Page -> BOOLEAN] /\ isDeletedFile' \in [Page -> BOOLEAN]
        /\ content' \in [Page -> [found : Found, asOf : 0 .. MaxEdits]]
    <3>1. hasFileChanged' \in [Page -> BOOLEAN]
      BY <1>18 DEF EventArrives, ViewersTyped
    <3>2. isDeletedFile' \in [Page -> BOOLEAN]
      BY <1>18 DEF EventArrives, ViewersTyped
    <3>3. content' \in [Page -> [found : Found, asOf : 0 .. MaxEdits]]
      BY <1>18, NewTyped DEF EventArrives, ViewersTyped
    <3> QED BY <3>1, <3>2, <3>3
  <2>10. ViewersTyped'
    BY <1>18, <2>9 DEF EventArrives, ViewersTyped
  <2> QED BY <1>18, <1>a, <2>7, <2>8, <2>10 DEF EventArrives
<1>21. ASSUME NEW p \in Page, NEW i \in DOMAIN events[p], EventMissed(p, i) PROVE ExplorerTypes'
  <2>1. events[p] \in Seq(FileEvent) /\ i \in 1 .. Len(events[p])
    BY DEF TreesTyped
  <2>2. RemoveAt(events[p], i) \in Seq(FileEvent)
    BY <2>1, RemovedOne
  <2>3. TreesTyped'
    BY <1>21, <2>2 DEF EventMissed, TreesTyped
  <2>4. PagesTyped'
    BY <1>21 DEF EventMissed, PagesTyped, DiskTyped
  <2> QED BY <1>21, <1>a, <2>3, <2>4 DEF EventMissed
<1>19. ASSUME NEW p \in Page, DeletedExpires(p) PROVE ExplorerTypes'
  <2>1. TreesTyped'
    BY <1>19 DEF DeletedExpires, TreesTyped
  <2> QED BY <1>19, <1>a, <2>1 DEF DeletedExpires
<1>20. CASE UNCHANGED explorerVars
  BY <1>20, <1>a DEF explorerVars
<1> QED BY <1>1, <1>2, <1>3, <1>4, <1>5, <1>6, <1>7, <1>8, <1>9, <1>10, <1>12, <1>13, <1>14,
          <1>16, <1>17, <1>18, <1>19, <1>20, <1>21 DEF ExplorerNext

-----------------------------------------------------------------------------
(* Explorer: what pages show. *)

\* A change of file f that the tree of page p does not show is under way to it: the
\* watcher has still to report it, an event or a loadTree call brings it, or it passed
\* the tree by.
Underway(p, f) ==
  \/ reported[f] # file[f]
  \/ \E k \in DOMAIN events[p] : events[p][k].file = f
  \/ gap[p]["tree"] >= file[f].version
  \/ \E j \in DOMAIN loads[p] :
       /\ ~ loads[p][j].dead
       /\ ~ loads[p][j].answered \/ loads[p][j].asOf >= file[f].version

\* The newest answer the tree has been given is of change m, and so is the one it shows
\* unless it was overtaken; answers that are not late are not older.
TreeAt(p, m) ==
  /\ mounted[p] => \A f \in ExFile : file[f].version <= m \/ Underway(p, f)
  /\ tree[p].loaded /\ "tree" \notin overtaken[p] => tree[p].asOf = m
  /\ \A j \in DOMAIN loads[p] :
       ~ loads[p][j].dead /\ loads[p][j].answered /\ ~ loads[p][j].late
         => loads[p][j].asOf >= m

TreeFollows(p) == \E m \in 0 .. edits : TreeAt(p, m)

\* The files that were there at change a, as far as they have not changed since.
LiveAsOf(live, a) == \A f \in ExFile : file[f].version <= a => (f \in live <=> file[f].there)

TreeOnce(p) ==
  /\ tree[p].loaded => LiveAsOf(tree[p].live, tree[p].asOf) /\ tree[p].asOf <= edits
  /\ \A j \in DOMAIN loads[p] : loads[p][j].answered =>
       LiveAsOf(loads[p][j].live, loads[p][j].asOf) /\ loads[p][j].asOf <= edits
  /\ ~ mounted[p] => ~ tree[p].loaded /\ \A j \in DOMAIN loads[p] : loads[p][j].dead

Versions == \A f \in ExFile : file[f].version <= edits /\ reported[f].version <= edits

TreesInv == Versions /\ \A p \in Page : TreeFollows(p) /\ TreeOnce(p)

\* What a step leaves alone.
DiskKeeps(p) ==
  UNCHANGED <<file, edits, reported>> /\ events'[p] = events[p] /\ gap'[p] = gap[p]
TreeKeeps(p) ==
  /\ mounted'[p] = mounted[p] /\ tree'[p] = tree[p] /\ loads'[p] = loads[p]
  /\ "tree" \in overtaken'[p] <=> "tree" \in overtaken[p]

LEMMA ExplorerShapes ==
  ASSUME ExplorerTypes
  PROVE  /\ edits \in Nat
         /\ \A f \in ExFile : file[f].version \in Nat /\ reported[f].version \in Nat
         /\ \A p \in Page :
              /\ tree[p].asOf \in Nat /\ tree[p].live \subseteq ExFile
              /\ gap[p]["tree"] \in Nat /\ gap[p]["viewer"] \in Nat
              /\ events[p] \in Seq(FileEvent)
              /\ loads[p] \in Seq(TreeLoad) /\ DOMAIN loads[p] = 1 .. Len(loads[p])
              /\ \A j \in DOMAIN loads[p] : loads[p][j] \in TreeLoad /\ loads[p][j].asOf \in Nat
              /\ content[p].found \in Found /\ content[p].asOf \in Nat
              /\ fileLoads[p] \in Seq(FileLoad) /\ DOMAIN fileLoads[p] = 1 .. Len(fileLoads[p])
              /\ \A j \in DOMAIN fileLoads[p] :
                   /\ fileLoads[p][j] \in FileLoad /\ fileLoads[p][j].asOf \in Nat
                   /\ fileLoads[p][j].found \in Found /\ fileLoads[p][j].file \in ExFile
<1> USE DEF ExplorerTypes
<1>0. \A a \in 0 .. MaxEdits : a \in Nat
  OBVIOUS
<1>1. edits \in Nat
  BY <1>0 DEF DiskTyped
<1>2. \A f \in ExFile : file[f].version \in Nat /\ reported[f].version \in Nat
  <2>1. \A f \in ExFile : file[f] \in FileState /\ reported[f] \in FileState
    BY DEF DiskTyped
  <2> QED BY <1>0, <2>1 DEF FileState
<1>3. ASSUME NEW p \in Page
      PROVE  /\ tree[p].asOf \in Nat /\ tree[p].live \subseteq ExFile
             /\ gap[p]["tree"] \in Nat /\ gap[p]["viewer"] \in Nat
             /\ events[p] \in Seq(FileEvent)
  <2>1. /\ tree[p] \in [live : SUBSET ExFile, ghosts : SUBSET ExFile, asOf : 0 .. MaxEdits,
                        loaded : BOOLEAN]
        /\ events[p] \in Seq(FileEvent)
    BY DEF TreesTyped
  <2>2. gap[p]["tree"] \in 0 .. MaxEdits /\ gap[p]["viewer"] \in 0 .. MaxEdits
    BY DEF PagesTyped, Views
  <2> QED BY <1>0, <2>1, <2>2
<1>4. ASSUME NEW p \in Page
      PROVE  /\ loads[p] \in Seq(TreeLoad) /\ DOMAIN loads[p] = 1 .. Len(loads[p])
             /\ \A j \in DOMAIN loads[p] : loads[p][j] \in TreeLoad /\ loads[p][j].asOf \in Nat
  <2>1. loads[p] \in Seq(TreeLoad)
    BY DEF TreesTyped
  <2>2. \A j \in DOMAIN loads[p] : loads[p][j] \in TreeLoad
    BY <2>1
  <2> QED BY <1>0, <2>1, <2>2 DEF TreeLoad
<1>5. ASSUME NEW p \in Page
      PROVE  content[p].found \in Found /\ content[p].asOf \in Nat
  <2>1. content[p] \in [found : Found, asOf : 0 .. MaxEdits]
    BY DEF ViewersTyped
  <2> QED BY <1>0, <2>1
<1>6. ASSUME NEW p \in Page
      PROVE  /\ fileLoads[p] \in Seq(FileLoad) /\ DOMAIN fileLoads[p] = 1 .. Len(fileLoads[p])
             /\ \A j \in DOMAIN fileLoads[p] :
                  /\ fileLoads[p][j] \in FileLoad /\ fileLoads[p][j].asOf \in Nat
                  /\ fileLoads[p][j].found \in Found /\ fileLoads[p][j].file \in ExFile
  <2>1. fileLoads[p] \in Seq(FileLoad)
    BY DEF ViewersTyped
  <2>2. \A j \in DOMAIN fileLoads[p] : fileLoads[p][j] \in FileLoad
    BY <2>1
  <2> QED BY <1>0, <2>1, <2>2 DEF FileLoad
<1> QED BY <1>1, <1>2, <1>3, <1>4, <1>5, <1>6

\* A tree that a step leaves alone, with the disk and the events.
LEMMA TreeSame ==
  ASSUME NEW p \in Page, TreeFollows(p), TreeOnce(p), TreeKeeps(p), DiskKeeps(p)
  PROVE  TreeFollows(p)' /\ TreeOnce(p)'
<1>1. PICK m \in 0 .. edits : TreeAt(p, m)
  BY DEF TreeFollows
<1>2. \A f \in ExFile : Underway(p, f)' <=> Underway(p, f)
  BY DEF Underway, TreeKeeps, DiskKeeps
<1>3. TreeAt(p, m)'
  BY <1>1, <1>2 DEF TreeAt, TreeKeeps, DiskKeeps
<1>5. TreeFollows(p)'
  BY <1>3 DEF TreeFollows, DiskKeeps
<1>4. TreeOnce(p)'
  BY DEF TreeOnce, TreeKeeps, DiskKeeps, LiveAsOf
<1> QED BY <1>4, <1>5

\* No version is newer than the last change.
LEMMA VersionsKept ==
  ASSUME ExplorerTypes, Versions, [ExplorerNext]_explorerVars PROVE Versions'
<1> USE ExplorerShapes DEF serverVars, viewerVars
<1>1. ASSUME NEW g \in ExFile, Edit(g) PROVE Versions'
  <2>1. /\ edits' = edits + 1 /\ file'[g].version = edits + 1 /\ reported' = reported
        /\ \A f \in ExFile : f # g => file'[f] = file[f]
    BY <1>1 DEF Edit, ExplorerTypes, DiskTyped
  <2> QED BY <2>1 DEF Versions
<1>2. CASE UNCHANGED <<file, edits>> /\ (\/ reported' = reported
               \/ \E g \in ExFile : reported' = [reported EXCEPT ![g] = file[g]])
  BY <1>2 DEF Versions, ExplorerTypes, DiskTyped
<1>3. CASE \E f \in ExFile : Report(f) \/ Unnoticed(f) \/ Scan(f)
  BY <1>2, <1>3 DEF Report, Unnoticed, Scan
<1>4. CASE UNCHANGED <<file, edits, reported>>
  BY <1>2, <1>4
<1>5. ASSUME NEW p \in Page,
             \/ HandleWatch(p) \/ HandleUnwatch(p)
             \/ \E i \in DOMAIN loads[p] : AnswerTree(p, i) \/ TreeArrives(p, i)
             \/ \E i \in DOMAIN fileLoads[p] : AnswerFile(p, i) \/ FileArrives(p, i)
      PROVE  Versions'
  BY <1>4, <1>5 DEF HandleWatch, HandleUnwatch, AnswerTree, TreeArrives, AnswerFile, FileArrives
<1>6. ASSUME NEW p \in Page,
             \/ OpenExplorer(p) \/ Toggle(p) \/ Refresh(p) \/ LeaveExplorer(p)
             \/ \E f \in ExFile : SelectFile(p, f)
             \/ ReloadFile(p) \/ CloseViewer(p) \/ DeletedExpires(p)
             \/ \E i \in DOMAIN events[p] : EventArrives(p, i) \/ EventMissed(p, i)
      PROVE  Versions'
  BY <1>4, <1>6 DEF OpenExplorer, Toggle, Refresh, LeaveExplorer, SelectFile, ReloadFile,
    CloseViewer, EventArrives, EventMissed, DeletedExpires
<1>7. CASE UNCHANGED explorerVars \/ WatcherClosed \/ TaskWatches \/ TaskUnwatches
  BY <1>4, <1>7 DEF explorerVars, WatcherClosed, TaskWatches, TaskUnwatches
<1> QED BY <1>1, <1>3, <1>5, <1>6, <1>7 DEF ExplorerNext

LEMMA EditKeepsTree ==
  ASSUME ExplorerTypes, TreesInv, NEW g \in ExFile, Edit(g), NEW p \in Page
  PROVE  TreeFollows(p)' /\ TreeOnce(p)'
<1> USE ExplorerShapes
<1>1. PICK m \in 0 .. edits : TreeAt(p, m)
  BY DEF TreesInv, TreeFollows
<1>2. /\ edits' = edits + 1 /\ file'[g].version = edits + 1
      /\ \A f \in ExFile : f # g => file'[f] = file[f]
      /\ UNCHANGED <<reported, gap, mounted, tree, loads, overtaken, events>>
  BY DEF Edit, ExplorerTypes, DiskTyped
<1>4. reported'[g] # file'[g]
  <2>1. reported[g].version <= edits
    BY DEF TreesInv, Versions
  <2> QED BY <1>2, <2>1
<1>5. ASSUME NEW f \in ExFile, file[f].version <= m \/ Underway(p, f)
      PROVE  file'[f].version <= m \/ Underway(p, f)'
  BY <1>2, <1>4, <1>5 DEF Underway
<1>6. m \in 0 .. edits'
  BY <1>2
<1>7. TreeFollows(p)'
  <2>1. TreeAt(p, m)'
    BY <1>1, <1>2, <1>5 DEF TreeAt
  <2> QED BY <1>6, <2>1 DEF TreeFollows
<1>8. ASSUME NEW l, NEW a \in Nat, LiveAsOf(l, a), a <= edits PROVE LiveAsOf(l, a)'
  BY <1>2, <1>8 DEF LiveAsOf
<1>9. TreeOnce(p)'
  <2>1. TreeOnce(p)
    BY DEF TreesInv
  <2>2. tree[p].loaded => LiveAsOf(tree[p].live, tree[p].asOf)' /\ tree[p].asOf <= edits'
    BY <1>2, <1>8, <2>1 DEF TreeOnce
  <2>3. \A j \in DOMAIN loads[p] : loads[p][j].answered =>
          LiveAsOf(loads[p][j].live, loads[p][j].asOf)' /\ loads[p][j].asOf <= edits'
    BY <1>2, <1>8, <2>1 DEF TreeOnce
  <2> QED BY <1>2, <2>1, <2>2, <2>3 DEF TreeOnce
<1> QED BY <1>7, <1>9

\* The watcher's steps: a change is reported, or passes everybody by.
WatcherSteps(f) == Report(f) \/ Unnoticed(f) \/ Scan(f)

\* What they do: f is as reported now, and an event tells page p of it unless it was
\* before or all views pass it over.
LEMMA WatcherTells ==
  ASSUME ExplorerTypes, NEW g \in ExFile, WatcherSteps(g), NEW p \in Page
  PROVE  /\ \A f \in ExFile : f # g => reported'[f] = reported[f]
         /\ \/ gap'[p]["tree"] = edits /\ gap'[p]["viewer"] = edits
            \/ gap' = gap /\ reported[g] = file[g] /\ reported'[g] = reported[g]
            \/ gap' = gap /\ \E k \in DOMAIN events'[p] : events'[p][k].file = g
         /\ \A k \in DOMAIN events[p] : k \in DOMAIN events'[p] /\ events'[p][k] = events[p][k]
<1> USE DEF ExplorerTypes
<1>1. \A f \in ExFile : f # g => reported'[f] = reported[f]
  BY DEF WatcherSteps, Report, Unnoticed, Scan, DiskTyped
<1>2. AllPassOver => gap'[p]["tree"] = edits /\ gap'[p]["viewer"] = edits
  BY DEF AllPassOver, Views
<1>3. CASE Report(g)
  <2>1. events'[p] = Append(events[p], [type |-> EventType(g), file |-> g]) /\ gap' = gap
    BY <1>3 DEF Report
  <2>2. events[p] \in Seq(FileEvent)
    BY ExplorerShapes
  <2> HIDE DEF EventType
  <2>3. /\ Len(events[p]) + 1 \in DOMAIN events'[p]
        /\ events'[p][Len(events[p]) + 1].file = g
        /\ \A k \in DOMAIN events[p] : k \in DOMAIN events'[p] /\ events'[p][k] = events[p][k]
    BY <2>1, <2>2
  <2> QED BY <1>1, <2>1, <2>3
<1>4. CASE Unnoticed(g)
  BY <1>1, <1>2, <1>4 DEF Unnoticed
<1>5. CASE Scan(g)
  <2>1. UNCHANGED events
    BY <1>5 DEF Scan
  <2>2. AllPassOver \/ (gap' = gap /\ reported[g] = file[g] /\ reported'[g] = reported[g])
    BY <1>5 DEF Scan, DiskTyped
  <2> QED BY <1>1, <1>2, <2>1, <2>2
<1> QED BY <1>3, <1>4, <1>5 DEF WatcherSteps

LEMMA WatcherKeepsTree ==
  ASSUME ExplorerTypes, TreesInv, NEW p \in Page, NEW g \in ExFile, WatcherSteps(g)
  PROVE  TreeFollows(p)' /\ TreeOnce(p)'
<1> USE ExplorerShapes
<1>1. PICK m \in 0 .. edits : TreeAt(p, m)
  BY DEF TreesInv, TreeFollows
<1>2. UNCHANGED <<file, edits, mounted, tree, loads, overtaken>>
  BY DEF WatcherSteps, Report, Unnoticed, Scan
<1>3. ASSUME NEW f \in ExFile, Underway(p, f) PROVE Underway(p, f)'
  <2>0. file[f].version <= edits
    BY DEF TreesInv, Versions
  <2>1. CASE gap'[p]["tree"] = edits
    BY <1>2, <2>0, <2>1 DEF Underway
  <2>2. CASE gap' = gap /\ reported[g] = file[g] /\ reported'[g] = reported[g]
    BY <1>2, <1>3, <2>2, WatcherTells DEF Underway
  <2>3. CASE gap' = gap /\ \E k \in DOMAIN events'[p] : events'[p][k].file = g
    BY <1>2, <1>3, <2>3, WatcherTells DEF Underway
  <2> QED BY <2>1, <2>2, <2>3, WatcherTells
<1>4. TreeAt(p, m)'
  BY <1>1, <1>2, <1>3 DEF TreeAt
<1>5. TreeOnce(p)'
  <2>1. TreeOnce(p)
    BY DEF TreesInv
  <2> QED BY <1>2, <2>1 DEF TreeOnce, LiveAsOf
<1> QED BY <1>2, <1>4, <1>5 DEF TreeFollows

\* loadTree is called: whatever the tree lacks is under way.
LEMMA LoadBrings ==
  ASSUME ExplorerTypes, NEW p \in Page, NEW f \in ExFile, loads'[p] = Append(loads[p], NewLoad)
  PROVE  Underway(p, f)'
<1>1. loads[p] \in Seq(TreeLoad)
  BY ExplorerShapes
<1>2. Len(loads[p]) + 1 \in DOMAIN loads'[p] /\ loads'[p][Len(loads[p]) + 1] = NewLoad
  BY <1>1
<1>3. ~ NewLoad.dead /\ ~ NewLoad.answered
  BY DEF NewLoad
<1> QED BY <1>2, <1>3 DEF Underway

\* ... and the other calls are as before.
LEMMA LoadKeepsTree ==
  ASSUME ExplorerTypes, TreesInv, NEW p \in Page, loads'[p] = Append(loads[p], NewLoad),
         mounted[p], mounted'[p], UNCHANGED <<file, edits>>, tree'[p] = tree[p],
         "tree" \in overtaken'[p] <=> "tree" \in overtaken[p]
  PROVE  TreeFollows(p)' /\ TreeOnce(p)'
<1> USE ExplorerShapes
<1>1. PICK m \in 0 .. edits : TreeAt(p, m)
  BY DEF TreesInv, TreeFollows
<1>2. /\ \A j \in DOMAIN loads'[p] : j # Len(loads[p]) + 1 =>
           j \in DOMAIN loads[p] /\ loads'[p][j] = loads[p][j]
      /\ loads'[p][Len(loads[p]) + 1] = NewLoad
  OBVIOUS
<1>3. ~ NewLoad.answered
  BY DEF NewLoad
<1>4. TreeAt(p, m)'
  BY <1>1, <1>2, <1>3, LoadBrings DEF TreeAt
<1>5. TreeOnce(p)'
  <2>1. TreeOnce(p)
    BY DEF TreesInv
  <2> QED BY <1>2, <1>3, <2>1 DEF TreeOnce, LiveAsOf
<1> QED BY <1>4, <1>5 DEF TreeFollows

\* The explorer appears, with calls under way that are of no use to it.
LEMMA OpenKeepsTree ==
  ASSUME ExplorerTypes, TreesInv, NEW p \in Page, OpenExplorer(p)
  PROVE  TreeFollows(p)' /\ TreeOnce(p)'
<1> USE ExplorerShapes
<1>1. /\ loads'[p] = Append(loads[p], NewLoad) /\ mounted'[p] /\ ~ mounted[p]
      /\ tree'[p] = NoTree /\ ~ NoTree.loaded /\ UNCHANGED <<file, edits>>
  BY DEF OpenExplorer, ExplorerTypes, PagesTyped, TreesTyped, NoTree, serverVars
<1>2. /\ \A j \in DOMAIN loads'[p] : j # Len(loads[p]) + 1 =>
           j \in DOMAIN loads[p] /\ loads'[p][j] = loads[p][j]
      /\ loads'[p][Len(loads[p]) + 1] = NewLoad
  BY <1>1
<1>3. ~ NewLoad.answered
  BY DEF NewLoad
<1>4. TreeOnce(p)
  BY DEF TreesInv
<1>5. \A j \in DOMAIN loads[p] : loads[p][j].dead
  BY <1>1, <1>4 DEF TreeOnce
<1>6. TreeAt(p, 0)'
  BY <1>1, <1>2, <1>3, <1>5, LoadBrings DEF TreeAt
<1>7. TreeOnce(p)'
  BY <1>1, <1>2, <1>3, <1>4 DEF TreeOnce, LiveAsOf
<1> QED BY <1>1, <1>6, <1>7 DEF TreeFollows

\* The explorer is gone: no answer is of use any more.
LEMMA LeaveKeepsTree ==
  ASSUME ExplorerTypes, TreesInv, NEW p \in Page, LeaveExplorer(p)
  PROVE  TreeFollows(p)' /\ TreeOnce(p)'
<1> USE ExplorerShapes
<1>1. ~ mounted'[p] /\ tree'[p] = NoTree /\ ~ NoTree.loaded /\ UNCHANGED <<file, edits>>
  BY DEF LeaveExplorer, ExplorerTypes, PagesTyped, TreesTyped, NoTree, serverVars
<1>2. loads'[p] = [j \in DOMAIN loads[p] |-> [loads[p][j] EXCEPT !.dead = TRUE]]
  BY DEF LeaveExplorer, ExplorerTypes, TreesTyped
<1>3. DOMAIN loads'[p] = DOMAIN loads[p]
  BY <1>2
<1>4. ASSUME NEW j \in DOMAIN loads[p]
      PROVE  /\ loads'[p][j].dead /\ loads'[p][j].answered = loads[p][j].answered
             /\ loads'[p][j].asOf = loads[p][j].asOf /\ loads'[p][j].live = loads[p][j].live
  <2>1. loads'[p][j] = [loads[p][j] EXCEPT !.dead = TRUE] /\ loads[p][j] \in TreeLoad
    BY <1>2
  <2> QED BY <2>1 DEF TreeLoad
<1>5. TreeAt(p, 0)'
  BY <1>1, <1>3, <1>4 DEF TreeAt
<1>6. TreeOnce(p)'
  <2>1. TreeOnce(p)
    BY DEF TreesInv
  <2> QED BY <1>1, <1>3, <1>4, <2>1 DEF TreeOnce, LiveAsOf
<1> QED BY <1>1, <1>5, <1>6 DEF TreeFollows

\* The server reads the disk for a call.
LEMMA AnswerKeepsTree ==
  ASSUME ExplorerTypes, TreesInv, NEW p \in Page, NEW i \in 1 .. Len(loads[p]), AnswerTree(p, i)
  PROVE  TreeFollows(p)' /\ TreeOnce(p)'
<1> USE ExplorerShapes
<1>1. PICK m \in 0 .. edits : TreeAt(p, m)
  BY DEF TreesInv, TreeFollows
<1>2. UNCHANGED <<file, edits, reported, gap, mounted, tree, overtaken, events>>
  BY DEF AnswerTree, serverVars
<1>3. /\ loads'[p] \in Seq(TreeLoad) /\ Len(loads'[p]) = Len(loads[p])
      /\ loads'[p][i].answered /\ loads'[p][i].live = Present /\ loads'[p][i].asOf = edits
      /\ loads'[p][i].dead = loads[p][i].dead
      /\ \A j \in 1 .. Len(loads[p]) : j # i => loads'[p][j] = loads[p][j]
  BY TreeAnswered DEF ExplorerTypes
<1>4. DOMAIN loads'[p] = 1 .. Len(loads[p])
  BY <1>3
<1>5. ASSUME NEW f \in ExFile, Underway(p, f) PROVE Underway(p, f)'
  <2>1. file[f].version <= edits
    BY DEF TreesInv, Versions
  <2>2. ASSUME NEW j \in DOMAIN loads[p], ~ loads[p][j].dead,
               ~ loads[p][j].answered \/ loads[p][j].asOf >= file[f].version
        PROVE  Underway(p, f)'
    <3>1. /\ j \in DOMAIN loads'[p] /\ ~ loads'[p][j].dead
          /\ ~ loads'[p][j].answered \/ loads'[p][j].asOf >= file'[f].version
      BY <1>2, <1>3, <1>4, <2>1, <2>2
    <3> QED BY <3>1 DEF Underway
  <2> QED BY <1>2, <1>5, <2>2 DEF Underway
<1>6. TreeAt(p, m)'
  BY <1>1, <1>2, <1>3, <1>4, <1>5, SMTT(30) DEF TreeAt
<1>7. TreeOnce(p)'
  <2>1. TreeOnce(p)
    BY DEF TreesInv
  <2>2. LiveAsOf(Present, edits)
    BY DEF LiveAsOf, Present
  <2>3. \A l, a : LiveAsOf(l, a)' <=> LiveAsOf(l, a)
    BY <1>2 DEF LiveAsOf
  <2>4. \A j \in DOMAIN loads'[p] : loads'[p][j].answered =>
          LiveAsOf(loads'[p][j].live, loads'[p][j].asOf) /\ loads'[p][j].asOf <= edits
    BY <1>3, <1>4, <2>1, <2>2 DEF TreeOnce
  <2>5. ~ mounted[p] => \A j \in DOMAIN loads'[p] : loads'[p][j].dead
    BY <1>3, <1>4, <2>1 DEF TreeOnce
  <2> QED BY <1>2, <2>1, <2>4, <2>5 DEF TreeOnce, LiveAsOf
<1> QED BY <1>2, <1>6, <1>7 DEF TreeFollows

\* An answer is shown, unless the explorer that asked is gone.
LEMMA ArrivalKeepsTree ==
  ASSUME ExplorerTypes, TreesInv, NEW p \in Page, NEW i \in 1 .. Len(loads[p]), TreeArrives(p, i)
  PROVE  TreeFollows(p)' /\ TreeOnce(p)'
<1> USE ExplorerShapes
<1>1. PICK m \in 0 .. edits : TreeAt(p, m)
  BY DEF TreesInv, TreeFollows
<1>2. UNCHANGED <<file, edits, reported, gap, mounted, events>>
  BY DEF TreeArrives, serverVars
<1>3. loads'[p] = AfterDelivery(loads[p], i)
  BY DEF TreeArrives, ExplorerTypes, TreesTyped
<1> DEFINE q == loads'[p]
           s == loads[p]
<1>4. /\ q \in Seq(TreeLoad)
      /\ \A j \in 1 .. Len(q) : \E k \in 1 .. Len(s) :
           k # i /\ SameLoad(q[j], s[k]) /\ LateLoad(q[j], s[k], s[i])
      /\ \A k \in 1 .. Len(s) : k # i => \E j \in 1 .. Len(q) : SameLoad(q[j], s[k])
  <2>1. s \in Seq(TreeLoad) /\ i \in 1 .. Len(s) /\ q = AfterDelivery(s, i)
    BY <1>3
  <2> HIDE ExplorerShapes
  <2> HIDE DEF q, s
  <2> QED BY ONLY <2>1, TreeDelivered
<1>0. i \in 1 .. Len(s)
  OBVIOUS
<1>5. DOMAIN q = 1 .. Len(q) /\ DOMAIN s = 1 .. Len(s)
  BY <1>4
<1>6. s[i].answered /\ TreeOnce(p) /\ s[i].asOf \in Nat /\ s[i].asOf <= edits
  BY <1>5 DEF TreesInv, TreeOnce, TreeArrives
<1> HIDE DEF q, s
<1>7. ASSUME NEW f \in ExFile, Underway(p, f), s[i].dead \/ ~ (s[i].asOf >= file[f].version)
      PROVE  Underway(p, f)'
  <2>1. ASSUME NEW k \in 1 .. Len(s), ~ s[k].dead, ~ s[k].answered \/ s[k].asOf >= file[f].version
        PROVE  Underway(p, f)'
    <3>1. k # i
      BY <1>6, <1>7, <2>1
    <3>2. PICK j \in 1 .. Len(q) : SameLoad(q[j], s[k])
      BY <1>4, <3>1
    <3>3. /\ j \in DOMAIN loads'[p] /\ ~ loads'[p][j].dead
          /\ ~ loads'[p][j].answered \/ loads'[p][j].asOf >= file'[f].version
      BY <1>2, <1>5, <2>1, <3>2 DEF q, SameLoad
    <3> QED BY <3>3 DEF Underway
  <2> QED BY <1>2, <1>5, <1>7, <2>1 DEF Underway, s
<1>8. \E n \in 0 .. edits : TreeAt(p, n)'
  <2>1. CASE s[i].dead
    <3>1. tree' = tree /\ overtaken' = overtaken
      BY <2>1 DEF TreeArrives, s
    <3>2. mounted[p] => \A f \in ExFile : file[f].version <= m \/ Underway(p, f)'
      BY <1>1, <1>7, <2>1 DEF TreeAt
    <3>3. \A j \in 1 .. Len(q) : ~ q[j].dead /\ q[j].answered /\ ~ q[j].late => q[j].asOf >= m
      <4>1. \A k \in 1 .. Len(s) : ~ s[k].dead /\ s[k].answered /\ ~ s[k].late => s[k].asOf >= m
        BY <1>1, <1>5 DEF TreeAt, s
      <4> QED BY <1>4, <4>1 DEF SameLoad, LateLoad
    <3>4. TreeAt(p, m)'
      BY <1>1, <1>2, <1>5, <3>1, <3>2, <3>3 DEF TreeAt, q
    <3> QED BY <3>4
  <2>2. CASE ~ s[i].dead
    <3>0. PICK n \in 0 .. edits : n = IF m <= s[i].asOf THEN s[i].asOf ELSE m
      BY <1>6
    <3>1. tree'[p].asOf = s[i].asOf /\ (overtaken'[p] = IF s[i].late THEN overtaken[p] \cup {"tree"}
                                                         ELSE overtaken[p] \ {"tree"})
      BY <2>2 DEF TreeArrives, s, ExplorerTypes, TreesTyped, PagesTyped
    <3>2. \A k \in 1 .. Len(s) : ~ s[k].dead /\ s[k].answered /\ ~ s[k].late => s[k].asOf >= m
      BY <1>1, <1>5 DEF TreeAt, s
    <3>3. "tree" \notin overtaken'[p] => tree'[p].asOf = n
      BY <1>0, <1>6, <2>2, <3>0, <3>1, <3>2
    <3>4. mounted[p] => \A f \in ExFile : file[f].version <= n \/ Underway(p, f)'
      BY <1>1, <1>6, <1>7, <3>0 DEF TreeAt
    <3>5. \A k \in 1 .. Len(s) : s[k].asOf \in Nat
      BY <1>5 DEF s
    <3>6. \A j \in 1 .. Len(q) : ~ q[j].dead /\ q[j].answered /\ ~ q[j].late => q[j].asOf >= n
      <4>1. ASSUME NEW j \in 1 .. Len(q), ~ q[j].dead, q[j].answered, ~ q[j].late
            PROVE  q[j].asOf >= n
        <5>1. PICK k \in 1 .. Len(s) :
                k # i /\ SameLoad(q[j], s[k]) /\ LateLoad(q[j], s[k], s[i])
          BY <1>4
        <5>2. ~ s[k].dead /\ s[k].answered /\ ~ s[k].late /\ ~ (s[k].asOf < s[i].asOf)
          BY <4>1, <5>1 DEF SameLoad, LateLoad, Older
        <5>3. s[k].asOf >= m /\ s[k].asOf \in Nat /\ q[j].asOf = s[k].asOf
          BY <3>2, <3>5, <5>1, <5>2 DEF SameLoad
        <5> QED BY <1>6, <3>0, <5>2, <5>3
      <4> QED BY <4>1
    <3>7. TreeAt(p, n)'
      BY <1>2, <1>5, <3>3, <3>4, <3>6 DEF TreeAt, q
    <3> QED BY <3>0, <3>7
  <2> QED BY <2>1, <2>2
<1>9. TreeOnce(p)'
  <2>1. \A j \in DOMAIN loads'[p] : loads'[p][j].answered =>
          LiveAsOf(loads'[p][j].live, loads'[p][j].asOf) /\ loads'[p][j].asOf <= edits
    <3>1. \A k \in 1 .. Len(s) :
            s[k].answered => LiveAsOf(s[k].live, s[k].asOf) /\ s[k].asOf <= edits
      BY <1>5, <1>6 DEF TreeOnce, s
    <3> QED BY <1>4, <1>5, <3>1 DEF q, SameLoad
  <2>2. ~ mounted[p] =>
          /\ s[i].dead /\ ~ tree[p].loaded
          /\ \A j \in DOMAIN loads'[p] : loads'[p][j].dead
    <3>1. ~ mounted[p] => ~ tree[p].loaded /\ \A k \in 1 .. Len(s) : s[k].dead
      BY <1>5, <1>6 DEF TreeOnce, s
    <3> QED BY <1>0, <1>4, <1>5, <3>1 DEF q, SameLoad
  <2>3. tree'[p].loaded => LiveAsOf(tree'[p].live, tree'[p].asOf) /\ tree'[p].asOf <= edits
    <3>1. CASE s[i].dead
      BY <1>6, <3>1 DEF TreeArrives, TreeOnce, s
    <3>2. CASE ~ s[i].dead
      <4>1. tree'[p].live = s[i].live /\ tree'[p].asOf = s[i].asOf
        BY <3>2 DEF TreeArrives, s, ExplorerTypes, TreesTyped
      <4>2. LiveAsOf(s[i].live, s[i].asOf)
        BY <1>5, <1>6 DEF TreeOnce, s
      <4> QED BY <1>6, <4>1, <4>2
    <3> QED BY <3>1, <3>2
  <2>4. ~ mounted[p] => ~ tree'[p].loaded
    BY <2>2 DEF TreeArrives, s
  <2> QED BY <1>2, <2>1, <2>2, <2>3, <2>4 DEF TreeOnce, LiveAsOf
<1> QED BY <1>2, <1>8, <1>9 DEF TreeFollows

\* An event comes in: the tree is loaded again, or passes it over, or nobody looks at it.
LEMMA EventKeepsTree ==
  ASSUME ExplorerTypes, TreesInv, NEW p \in Page, NEW i \in DOMAIN events[p],
         EventArrives(p, i) \/ EventMissed(p, i)
  PROVE  TreeFollows(p)' /\ TreeOnce(p)'
<1> USE ExplorerShapes
<1>1. UNCHANGED <<file, edits, mounted, tree, overtaken>>
  BY DEF EventArrives, EventMissed, serverVars
<1>2. CASE EventArrives(p, i) /\ mounted[p] /\ expanded[p]
  <2>1. loads'[p] = Append(loads[p], NewLoad)
    BY <1>2 DEF EventArrives, Reloads, ExplorerTypes, TreesTyped
  <2> QED BY <1>1, <1>2, <2>1, LoadKeepsTree
<1>3. CASE EventMissed(p, i) \/ ~ (mounted[p] /\ expanded[p])
  <2>1. loads'[p] = loads[p] /\ (mounted[p] => gap'[p]["tree"] = edits)
    <3>1. CASE EventMissed(p, i)
      BY <3>1 DEF EventMissed, ExplorerTypes, PagesTyped, Views
    <3>2. CASE EventArrives(p, i) /\ ~ (mounted[p] /\ expanded[p])
      <4>1. loads'[p] = loads[p]
        BY <3>2 DEF EventArrives, Reloads, ExplorerTypes, TreesTyped
      <4>2. mounted[p] => "tree" \in PassOver(p, events[p][i])
        BY <3>2 DEF PassOver, Views
      <4>3. gap'[p] = [v \in Views |-> IF v \in PassOver(p, events[p][i]) THEN edits ELSE gap[p][v]]
        BY <3>2 DEF EventArrives, ExplorerTypes, PagesTyped
      <4> HIDE DEF PassOver
      <4> QED BY <4>1, <4>2, <4>3 DEF Views
    <3> QED BY <1>3, <3>1, <3>2
  <2>2. PICK m \in 0 .. edits : TreeAt(p, m)
    BY DEF TreesInv, TreeFollows
  <2>3. mounted[p] => \A f \in ExFile : Underway(p, f)'
    <3>1. \A f \in ExFile : edits >= file[f].version
      BY DEF TreesInv, Versions
    <3> QED BY <1>1, <2>1, <3>1 DEF Underway
  <2>4. TreeAt(p, m)'
    BY <1>1, <2>1, <2>2, <2>3 DEF TreeAt
  <2>5. TreeOnce(p)'
    <3>1. TreeOnce(p)
      BY DEF TreesInv
    <3> QED BY <1>1, <2>1, <3>1 DEF TreeOnce, LiveAsOf
  <2> QED BY <1>1, <2>4, <2>5 DEF TreeFollows
<1> QED BY <1>2, <1>3

\* The steps of a page, by what of it they change.
TreeSteps(p) ==
  \/ \E i \in DOMAIN loads[p] : AnswerTree(p, i) \/ TreeArrives(p, i)
  \/ Refresh(p)
ViewerSteps(p) ==
  \/ \E i \in DOMAIN fileLoads[p] : AnswerFile(p, i) \/ FileArrives(p, i)
  \/ \E f \in ExFile : SelectFile(p, f)
  \/ ReloadFile(p) \/ CloseViewer(p)
EventSteps(p) == \E i \in DOMAIN events[p] : EventArrives(p, i) \/ EventMissed(p, i)
PageSteps(p) == OpenExplorer(p) \/ LeaveExplorer(p) \/ EventSteps(p)
OtherSteps(p) == HandleWatch(p) \/ HandleUnwatch(p) \/ Toggle(p) \/ DeletedExpires(p)

LEMMA TreeUntouched ==
  ASSUME ExplorerTypes, NEW o \in Page, NEW p \in Page,
         \/ o # p /\ (TreeSteps(o) \/ PageSteps(o))
         \/ ViewerSteps(o) \/ OtherSteps(o)
  PROVE  TreeKeeps(p) /\ DiskKeeps(p)
<1> USE DEF serverVars, viewerVars, ExplorerTypes, TreeKeeps, DiskKeeps
<1>1. CASE o # p /\ TreeSteps(o)
  <2>1. ASSUME NEW i \in DOMAIN loads[o], AnswerTree(o, i)
        PROVE  TreeKeeps(p) /\ DiskKeeps(p)
    <3>1. i \in 1 .. Len(loads[o])
      BY DEF TreesTyped
    <3>2. loads'[p] = loads[p]
      BY <1>1, <2>1, <3>1, TreeAnswered
    <3> QED BY <2>1, <3>2 DEF AnswerTree
  <2>2. ASSUME NEW i \in DOMAIN loads[o], TreeArrives(o, i)
        PROVE  TreeKeeps(p) /\ DiskKeeps(p)
    BY <1>1, <2>2 DEF TreeArrives, PagesTyped, TreesTyped
  <2>3. CASE Refresh(o)
    BY <1>1, <2>3 DEF Refresh, TreesTyped
  <2> QED BY <1>1, <2>1, <2>2, <2>3 DEF TreeSteps
<1>2. CASE o # p /\ OpenExplorer(o)
  BY <1>2 DEF OpenExplorer, PagesTyped, TreesTyped
<1>3. CASE o # p /\ LeaveExplorer(o)
  BY <1>3 DEF LeaveExplorer, PagesTyped, TreesTyped
<1>4. CASE o # p /\ EventSteps(o)
  BY <1>4 DEF EventSteps, EventArrives, EventMissed, PagesTyped, TreesTyped
<1>5. CASE ViewerSteps(o)
  <2>1. UNCHANGED <<file, edits, reported, gap, mounted, tree, loads, events>>
    BY <1>5 DEF ViewerSteps, AnswerFile, FileArrives, SelectFile, ReloadFile, CloseViewer
  <2>2. \/ overtaken' = overtaken \/ overtaken' = [overtaken EXCEPT ![o] = @ \ {"viewer"}]
        \/ overtaken' = [overtaken EXCEPT ![o] = @ \cup {"viewer"}]
    BY <1>5 DEF ViewerSteps, AnswerFile, FileArrives, SelectFile, ReloadFile, CloseViewer
  <2>3. "tree" \in overtaken'[p] <=> "tree" \in overtaken[p]
    BY <2>2 DEF PagesTyped
  <2> QED BY <2>1, <2>3
<1>6. CASE OtherSteps(o)
  BY <1>6 DEF OtherSteps, HandleWatch, HandleUnwatch, Toggle, DeletedExpires
<1> QED BY <1>1, <1>2, <1>3, <1>4, <1>5, <1>6 DEF PageSteps

LEMMA ExplorerSteps ==
  ASSUME ExplorerNext
  PROVE  \/ \E f \in ExFile : Edit(f)
         \/ \E f \in ExFile : WatcherSteps(f)
         \/ \E o \in Page : TreeSteps(o) \/ ViewerSteps(o) \/ PageSteps(o) \/ OtherSteps(o)
         \/ WatcherClosed \/ TaskWatches \/ TaskUnwatches
BY DEF ExplorerNext, WatcherSteps, TreeSteps, ViewerSteps, EventSteps, PageSteps, OtherSteps

LEMMA TreesInvKept ==
  ASSUME ExplorerTypes, TreesInv, [ExplorerNext]_explorerVars PROVE TreesInv'
<1>1. Versions'
  BY VersionsKept DEF TreesInv
<1>2. ASSUME NEW p \in Page PROVE TreeFollows(p)' /\ TreeOnce(p)'
  <2>0. TreeFollows(p) /\ TreeOnce(p)
    BY DEF TreesInv
  <2>1. ASSUME NEW f \in ExFile, Edit(f) PROVE TreeFollows(p)' /\ TreeOnce(p)'
    BY <2>1, EditKeepsTree
  <2>2. CASE \E f \in ExFile : WatcherSteps(f)
    BY <2>2, WatcherKeepsTree
  <2>3. ASSUME NEW o \in Page, \/ o # p /\ (TreeSteps(o) \/ PageSteps(o))
                               \/ ViewerSteps(o) \/ OtherSteps(o)
        PROVE  TreeFollows(p)' /\ TreeOnce(p)'
    BY <2>0, <2>3, TreeUntouched, TreeSame
  <2>4. CASE TreeSteps(p)
    <3>1. DOMAIN loads[p] = 1 .. Len(loads[p])
      BY ExplorerShapes
    <3>2. ASSUME NEW i \in 1 .. Len(loads[p]), AnswerTree(p, i)
          PROVE  TreeFollows(p)' /\ TreeOnce(p)'
      BY <3>2, AnswerKeepsTree
    <3>3. ASSUME NEW i \in 1 .. Len(loads[p]), TreeArrives(p, i)
          PROVE  TreeFollows(p)' /\ TreeOnce(p)'
      BY <3>3, ArrivalKeepsTree
    <3>4. CASE Refresh(p)
      <4>1. /\ loads'[p] = Append(loads[p], NewLoad) /\ mounted[p] /\ mounted'[p]
            /\ UNCHANGED <<file, edits, tree, overtaken>>
        BY <3>4 DEF Refresh, ExplorerTypes, TreesTyped, serverVars
      <4> QED BY <4>1, LoadKeepsTree
    <3> QED BY <2>4, <3>1, <3>2, <3>3, <3>4 DEF TreeSteps
  <2>5. CASE PageSteps(p)
    BY <2>5, OpenKeepsTree, LeaveKeepsTree, EventKeepsTree DEF PageSteps, EventSteps
  <2>6. CASE WatcherClosed \/ TaskWatches \/ TaskUnwatches \/ UNCHANGED explorerVars
    <3>1. TreeKeeps(p) /\ DiskKeeps(p)
      BY <2>6 DEF WatcherClosed, TaskWatches, TaskUnwatches, explorerVars, TreeKeeps, DiskKeeps
    <3> QED BY <2>0, <3>1, TreeSame
  <2> QED BY <2>1, <2>2, <2>3, <2>4, <2>5, <2>6, ExplorerSteps
<1> QED BY <1>1, <1>2 DEF TreesInv

LEMMA TreesInvImplies == ExplorerTypes /\ TreesInv => TreeTrue
<1> SUFFICES ASSUME ExplorerTypes, TreesInv, NEW p \in Page,
                    Arrived(p), tree[p].loaded, "tree" \notin overtaken[p],
                    tree[p].asOf >= gap[p]["tree"]
             PROVE  tree[p].live \cap WatchedFile = Present \cap WatchedFile
  BY DEF TreeTrue
<1> USE ExplorerShapes
<1>1. PICK m \in 0 .. edits : TreeAt(p, m)
  BY DEF TreesInv, TreeFollows
<1>2. TreeOnce(p) /\ mounted[p]
  BY DEF TreesInv, TreeOnce
<1>3. tree[p].asOf = m
  BY <1>1 DEF TreeAt
<1>4. /\ \A f \in WatchedFile : reported[f] = file[f]
      /\ DOMAIN events[p] = {} /\ DOMAIN loads[p] = {} /\ WatchedFile \subseteq ExFile
  BY DEF Arrived, WatchedFile
<1>5. ASSUME NEW f \in WatchedFile PROVE file[f].version <= tree[p].asOf
  BY <1>1, <1>2, <1>3, <1>4 DEF TreeAt, Underway
<1>6. LiveAsOf(tree[p].live, tree[p].asOf)
  BY <1>2 DEF TreeOnce
<1> QED BY <1>4, <1>5, <1>6 DEF LiveAsOf, Present

-----------------------------------------------------------------------------
(* Explorer: the viewer. *)

\* A change of file f that the content of page p does not show is under way to the
\* viewer, or marks it already, or passed it by.
ViewerUnderway(p, f) ==
  \/ reported[f] # file[f]
  \/ \E k \in DOMAIN events[p] : events[p][k].file = f
  \/ gap[p]["viewer"] >= file[f].version \/ hasFileChanged[p] \/ isDeletedFile[p]
  \/ \E j \in DOMAIN fileLoads[p] :
       ~ fileLoads[p][j].answered \/ fileLoads[p][j].asOf >= file[f].version

\* As for the tree: the newest answer is of change m.
ViewerAt(p, m) ==
  /\ viewer[p] # NoFile => file[viewer[p]].version <= m \/ ViewerUnderway(p, viewer[p])
  /\ content[p].found # <<>> /\ "viewer" \notin overtaken[p] => content[p].asOf = m
  /\ \A j \in DOMAIN fileLoads[p] :
       fileLoads[p][j].answered /\ ~ fileLoads[p][j].late => fileLoads[p][j].asOf >= m

ViewerFollows(p) == \E m \in 0 .. edits : ViewerAt(p, m)

\* Unless a call for the selected file is the last of those under way, what is shown is
\* of this file, and so is every answer that is not late.
LastOwn(p) ==
  fileLoads[p] # <<>> /\ fileLoads[p][Len(fileLoads[p])].file = viewer[p]

OwnShown(p) ==
  viewer[p] # NoFile /\ ~ isDeletedFile[p] /\ ~ LastOwn(p) =>
    /\ \A j \in DOMAIN fileLoads[p] : fileLoads[p][j].file = viewer[p] \/ fileLoads[p][j].late
    /\ content[p].found # <<>> /\ "viewer" \notin overtaken[p] => content[p].found[1] = viewer[p]

\* What was found at change a, if the file has not changed since.
FoundAsOf(found, a) ==
  found # <<>> /\ file[found[1]].version <= a
    => file[found[1]].there /\ found[2] = file[found[1]].version

ViewerOnce(p) ==
  /\ FoundAsOf(content[p].found, content[p].asOf) /\ content[p].asOf <= edits
  /\ \A j \in DOMAIN fileLoads[p] : fileLoads[p][j].answered =>
       /\ FoundAsOf(fileLoads[p][j].found, fileLoads[p][j].asOf)
       /\ fileLoads[p][j].asOf <= edits
       /\ fileLoads[p][j].found # <<>> => fileLoads[p][j].found[1] = fileLoads[p][j].file
  /\ viewer[p] = NoFile => fileLoads[p] = <<>> /\ content[p] = NoContent
  /\ ~ mounted[p] => viewer[p] = NoFile

ViewerHolds(p) == ViewerFollows(p) /\ OwnShown(p) /\ ViewerOnce(p)

ViewersInv == Versions /\ \A p \in Page : ViewerHolds(p)

ViewerKeeps(p) ==
  /\ mounted'[p] = mounted[p] /\ viewer'[p] = viewer[p] /\ content'[p] = content[p]
  /\ hasFileChanged'[p] = hasFileChanged[p] /\ isDeletedFile'[p] = isDeletedFile[p]
  /\ fileLoads'[p] = fileLoads[p]
  /\ "viewer" \in overtaken'[p] <=> "viewer" \in overtaken[p]

\* A content that was found is one of a file.
LEMMA FoundTyped ==
  ASSUME NEW x \in Found, x # <<>>
  PROVE  x[1] \in ExFile /\ x[2] \in Nat /\ x = <<x[1], x[2]>>
<1>1. x \in ExFile \X (0 .. MaxEdits)
  BY DEF Found
<1> QED BY <1>1

\* An empty viewer shows nothing whatever it is marked with.
LEMMA NothingHolds ==
  ASSUME NEW p \in Page, viewer[p] = NoFile, fileLoads[p] = <<>>, content[p] = NoContent,
         edits \in Nat
  PROVE  ViewerHolds(p)
<1>1. NoContent.found = <<>> /\ NoContent.asOf = 0 /\ DOMAIN fileLoads[p] = {}
  BY DEF NoContent
<1>2. ViewerAt(p, 0)
  BY <1>1 DEF ViewerAt
<1>3. ViewerOnce(p)
  BY <1>1 DEF ViewerOnce, FoundAsOf
<1> QED BY <1>2, <1>3 DEF ViewerHolds, ViewerFollows, OwnShown

LEMMA NothingHoldsNext ==
  ASSUME NEW p \in Page, viewer'[p] = NoFile, fileLoads'[p] = <<>>, content'[p] = NoContent,
         edits' \in Nat
  PROVE  ViewerHolds(p)'
<1>1. NoContent.found = <<>> /\ NoContent.asOf = 0 /\ DOMAIN fileLoads'[p] = {}
  BY DEF NoContent
<1>2. ViewerAt(p, 0)'
  BY <1>1 DEF ViewerAt
<1>3. ViewerOnce(p)'
  BY <1>1 DEF ViewerOnce, FoundAsOf
<1> QED BY <1>2, <1>3 DEF ViewerHolds, ViewerFollows, OwnShown

\* A viewer that a step leaves alone, if it hears of the disk what it heard before.
LEMMA ViewerSame ==
  ASSUME NEW p \in Page, ViewerHolds(p), ViewerKeeps(p), UNCHANGED <<file, edits>>,
         \A f \in ExFile : ViewerUnderway(p, f) => ViewerUnderway(p, f)',
         viewer[p] \in ExFile \cup {NoFile}
  PROVE  ViewerHolds(p)'
<1>1. PICK m \in 0 .. edits : ViewerAt(p, m)
  BY DEF ViewerHolds, ViewerFollows
<1>2. ViewerAt(p, m)'
  BY <1>1 DEF ViewerAt, ViewerKeeps
<1>3. OwnShown(p)'
  BY DEF ViewerHolds, OwnShown, LastOwn, ViewerKeeps
<1>4. ViewerOnce(p)'
  BY DEF ViewerHolds, ViewerOnce, FoundAsOf, ViewerKeeps
<1> QED BY <1>2, <1>3, <1>4 DEF ViewerHolds, ViewerFollows

LEMMA EditKeepsViewer ==
  ASSUME ExplorerTypes, ViewersInv, NEW g \in ExFile, Edit(g), NEW p \in Page
  PROVE  ViewerHolds(p)'
<1> USE ExplorerShapes
<1>0. ViewerHolds(p) /\ viewer[p] \in ExFile \cup {NoFile}
  BY DEF ViewersInv, ExplorerTypes, ViewersTyped
<1>1. PICK m \in 0 .. edits : ViewerAt(p, m)
  BY <1>0 DEF ViewerHolds, ViewerFollows
<1>2. /\ edits' = edits + 1 /\ file'[g].version = edits + 1
      /\ \A f \in ExFile : f # g => file'[f] = file[f]
      /\ UNCHANGED <<reported, gap, mounted, viewer, content, hasFileChanged, isDeletedFile,
                     fileLoads, overtaken, events>>
  BY DEF Edit, ExplorerTypes, DiskTyped, viewerVars
<1>3. reported'[g] # file'[g]
  <2>1. reported[g].version <= edits
    BY DEF ViewersInv, Versions
  <2> QED BY <1>2, <2>1
<1>4. ASSUME NEW f \in ExFile, file[f].version <= m \/ ViewerUnderway(p, f)
      PROVE  file'[f].version <= m \/ ViewerUnderway(p, f)'
  BY <1>2, <1>3, <1>4 DEF ViewerUnderway
<1>5. ViewerAt(p, m)'
  BY <1>0, <1>1, <1>2, <1>4 DEF ViewerAt
<1>6. ASSUME NEW x \in Found, NEW a \in Nat, FoundAsOf(x, a), a <= edits PROVE FoundAsOf(x, a)'
  <2>1. x # <<>> => x[1] \in ExFile
    BY FoundTyped
  <2>2. CASE x # <<>> /\ x[1] = g
    <3>1. ~ (file'[g].version <= a)
      BY <1>2, <1>6
    <3> QED BY <2>2, <3>1 DEF FoundAsOf
  <2>3. CASE x # <<>> /\ x[1] # g
    <3>1. file'[x[1]] = file[x[1]]
      BY <1>2, <2>1, <2>3
    <3> QED BY <1>6, <3>1 DEF FoundAsOf
  <2>4. CASE x = <<>>
    BY <2>4 DEF FoundAsOf
  <2> QED BY <2>2, <2>3, <2>4
<1>7. ViewerOnce(p)'
  <2>1. ViewerOnce(p)
    BY <1>0 DEF ViewerHolds
  <2>2. FoundAsOf(content[p].found, content[p].asOf)' /\ content[p].asOf <= edits'
    BY <1>2, <1>6, <2>1 DEF ViewerOnce
  <2>3. \A j \in DOMAIN fileLoads[p] : fileLoads[p][j].answered =>
          FoundAsOf(fileLoads[p][j].found, fileLoads[p][j].asOf)' /\ fileLoads[p][j].asOf <= edits'
    BY <1>2, <1>6, <2>1 DEF ViewerOnce
  <2> QED BY <1>2, <2>1, <2>2, <2>3 DEF ViewerOnce
<1>8. OwnShown(p)'
  BY <1>0, <1>2 DEF ViewerHolds, OwnShown, LastOwn
<1>9. m \in 0 .. edits'
  BY <1>2
<1> QED BY <1>5, <1>7, <1>8, <1>9 DEF ViewerHolds, ViewerFollows

LEMMA WatcherKeepsViewer ==
  ASSUME ExplorerTypes, ViewersInv, NEW p \in Page, NEW g \in ExFile, WatcherSteps(g)
  PROVE  ViewerHolds(p)'
<1> USE ExplorerShapes
<1>0. ViewerHolds(p) /\ viewer[p] \in ExFile \cup {NoFile}
  BY DEF ViewersInv, ExplorerTypes, ViewersTyped
<1>1. ViewerKeeps(p) /\ UNCHANGED <<file, edits>>
  BY DEF WatcherSteps, Report, Unnoticed, Scan, ViewerKeeps, viewerVars
<1>2. UNCHANGED <<hasFileChanged, isDeletedFile, fileLoads>>
  BY DEF WatcherSteps, Report, Unnoticed, Scan, viewerVars
<1>3. ASSUME NEW f \in ExFile, ViewerUnderway(p, f) PROVE ViewerUnderway(p, f)'
  <2>0. file[f].version <= edits
    BY DEF ViewersInv, Versions
  <2>1. CASE gap'[p]["viewer"] = edits
    BY <1>1, <2>0, <2>1 DEF ViewerUnderway
  <2>2. CASE gap' = gap /\ reported[g] = file[g] /\ reported'[g] = reported[g]
    BY <1>1, <1>2, <1>3, <2>2, WatcherTells DEF ViewerUnderway
  <2>3. CASE gap' = gap /\ \E k \in DOMAIN events'[p] : events'[p][k].file = g
    BY <1>1, <1>2, <1>3, <2>3, WatcherTells DEF ViewerUnderway
  <2> QED BY <2>1, <2>2, <2>3, WatcherTells
<1> QED BY <1>0, <1>1, <1>3, ViewerSame

\* The server reads the disk for a call.
LEMMA AnswerKeepsViewer ==
  ASSUME ExplorerTypes, ViewersInv, NEW p \in Page, NEW i \in 1 .. Len(fileLoads[p]),
         AnswerFile(p, i)
  PROVE  ViewerHolds(p)'
<1> USE ExplorerShapes
<1>0. ViewerHolds(p) /\ viewer[p] \in ExFile \cup {NoFile}
  BY DEF ViewersInv, ExplorerTypes, ViewersTyped
<1>1. PICK m \in 0 .. edits : ViewerAt(p, m)
  BY <1>0 DEF ViewerHolds, ViewerFollows
<1>2. UNCHANGED <<file, edits, reported, gap, mounted, viewer, content, hasFileChanged,
                  isDeletedFile, overtaken, events>>
  BY DEF AnswerFile, serverVars
<1> DEFINE g == fileLoads[p][i].file
           found == IF file[g].there THEN <<g, file[g].version>> ELSE <<>>
<1>3. /\ Len(fileLoads'[p]) = Len(fileLoads[p]) /\ fileLoads'[p] \in Seq(FileLoad)
      /\ fileLoads'[p][i].answered /\ fileLoads'[p][i].asOf = edits
      /\ fileLoads'[p][i].found = found
      /\ fileLoads'[p][i].late = fileLoads[p][i].late /\ fileLoads'[p][i].file = g
      /\ \A j \in 1 .. Len(fileLoads[p]) : j # i => fileLoads'[p][j] = fileLoads[p][j]
  BY FileAnswered DEF ExplorerTypes
<1>4. DOMAIN fileLoads'[p] = 1 .. Len(fileLoads[p])
  BY <1>3
<1>5. ASSUME NEW f \in ExFile, ViewerUnderway(p, f) PROVE ViewerUnderway(p, f)'
  <2>1. file[f].version <= edits
    BY DEF ViewersInv, Versions
  <2>2. ASSUME NEW j \in DOMAIN fileLoads[p],
               ~ fileLoads[p][j].answered \/ fileLoads[p][j].asOf >= file[f].version
        PROVE  ViewerUnderway(p, f)'
    <3>1. /\ j \in DOMAIN fileLoads'[p]
          /\ ~ fileLoads'[p][j].answered \/ fileLoads'[p][j].asOf >= file'[f].version
      BY <1>2, <1>3, <1>4, <2>1, <2>2
    <3> QED BY <3>1 DEF ViewerUnderway
  <2> QED BY <1>2, <1>5, <2>2 DEF ViewerUnderway
<1>6. ViewerAt(p, m)'
  <2>1. viewer'[p] # NoFile =>
          file'[viewer'[p]].version <= m \/ ViewerUnderway(p, viewer[p])'
    <3>1. SUFFICES ASSUME viewer[p] # NoFile
                   PROVE  file[viewer[p]].version <= m \/ ViewerUnderway(p, viewer[p])'
      BY <1>2
    <3>2. PICK f \in ExFile : f = viewer[p] /\ f = viewer'[p]
      BY <1>0, <1>2, <3>1
    <3>3. file[f].version <= m \/ ViewerUnderway(p, f)
      BY <1>1, <3>1, <3>2 DEF ViewerAt
    <3>4. file[f].version <= m \/ ViewerUnderway(p, f)'
      BY <1>5, <3>3
    <3> QED BY <3>2, <3>4
  <2>2. ASSUME NEW j \in DOMAIN fileLoads'[p], fileLoads'[p][j].answered, ~ fileLoads'[p][j].late
        PROVE  fileLoads'[p][j].asOf >= m
    <3>1. CASE j = i
      BY <1>3, <3>1
    <3>2. CASE j # i
      BY <1>1, <1>3, <1>4, <2>2, <3>2 DEF ViewerAt
    <3> QED BY <3>1, <3>2
  <2> QED BY <1>1, <1>2, <2>1, <2>2 DEF ViewerAt
<1>7. FoundAsOf(found, edits) /\ (found # <<>> => found[1] = g)
  BY DEF FoundAsOf
<1> HIDE DEF found
<1>8. ViewerOnce(p)'
  <2>1. ViewerOnce(p)
    BY <1>0 DEF ViewerHolds
  <2>3. \A x, a : FoundAsOf(x, a)' <=> FoundAsOf(x, a)
    BY <1>2 DEF FoundAsOf
  <2>4. ASSUME NEW j \in DOMAIN fileLoads'[p], fileLoads'[p][j].answered
        PROVE  /\ FoundAsOf(fileLoads'[p][j].found, fileLoads'[p][j].asOf)
               /\ fileLoads'[p][j].asOf <= edits
               /\ fileLoads'[p][j].found # <<>> => fileLoads'[p][j].found[1] = fileLoads'[p][j].file
    <3>1. CASE j = i
      BY <1>3, <1>7, <3>1
    <3>2. CASE j # i
      BY <1>3, <1>4, <2>1, <2>4, <3>2 DEF ViewerOnce
    <3> QED BY <3>1, <3>2
  <2>5. viewer[p] # NoFile
    BY <2>1 DEF ViewerOnce
  <2> QED BY <1>2, <2>1, <2>3, <2>4, <2>5 DEF ViewerOnce
<1>9. OwnShown(p)'
  <2>1. \A j \in DOMAIN fileLoads[p] : fileLoads'[p][j].file = fileLoads[p][j].file
                                       /\ fileLoads'[p][j].late = fileLoads[p][j].late
    BY <1>3
  <2>2. LastOwn(p)' <=> LastOwn(p)
    <3>1. fileLoads[p] # <<>> /\ fileLoads'[p] # <<>> /\ Len(fileLoads[p]) \in DOMAIN fileLoads[p]
      BY <1>3
    <3> QED BY <1>2, <1>3, <2>1, <3>1 DEF LastOwn
  <2> QED BY <1>0, <1>2, <1>4, <2>1, <2>2 DEF ViewerHolds, OwnShown
<1> QED BY <1>2, <1>6, <1>8, <1>9 DEF ViewerHolds, ViewerFollows

\* loadFileContent is called for the file that is selected then: nothing is asked for
\* that is on record as deleted.
LEMMA LoadKeepsViewer ==
  ASSUME ExplorerTypes, ViewersInv, NEW p \in Page, NEW f \in ExFile, LoadFile(p, f),
         mounted[p], viewer'[p] = f,
         UNCHANGED <<file, edits, mounted, overtaken>>
  PROVE  ViewerHolds(p)'
<1> USE ExplorerShapes
<1>0. ViewerHolds(p)
  BY DEF ViewersInv
<1>1. PICK m \in 0 .. edits : ViewerAt(p, m)
  BY <1>0 DEF ViewerHolds, ViewerFollows
<1>2. f # NoFile
  BY ExplorerAssumption
<1>3. ViewerOnce(p)
  BY <1>0 DEF ViewerHolds
<1>4. CASE f \in deleted[p]
  <2>1. /\ isDeletedFile'[p] /\ content'[p] = NoContent /\ fileLoads'[p] = fileLoads[p]
        /\ NoContent.found = <<>> /\ NoContent.asOf = 0
    BY <1>4 DEF LoadFile, ExplorerTypes, ViewersTyped, NoContent
  <2>2. ViewerAt(p, m)'
    BY <1>1, <2>1 DEF ViewerAt, ViewerUnderway
  <2>3. OwnShown(p)'
    BY <2>1 DEF OwnShown
  <2>4. ViewerOnce(p)'
    BY <1>2, <1>3, <2>1 DEF ViewerOnce, FoundAsOf
  <2> QED BY <2>2, <2>3, <2>4 DEF ViewerHolds, ViewerFollows
<1>5. CASE f \notin deleted[p]
  <2> DEFINE load == [file |-> f, answered |-> FALSE, asOf |-> 0, found |-> <<>>, late |-> FALSE]
             n == Len(fileLoads[p]) + 1
  <2>1. content'[p] = content[p] /\ fileLoads'[p] = Append(fileLoads[p], load)
    BY <1>5 DEF LoadFile, ExplorerTypes, ViewersTyped
  <2>2. /\ n \in DOMAIN fileLoads'[p] /\ Len(fileLoads'[p]) = n
        /\ fileLoads'[p] # <<>>
        /\ fileLoads'[p][n].file = f /\ ~ fileLoads'[p][n].answered
        /\ \A j \in DOMAIN fileLoads'[p] : j # n =>
             j \in DOMAIN fileLoads[p] /\ fileLoads'[p][j] = fileLoads[p][j]
    <3>1. fileLoads[p] \in Seq(FileLoad)
      OBVIOUS
    <3> QED BY ONLY <2>1, <3>1
  <2> HIDE DEF n, load
  <2>3. ViewerUnderway(p, f)'
    BY <2>2 DEF ViewerUnderway
  <2>4. ViewerAt(p, m)'
    BY <1>1, <2>1, <2>2, <2>3 DEF ViewerAt
  <2>5. OwnShown(p)'
    BY <2>2 DEF OwnShown, LastOwn
  <2>6. ViewerOnce(p)'
    <3>1. \A x, a : FoundAsOf(x, a)' <=> FoundAsOf(x, a)
      BY DEF FoundAsOf
    <3>2. ASSUME NEW j \in DOMAIN fileLoads'[p], fileLoads'[p][j].answered
          PROVE  /\ FoundAsOf(fileLoads'[p][j].found, fileLoads'[p][j].asOf)
                 /\ fileLoads'[p][j].asOf <= edits
                 /\ fileLoads'[p][j].found # <<>> =>
                      fileLoads'[p][j].found[1] = fileLoads'[p][j].file
      <4>1. j # n /\ j \in DOMAIN fileLoads[p] /\ fileLoads'[p][j] = fileLoads[p][j]
        BY <2>2, <3>2
      <4> QED BY <1>3, <3>2, <4>1 DEF ViewerOnce
    <3>3. FoundAsOf(content'[p].found, content'[p].asOf) /\ content'[p].asOf <= edits
      BY <1>3, <2>1 DEF ViewerOnce
    <3> QED BY <1>2, <3>1, <3>2, <3>3 DEF ViewerOnce
  <2> QED BY <2>4, <2>5, <2>6 DEF ViewerHolds, ViewerFollows
<1> QED BY <1>4, <1>5

\* An answer is shown, whatever the file is by now.
LEMMA ArrivalKeepsViewer ==
  ASSUME ExplorerTypes, ViewersInv, NEW p \in Page, NEW i \in 1 .. Len(fileLoads[p]),
         FileArrives(p, i)
  PROVE  ViewerHolds(p)'
<1> USE ExplorerShapes
<1>0. ViewerHolds(p) /\ viewer[p] \in ExFile \cup {NoFile}
  BY DEF ViewersInv, ExplorerTypes, ViewersTyped
<1>1. PICK m \in 0 .. edits : ViewerAt(p, m)
  BY <1>0 DEF ViewerHolds, ViewerFollows
<1>2. UNCHANGED <<file, edits, reported, gap, mounted, viewer, hasFileChanged, events>>
  BY DEF FileArrives, serverVars
<1> DEFINE q == fileLoads'[p]
           s == fileLoads[p]
<1>3. s \in Seq(FileLoad) /\ i \in 1 .. Len(s) /\ q = AfterFile(s, i)
  BY DEF FileArrives, ExplorerTypes, ViewersTyped
<1>4. DOMAIN s = 1 .. Len(s) /\ Len(s) \in Nat
  BY <1>3
<1>5. /\ \A k \in 1 .. Len(s) : s[k].asOf \in Nat /\ s[k].found \in Found
      /\ s[i].answered /\ ViewerOnce(p) /\ s[i].asOf <= edits
  BY <1>0, <1>3, <1>4 DEF ViewerHolds, ViewerOnce, FileArrives
<1>6. /\ \A k \in 1 .. Len(s) : s[k].answered /\ ~ s[k].late => s[k].asOf >= m
      /\ \A k \in 1 .. Len(s) : s[k].answered =>
           /\ FoundAsOf(s[k].found, s[k].asOf) /\ s[k].asOf <= edits
           /\ s[k].found # <<>> => s[k].found[1] = s[k].file
  BY <1>1, <1>4, <1>5 DEF ViewerAt, ViewerOnce
<1>7. /\ content'[p].found = s[i].found /\ content'[p].asOf = s[i].asOf
      /\ isDeletedFile'[p] <=> isDeletedFile[p] \/ s[i].found = <<>>
      /\ "viewer" \notin overtaken'[p] => ~ s[i].late
  BY DEF FileArrives, ExplorerTypes, ViewersTyped, PagesTyped
<1>8. viewer[p] # NoFile
  BY <1>3, <1>5 DEF ViewerOnce
<1> HIDE DEF q, s
<1>9. /\ q \in Seq(FileLoad) /\ Len(q) = Len(s) - 1
      /\ \A j \in 1 .. Len(q) : \E k \in 1 .. Len(s) :
           k # i /\ SameFileLoad(q[j], s[k]) /\ LateFileLoad(q[j], s[k], s[i], k < i)
      /\ \A k \in 1 .. Len(s) : k # i => \E j \in 1 .. Len(q) : SameFileLoad(q[j], s[k])
      /\ i # Len(s) => Len(q) > 0 /\ q[Len(q)].file = s[Len(s)].file
  BY ONLY <1>3, FileDelivered
<1>10. DOMAIN q = 1 .. Len(q) /\ (Len(q) > 0 => q # <<>>)
  BY <1>9
<1>11. PICK n \in 0 .. edits : n = IF m <= s[i].asOf THEN s[i].asOf ELSE m
  BY <1>3, <1>5
<1>12. ASSUME NEW f \in ExFile, ViewerUnderway(p, f), ~ (file[f].version <= n)
       PROVE  ViewerUnderway(p, f)'
  <2>1. ASSUME NEW k \in 1 .. Len(s), ~ s[k].answered \/ s[k].asOf >= file[f].version
        PROVE  ViewerUnderway(p, f)'
    <3>1. k # i
      BY <1>3, <1>5, <1>11, <1>12, <2>1
    <3>2. PICK j \in 1 .. Len(q) : SameFileLoad(q[j], s[k])
      BY <1>9, <3>1
    <3>3. /\ j \in DOMAIN fileLoads'[p]
          /\ ~ fileLoads'[p][j].answered \/ fileLoads'[p][j].asOf >= file'[f].version
      BY <1>2, <1>10, <2>1, <3>2 DEF q, SameFileLoad
    <3> QED BY <3>3 DEF ViewerUnderway
  <2> QED BY <1>2, <1>4, <1>7, <1>12, <2>1 DEF ViewerUnderway, s
<1>13. ViewerAt(p, n)'
  <2>1. file[viewer[p]].version <= n \/ ViewerUnderway(p, viewer[p])'
    <3>1. viewer[p] \in ExFile /\ (file[viewer[p]].version <= m \/ ViewerUnderway(p, viewer[p]))
      BY <1>0, <1>1, <1>8 DEF ViewerAt
    <3>2. PICK f \in ExFile : f = viewer[p] /\ f = viewer'[p]
      BY <1>2, <3>1
    <3>3. file[f].version <= n \/ ViewerUnderway(p, f)
      BY <1>3, <1>5, <1>11, <3>1, <3>2
    <3>4. file[f].version <= n \/ ViewerUnderway(p, f)'
      BY <1>12, <3>3
    <3> QED BY <3>2, <3>4
  <2>2. "viewer" \notin overtaken'[p] => content'[p].asOf = n
    BY <1>3, <1>5, <1>6, <1>7, <1>11
  <2>3. ASSUME NEW j \in 1 .. Len(q), q[j].answered, ~ q[j].late PROVE q[j].asOf >= n
    <3>1. PICK k \in 1 .. Len(s) :
            k # i /\ SameFileLoad(q[j], s[k]) /\ LateFileLoad(q[j], s[k], s[i], k < i)
      BY <1>9
    <3>2. s[k].answered /\ ~ s[k].late /\ ~ (s[k].asOf < s[i].asOf)
      BY <2>3, <3>1 DEF SameFileLoad, LateFileLoad, Older
    <3>3. s[k].asOf >= m /\ s[k].asOf \in Nat /\ q[j].asOf = s[k].asOf
      BY <1>5, <1>6, <3>1, <3>2 DEF SameFileLoad
    <3> QED BY <1>3, <1>5, <1>11, <3>2, <3>3
  <2> QED BY <1>2, <1>10, <2>1, <2>2, <2>3 DEF ViewerAt, q
<1>14. OwnShown(p)'
  <2>1. SUFFICES ASSUME ~ isDeletedFile'[p], ~ LastOwn(p)'
                 PROVE  /\ \A j \in 1 .. Len(q) : q[j].file = viewer[p] \/ q[j].late
                        /\ "viewer" \notin overtaken'[p] => content'[p].found[1] = viewer[p]
    BY <1>2, <1>10 DEF OwnShown, q
  <2>2. ~ isDeletedFile[p] /\ s[i].found # <<>> /\ s[i].found[1] = s[i].file
    BY <1>3, <1>5, <1>6, <1>7, <2>1
  <2>3. CASE LastOwn(p)
    <3>1. s[Len(s)].file = viewer[p]
      BY <2>3 DEF LastOwn, s
    <3>2. i = Len(s)
      BY <1>2, <1>9, <1>10, <2>1, <3>1 DEF LastOwn, q
    <3>3. ASSUME NEW j \in 1 .. Len(q) PROVE q[j].file = viewer[p] \/ q[j].late
      <4>1. PICK k \in 1 .. Len(s) :
              k # i /\ SameFileLoad(q[j], s[k]) /\ LateFileLoad(q[j], s[k], s[i], k < i)
        BY <1>9
      <4>2. k < i
        BY <1>4, <3>2, <4>1
      <4> QED BY <3>1, <3>2, <4>1, <4>2 DEF SameFileLoad, LateFileLoad
    <3> QED BY <1>7, <2>2, <3>1, <3>2, <3>3
  <2>4. CASE ~ LastOwn(p)
    <3>1. \A k \in 1 .. Len(s) : s[k].file = viewer[p] \/ s[k].late
      BY <1>0, <1>4, <1>8, <2>2, <2>4 DEF ViewerHolds, OwnShown, s
    <3>2. ASSUME NEW j \in 1 .. Len(q) PROVE q[j].file = viewer[p] \/ q[j].late
      <4>1. PICK k \in 1 .. Len(s) :
              k # i /\ SameFileLoad(q[j], s[k]) /\ LateFileLoad(q[j], s[k], s[i], k < i)
        BY <1>9
      <4> QED BY <3>1, <4>1 DEF SameFileLoad, LateFileLoad
    <3>3. "viewer" \notin overtaken'[p] => content'[p].found[1] = viewer[p]
      BY <1>3, <1>7, <2>2, <3>1
    <3> QED BY <3>2, <3>3
  <2> QED BY <2>3, <2>4
<1>15. ViewerOnce(p)'
  <2>1. \A x, a : FoundAsOf(x, a)' <=> FoundAsOf(x, a)
    BY <1>2 DEF FoundAsOf
  <2>2. ASSUME NEW j \in 1 .. Len(q), q[j].answered
        PROVE  /\ FoundAsOf(q[j].found, q[j].asOf) /\ q[j].asOf <= edits
               /\ q[j].found # <<>> => q[j].found[1] = q[j].file
    <3>1. PICK k \in 1 .. Len(s) : SameFileLoad(q[j], s[k])
      BY <1>9
    <3> QED BY <1>6, <2>2, <3>1 DEF SameFileLoad
  <2>3. FoundAsOf(content'[p].found, content'[p].asOf) /\ content'[p].asOf <= edits
    BY <1>3, <1>5, <1>6, <1>7
  <2> QED BY <1>2, <1>5, <1>8, <1>10, <2>1, <2>2, <2>3 DEF ViewerOnce, q
<1> QED BY <1>2, <1>13, <1>14, <1>15 DEF ViewerHolds, ViewerFollows

\* An event is missed: what it tells passes the viewer by.
LEMMA MissKeepsViewer ==
  ASSUME ExplorerTypes, ViewersInv, NEW p \in Page, NEW i \in DOMAIN events[p], EventMissed(p, i)
  PROVE  ViewerHolds(p)'
<1> USE ExplorerShapes
<1>0. ViewerHolds(p) /\ viewer[p] \in ExFile \cup {NoFile}
  BY DEF ViewersInv, ExplorerTypes, ViewersTyped
<1>1. ViewerKeeps(p) /\ UNCHANGED <<file, edits>>
  BY DEF EventMissed, ViewerKeeps, viewerVars, serverVars
<1>2. gap'[p]["viewer"] = edits
  BY DEF EventMissed, ExplorerTypes, PagesTyped, Views
<1>3. ASSUME NEW f \in ExFile PROVE ViewerUnderway(p, f)'
  <2>1. file[f].version <= edits
    BY DEF ViewersInv, Versions
  <2> QED BY <1>1, <1>2, <2>1 DEF ViewerUnderway
<1> QED BY <1>0, <1>1, <1>3, ViewerSame

\* An event comes in: a change or a removal of the file that is shown marks it.
LEMMA EventKeepsViewer ==
  ASSUME ExplorerTypes, ViewersInv, NEW p \in Page, NEW i \in DOMAIN events[p], EventArrives(p, i)
  PROVE  ViewerHolds(p)'
<1> USE ExplorerShapes
<1>0. ViewerHolds(p) /\ viewer[p] \in ExFile \cup {NoFile}
  BY DEF ViewersInv, ExplorerTypes, ViewersTyped
<1>1. PICK m \in 0 .. edits : ViewerAt(p, m)
  BY <1>0 DEF ViewerHolds, ViewerFollows
<1>2. UNCHANGED <<file, edits, reported, mounted, viewer, fileLoads, overtaken>>
  BY DEF EventArrives, serverVars
<1> DEFINE event == events[p][i]
           gone  == Noticed(p, event) /\ event.type = "removed"
<1>3. /\ hasFileChanged'[p] <=> hasFileChanged[p] \/ Noticed(p, event)
      /\ isDeletedFile'[p] <=> isDeletedFile[p] \/ gone
      /\ content'[p] = IF gone THEN NoContent ELSE content[p]
      /\ events'[p] = RemoveAt(events[p], i)
  BY DEF EventArrives, ExplorerTypes, ViewersTyped, TreesTyped
<1>a. events[p] \in Seq(FileEvent) /\ i \in 1 .. Len(events[p]) /\ event \in FileEvent
  OBVIOUS
<1>4. \A k \in DOMAIN events[p] :
        events[p][k] = event \/ \E l \in DOMAIN events'[p] : events'[p][l] = events[p][k]
  <2>1. /\ Len(events[p]) \in Nat /\ DOMAIN events[p] = 1 .. Len(events[p])
        /\ i \in Nat /\ 1 <= i /\ i <= Len(events[p])
    BY <1>a
  <2>2. /\ DOMAIN events'[p] = 1 .. Len(events[p]) - 1
        /\ \A l \in 1 .. Len(events[p]) - 1 :
             events'[p][l] = IF l < i THEN events[p][l] ELSE events[p][l + 1]
    <3>1. /\ RemoveAt(events[p], i) \in Seq(FileEvent)
          /\ Len(RemoveAt(events[p], i)) = Len(events[p]) - 1
          /\ \A l \in 1 .. Len(events[p]) - 1 :
               RemoveAt(events[p], i)[l] = IF l < i THEN events[p][l] ELSE events[p][l + 1]
      <4>1. events[p] \in Seq(FileEvent) /\ i \in 1 .. Len(events[p])
        BY <1>a
      <4> QED BY ONLY <4>1, RemovedOne
    <3>2. events'[p] = RemoveAt(events[p], i)
      BY <1>3
    <3> QED BY ONLY <3>1, <3>2
  <2>3. ASSUME NEW k \in 1 .. Len(events[p]), k # i
        PROVE  \E l \in DOMAIN events'[p] : events'[p][l] = events[p][k]
    <3>1. CASE k < i
      <4>1. k \in 1 .. Len(events[p]) - 1
        BY <2>1, <2>3, <3>1
      <4> QED BY <2>2, <3>1, <4>1
    <3>2. CASE ~ (k < i)
      <4>1. k - 1 \in 1 .. Len(events[p]) - 1 /\ (k - 1) + 1 = k /\ ~ (k - 1 < i)
        BY <2>1, <2>3, <3>2
      <4> QED BY <2>2, <4>1
    <3> QED BY <3>1, <3>2
  <2> QED BY <2>1, <2>3
<1>b. gap'[p]["viewer"] = IF event.type = "added" THEN edits ELSE gap[p]["viewer"]
  <2>1. gap'[p] = [v \in Views |-> IF v \in PassOver(p, event) THEN edits ELSE gap[p][v]]
    BY DEF EventArrives, ExplorerTypes, PagesTyped
  <2>2. "viewer" \in Views /\ ("viewer" \in PassOver(p, event) <=> event.type = "added")
    BY DEF PassOver, Views
  <2> HIDE DEF event
  <2> QED BY <2>1, <2>2
<1>c. event.type \in {"added", "changed", "removed"}
  BY <1>a DEF FileEvent
<1>d. \A f \in ExFile : file[f].version <= edits
  BY DEF ViewersInv, Versions
<1>5. NoContent.found = <<>> /\ NoContent.asOf = 0
  BY DEF NoContent
<1> HIDE DEF event
<1>6. ASSUME NEW f \in ExFile, f = viewer[p], ViewerUnderway(p, f) PROVE ViewerUnderway(p, f)'
  <2>1. CASE event.type = "added"
    BY <1>2, <1>b, <1>d, <2>1 DEF ViewerUnderway
  <2>2. CASE event.type # "added" /\ event.file = f
    BY <1>3, <1>6, <1>c, <2>2 DEF ViewerUnderway, Noticed
  <2>3. CASE event.type # "added" /\ event.file # f
    <3>1. \A k \in DOMAIN events[p] : events[p][k].file = f =>
            \E l \in DOMAIN events'[p] : events'[p][l].file = f
      BY <1>4, <2>3
    <3>2. (hasFileChanged[p] => hasFileChanged'[p]) /\ (isDeletedFile[p] => isDeletedFile'[p])
      BY <1>3
    <3> QED BY <1>2, <1>6, <1>b, <2>3, <3>1, <3>2 DEF ViewerUnderway
  <2> QED BY <2>1, <2>2, <2>3
<1> HIDE DEF gone
<1>7. ViewerAt(p, m)'
  <2>1. viewer[p] # NoFile => file[viewer[p]].version <= m \/ ViewerUnderway(p, viewer[p])'
    <3>1. SUFFICES ASSUME viewer[p] # NoFile
                   PROVE  file[viewer[p]].version <= m \/ ViewerUnderway(p, viewer[p])'
      OBVIOUS
    <3>2. PICK f \in ExFile : f = viewer[p] /\ f = viewer'[p]
      BY <1>0, <1>2, <3>1
    <3>3. file[f].version <= m \/ ViewerUnderway(p, f)
      BY <1>1, <3>1, <3>2 DEF ViewerAt
    <3>4. file[f].version <= m \/ ViewerUnderway(p, f)'
      BY <1>6, <3>2, <3>3
    <3> QED BY <3>2, <3>4
  <2> QED BY <1>1, <1>2, <1>3, <1>5, <2>1 DEF ViewerAt
<1>8. ViewerOnce(p)'
  <2>1. FoundAsOf(content'[p].found, content'[p].asOf) /\ content'[p].asOf <= edits
    BY <1>0, <1>3, <1>5 DEF ViewerHolds, ViewerOnce, FoundAsOf
  <2>2. viewer[p] = NoFile => content'[p] = NoContent
    BY <1>0, <1>3 DEF ViewerHolds, ViewerOnce
  <2> QED BY <1>0, <1>2, <2>1, <2>2 DEF ViewerHolds, ViewerOnce, FoundAsOf
<1>9. OwnShown(p)'
  BY <1>0, <1>2, <1>3, <1>5 DEF ViewerHolds, OwnShown, LastOwn
<1> QED BY <1>2, <1>7, <1>8, <1>9 DEF ViewerHolds, ViewerFollows

LEMMA ViewerUntouched ==
  ASSUME ExplorerTypes, NEW o \in Page, NEW p \in Page,
         \/ o # p /\ (ViewerSteps(o) \/ PageSteps(o))
         \/ TreeSteps(o) \/ OtherSteps(o)
  PROVE  ViewerKeeps(p) /\ DiskKeeps(p)
<1> USE DEF serverVars, viewerVars, ExplorerTypes, ViewerKeeps, DiskKeeps
<1>1. ASSUME o # p, NEW i \in DOMAIN fileLoads[o], AnswerFile(o, i)
      PROVE  ViewerKeeps(p) /\ DiskKeeps(p)
  <2>1. i \in 1 .. Len(fileLoads[o])
    BY DEF ViewersTyped
  <2>2. fileLoads'[p] = fileLoads[p]
    BY <1>1, <2>1, FileAnswered
  <2> QED BY <1>1, <2>2 DEF AnswerFile
<1>2. ASSUME o # p, NEW i \in DOMAIN fileLoads[o], FileArrives(o, i)
      PROVE  ViewerKeeps(p) /\ DiskKeeps(p)
  BY <1>2 DEF FileArrives, PagesTyped, ViewersTyped
<1>3. ASSUME o # p, NEW f \in ExFile, SelectFile(o, f)
      PROVE  ViewerKeeps(p) /\ DiskKeeps(p)
  BY <1>3 DEF SelectFile, LoadFile, ViewersTyped
<1>4. CASE o # p /\ ReloadFile(o)
  BY <1>4 DEF ReloadFile, LoadFile, ViewersTyped
<1>5. CASE o # p /\ CloseViewer(o)
  BY <1>5 DEF CloseViewer, ViewerGone, PagesTyped, ViewersTyped
<1>6. CASE o # p /\ OpenExplorer(o)
  BY <1>6 DEF OpenExplorer, PagesTyped, ViewersTyped
<1>7. CASE o # p /\ LeaveExplorer(o)
  BY <1>7 DEF LeaveExplorer, ViewerGone, PagesTyped, ViewersTyped
<1>8. CASE o # p /\ EventSteps(o)
  BY <1>8 DEF EventSteps, EventArrives, EventMissed, PagesTyped, TreesTyped, ViewersTyped
<1>9. CASE TreeSteps(o)
  <2>1. UNCHANGED <<file, edits, reported, gap, mounted, viewer, content, hasFileChanged,
                    isDeletedFile, fileLoads, events>>
    BY <1>9 DEF TreeSteps, AnswerTree, TreeArrives, Refresh
  <2>2. \/ overtaken' = overtaken \/ overtaken' = [overtaken EXCEPT ![o] = @ \ {"tree"}]
        \/ overtaken' = [overtaken EXCEPT ![o] = @ \cup {"tree"}]
    BY <1>9 DEF TreeSteps, AnswerTree, TreeArrives, Refresh
  <2>3. "viewer" \in overtaken'[p] <=> "viewer" \in overtaken[p]
    BY <2>2 DEF PagesTyped
  <2> QED BY <2>1, <2>3
<1>10. CASE OtherSteps(o)
  BY <1>10 DEF OtherSteps, HandleWatch, HandleUnwatch, Toggle, DeletedExpires
<1> QED BY <1>1, <1>2, <1>3, <1>4, <1>5, <1>6, <1>7, <1>8, <1>9, <1>10 DEF ViewerSteps, PageSteps

LEMMA ViewersInvKept ==
  ASSUME ExplorerTypes, ViewersInv, [ExplorerNext]_explorerVars PROVE ViewersInv'
<1>1. Versions'
  BY VersionsKept DEF ViewersInv
<1>2. ASSUME NEW p \in Page PROVE ViewerHolds(p)'
  <2> USE ExplorerShapes
  <2>0. ViewerHolds(p) /\ viewer[p] \in ExFile \cup {NoFile}
    BY DEF ViewersInv, ExplorerTypes, ViewersTyped
  <2>1. ASSUME ViewerKeeps(p), DiskKeeps(p) PROVE ViewerHolds(p)'
    <3>1. \A f \in ExFile : ViewerUnderway(p, f) => ViewerUnderway(p, f)'
      BY <2>1 DEF ViewerUnderway, ViewerKeeps, DiskKeeps
    <3> QED BY <2>0, <2>1, <3>1, ViewerSame DEF DiskKeeps
  <2>2. ASSUME NEW f \in ExFile, Edit(f) PROVE ViewerHolds(p)'
    BY <2>2, EditKeepsViewer
  <2>3. CASE \E f \in ExFile : WatcherSteps(f)
    BY <2>3, WatcherKeepsViewer
  <2>4. ASSUME NEW o \in Page, \/ o # p /\ (ViewerSteps(o) \/ PageSteps(o))
                               \/ TreeSteps(o) \/ OtherSteps(o)
        PROVE  ViewerHolds(p)'
    BY <2>1, <2>4, ViewerUntouched
  <2>5. CASE ViewerSteps(p)
    <3>1. ASSUME NEW i \in 1 .. Len(fileLoads[p]), AnswerFile(p, i) PROVE ViewerHolds(p)'
      BY <3>1, AnswerKeepsViewer
    <3>2. ASSUME NEW i \in 1 .. Len(fileLoads[p]), FileArrives(p, i) PROVE ViewerHolds(p)'
      BY <3>2, ArrivalKeepsViewer
    <3>3. ASSUME NEW f \in ExFile, SelectFile(p, f) PROVE ViewerHolds(p)'
      <4>1. LoadFile(p, f) /\ mounted[p] /\ viewer'[p] = f
            /\ UNCHANGED <<file, edits, mounted, overtaken>>
        BY <3>3 DEF SelectFile, ExplorerTypes, ViewersTyped, serverVars
      <4> QED BY <4>1, LoadKeepsViewer
    <3>4. CASE ReloadFile(p)
      <4>1. viewer[p] \in ExFile /\ LoadFile(p, viewer[p]) /\ viewer' = viewer
            /\ UNCHANGED <<file, edits, mounted, overtaken>>
        BY <2>0, <3>4 DEF ReloadFile, serverVars
      <4>2. mounted[p]
        BY <2>0, <3>4 DEF ReloadFile, ViewerHolds, ViewerOnce
      <4>3. PICK f \in ExFile : f = viewer[p]
        BY <4>1
      <4>4. LoadFile(p, f) /\ viewer'[p] = f
        BY <4>1, <4>3
      <4> QED BY <4>1, <4>2, <4>4, LoadKeepsViewer
    <3>5. CASE CloseViewer(p)
      <4>1. viewer'[p] = NoFile /\ fileLoads'[p] = <<>> /\ content'[p] = NoContent
            /\ edits' \in Nat
        BY <3>5 DEF CloseViewer, ViewerGone, ExplorerTypes, ViewersTyped, serverVars
      <4> QED BY <4>1, NothingHoldsNext
    <3> QED BY <2>5, <3>1, <3>2, <3>3, <3>4, <3>5 DEF ViewerSteps
  <2>6. CASE OpenExplorer(p)
    <3>1. viewer[p] = NoFile /\ fileLoads[p] = <<>> /\ content[p] = NoContent
      BY <2>0, <2>6 DEF OpenExplorer, ViewerHolds, ViewerOnce
    <3>2. UNCHANGED <<viewer, fileLoads, content, edits>>
      BY <2>6 DEF OpenExplorer, viewerVars, serverVars
    <3> QED BY <3>1, <3>2, NothingHoldsNext
  <2>7. CASE LeaveExplorer(p)
    <3>1. viewer'[p] = NoFile /\ fileLoads'[p] = <<>> /\ content'[p] = NoContent
          /\ edits' \in Nat
      BY <2>7 DEF LeaveExplorer, ViewerGone, ExplorerTypes, ViewersTyped, serverVars
    <3> QED BY <3>1, NothingHoldsNext
  <2>8. CASE EventSteps(p)
    BY <2>8, EventKeepsViewer, MissKeepsViewer DEF EventSteps
  <2>9. CASE WatcherClosed \/ TaskWatches \/ TaskUnwatches \/ UNCHANGED explorerVars
    <3>1. ViewerKeeps(p) /\ DiskKeeps(p)
      BY <2>9 DEF WatcherClosed, TaskWatches, TaskUnwatches, explorerVars, viewerVars, ViewerKeeps,
        DiskKeeps
    <3> QED BY <2>1, <3>1
  <2> HIDE ExplorerShapes
  <2> QED BY <2>2, <2>3, <2>4, <2>5, <2>6, <2>7, <2>8, <2>9, ExplorerSteps DEF PageSteps
<1> QED BY <1>1, <1>2 DEF ViewersInv

LEMMA ViewersInvImplies == ExplorerTypes /\ ViewersInv => ViewerTrue
<1> SUFFICES ASSUME ExplorerTypes, ViewersInv, NEW p \in Page,
                    Arrived(p), viewer[p] \in WatchedFile,
                    content[p].found # <<>>, ~ hasFileChanged[p],
                    ~ isDeletedFile[p], "viewer" \notin overtaken[p],
                    content[p].asOf >= gap[p]["viewer"]
             PROVE  /\ file[viewer[p]].there
                    /\ content[p].found = <<viewer[p], file[viewer[p]].version>>
  BY DEF ViewerTrue
<1> USE ExplorerShapes
<1>0. ViewerHolds(p) /\ viewer[p] \in ExFile \cup {NoFile}
  BY DEF ViewersInv, ExplorerTypes, ViewersTyped
<1>1. PICK m \in 0 .. edits : ViewerAt(p, m)
  BY <1>0 DEF ViewerHolds, ViewerFollows
<1>2. viewer[p] # NoFile
  BY <1>0 DEF ViewerHolds, ViewerOnce, NoContent
<1>3. /\ reported[viewer[p]] = file[viewer[p]] /\ DOMAIN events[p] = {}
      /\ fileLoads[p] = <<>> /\ DOMAIN fileLoads[p] = {}
  BY DEF Arrived
<1>4. content[p].found[1] = viewer[p]
  BY <1>0, <1>2, <1>3 DEF ViewerHolds, OwnShown, LastOwn
<1>5. file[viewer[p]].version <= content[p].asOf
  <2>1. viewer[p] \in ExFile /\ content[p].asOf = m
    BY <1>0, <1>1, <1>2 DEF ViewerAt
  <2>2. file[viewer[p]].version <= m \/ gap[p]["viewer"] >= file[viewer[p]].version
    BY <1>1, <1>2, <1>3, <2>1 DEF ViewerAt, ViewerUnderway
  <2> QED BY <2>1, <2>2
<1>6. content[p].found = <<content[p].found[1], content[p].found[2]>>
  BY FoundTyped
<1>7. FoundAsOf(content[p].found, content[p].asOf)
  BY <1>0 DEF ViewerHolds, ViewerOnce
<1> QED BY <1>4, <1>5, <1>6, <1>7 DEF FoundAsOf

ExplorerInv == ExplorerTypes /\ TreesInv /\ ViewersInv

LEMMA ExplorerStarts == ExplorerInit => ExplorerInv
<1> SUFFICES ASSUME ExplorerInit PROVE ExplorerInv
  OBVIOUS
<1>0. 0 \in 0 .. MaxEdits /\ 0 \in 0 .. MaxClicks /\ <<>> \in Seq(TreeLoad)
      /\ <<>> \in Seq(FileEvent) /\ <<>> \in Seq(FileLoad)
  BY ExplorerAssumption
<1>1. DiskTyped
  BY <1>0 DEF ExplorerInit, DiskTyped, FileState
<1>2. PagesTyped
  BY <1>0 DEF ExplorerInit, PagesTyped
<1>3. TreesTyped
  BY <1>0, NewTyped DEF ExplorerInit, TreesTyped
<1>4. ViewersTyped
  BY <1>0, NewTyped DEF ExplorerInit, ViewersTyped
<1>5. ExplorerTypes
  BY <1>1, <1>2, <1>3, <1>4 DEF ExplorerTypes
<1>6. edits = 0 /\ Versions
  BY DEF ExplorerInit, Versions
<1>7. ASSUME NEW p \in Page PROVE TreeFollows(p) /\ TreeOnce(p)
  <2>1. ~ mounted[p] /\ tree[p] = NoTree /\ ~ NoTree.loaded /\ loads[p] = <<>>
    BY DEF ExplorerInit, NoTree
  <2>2. DOMAIN loads[p] = {}
    BY <2>1
  <2>3. TreeAt(p, 0)
    BY <2>1, <2>2 DEF TreeAt
  <2> QED BY <1>6, <2>1, <2>2, <2>3 DEF TreeFollows, TreeOnce
<1>8. ASSUME NEW p \in Page PROVE ViewerHolds(p)
  <2>1. viewer[p] = NoFile /\ fileLoads[p] = <<>> /\ content[p] = NoContent
    BY DEF ExplorerInit
  <2> QED BY <1>6, <2>1, NothingHolds
<1> QED BY <1>5, <1>6, <1>7, <1>8 DEF ExplorerInv, TreesInv, ViewersInv

LEMMA ExplorerInvHolds == ExplorerSpec => []ExplorerInv
<1>1. ExplorerInv /\ [ExplorerNext]_explorerVars => ExplorerInv'
  BY ExplorerTypesKept, TreesInvKept, ViewersInvKept DEF ExplorerInv
<1> QED BY <1>1, ExplorerStarts, PTL DEF ExplorerSpec

\* The state of the explorer keeps its shapes: files, watcher, pages, trees, viewers and
\* the calls and events under way.
THEOREM ExplorerTyped == ExplorerSpec => []ExplorerTypeOK
<1>1. ExplorerInv => ExplorerTypeOK
  BY ExplorerTypesImply DEF ExplorerInv
<1> QED BY <1>1, ExplorerInvHolds, PTL

\* When all has arrived a page shows which of the watched files are there and the content
\* they have, but for what passed its views by and for answers that overtook each other.
THEOREM PagesAreTrue == ExplorerSpec => []PageTrue
<1>1. ExplorerInv => PageTrue
  BY TreesInvImplies, ViewersInvImplies DEF ExplorerInv, PageTrue
<1> QED BY <1>1, ExplorerInvHolds, PTL

-----------------------------------------------------------------------------
(* Induction over the naturals, for a set instead of a predicate. *)

\* A set that has 0 and with every number its successor has them all.
LEMMA AllNumbers ==
  ASSUME NEW T, 0 \in T, \A n \in Nat : n \in T => n + 1 \in T
  PROVE  \A n \in Nat : n \in T
<1> DEFINE L == OpToRel(<, Nat)
           U == {n \in Nat : n \notin T}
<1>1. IsWellFoundedOn(L, Nat)
  BY NatLessThanWellFounded
<1>2. \A x \in Nat, y \in Nat : y < x => <<y, x>> \in L
  BY DEF OpToRel
<1> HIDE DEF L
<1>3. ASSUME U # {} PROVE FALSE
  <2>1. PICK x \in U : \A y \in U : ~ (<<y, x>> \in L)
    BY <1>1, <1>3, WFMin
  <2>2. x # 0 /\ x - 1 \in Nat /\ x - 1 < x
    BY <2>1
  <2>3. x - 1 \in T
    BY <1>2, <2>1, <2>2
  <2>4. (x - 1) + 1 \in T /\ (x - 1) + 1 = x
    BY <2>2, <2>3
  <2> QED BY <2>1, <2>4
<1> QED BY <1>3

\* Of the numbers in a set one is the least.
LEMMA LeastNumber ==
  ASSUME NEW T \in SUBSET Nat, T # {}
  PROVE  \E x \in T : \A y \in T : x <= y
<1> DEFINE L == OpToRel(<, Nat)
<1>1. IsWellFoundedOn(L, Nat)
  BY NatLessThanWellFounded
<1>2. \A x \in Nat, y \in Nat : y < x => <<y, x>> \in L
  BY DEF OpToRel
<1> HIDE DEF L
<1>3. PICK x \in T : \A y \in T : ~ (<<y, x>> \in L)
  BY <1>1, WFMin
<1>4. ASSUME NEW y \in T PROVE x <= y
  <2>1. x \in Nat /\ y \in Nat /\ ~ (y < x)
    BY <1>2, <1>3
  <2> QED BY <2>1
<1> QED BY <1>4

-----------------------------------------------------------------------------
(* FileCache: sums of sizes. *)

Entry == [file : CachedFile, content : 1 .. MaxVersions, size : Sizes]

\* g counts up the sizes of s.
Sums(g, s) ==
  /\ g \in [0 .. Len(s) -> Nat] /\ g[0] = 0
  /\ \A n \in 1 .. Len(s) : g[n] = g[n - 1] + s[n].size

LEMMA EntrySizes ==
  ASSUME NEW s \in Seq(Entry)
  PROVE  /\ Len(s) \in Nat /\ DOMAIN s = 1 .. Len(s)
         /\ \A n \in 1 .. Len(s) : s[n] \in Entry /\ s[n].size \in Nat \ {0}
<1>1. \A n \in 1 .. Len(s) : s[n] \in Entry
  OBVIOUS
<1>2. ASSUME NEW n \in 1 .. Len(s) PROVE s[n].size \in Nat \ {0}
  <2>1. s[n].size \in Sizes
    BY <1>1 DEF Entry
  <2> QED BY <2>1, FileCacheAssumption
<1>3. Len(s) \in Nat /\ DOMAIN s = 1 .. Len(s)
  OBVIOUS
<1> QED BY <1>1, <1>2, <1>3

\* Some function does.
LEMMA SumsExist ==
  ASSUME NEW s \in Seq(Entry) PROVE \E g : Sums(g, s)
<1> USE EntrySizes
<1> DEFINE Upto(g, k) == /\ g \in [0 .. k -> Nat] /\ g[0] = 0
                         /\ \A n \in 1 .. k : g[n] = g[n - 1] + s[n].size
           T == {k \in Nat : k <= Len(s) => \E g : Upto(g, k)}
<1>1. 0 \in T
  <2> DEFINE g == [n \in 0 .. 0 |-> 0]
  <2>0. \A n \in 1 .. 0 : FALSE
    OBVIOUS
  <2>1. g \in [0 .. 0 -> Nat] /\ g[0] = 0
    <3>1. 0 \in 0 .. 0
      OBVIOUS
    <3>2. g[0] = 0
      BY <3>1
    <3>3. ASSUME NEW k \in Nat PROVE [n \in 0 .. k |-> 0] \in [0 .. k -> Nat]
      OBVIOUS
    <3> QED BY <3>2, <3>3
  <2> HIDE DEF g
  <2>2. Upto(g, 0)
    BY <2>0, <2>1
  <2> QED BY <2>2
<1>2. ASSUME NEW k \in Nat, k \in T PROVE k + 1 \in T
  <2> HIDE DEF Upto
  <2>1. SUFFICES ASSUME k + 1 <= Len(s) PROVE \E g : Upto(g, k + 1)
    OBVIOUS
  <2> USE DEF Upto
  <2>2. PICK g : Upto(g, k)
    BY <1>2, <2>1, SMTT(30)
  <2> DEFINE h == [n \in 0 .. k + 1 |-> IF n = k + 1 THEN g[k] + s[k + 1].size ELSE g[n]]
  <2>3. s[k + 1].size \in Nat
    BY <2>1
  <2>4. h \in [0 .. k + 1 -> Nat] /\ h[0] = 0
    BY <2>2, <2>3
  <2>5. ASSUME NEW n \in 1 .. k + 1 PROVE h[n] = h[n - 1] + s[n].size
    <3>1. CASE n = k + 1
      <4>1. n - 1 = k /\ h[n - 1] = g[k] /\ h[n] = g[k] + s[k + 1].size
        BY <3>1
      <4> QED BY <3>1, <4>1
    <3>2. CASE n # k + 1
      <4>1. n \in 1 .. k /\ n - 1 \in 0 .. k /\ n - 1 # k + 1
        BY <3>2
      <4>2. h[n] = g[n] /\ h[n - 1] = g[n - 1]
        BY <4>1
      <4> QED BY <2>2, <4>1, <4>2
    <3> QED BY <3>1, <3>2
  <2> HIDE DEF h
  <2>6. Upto(h, k + 1)
    BY <2>4, <2>5
  <2> QED BY <2>6
<1> HIDE DEF T
<1>3. Len(s) \in T
  BY <1>1, <1>2, AllNumbers
<1> QED BY <1>3 DEF T, Sums

\* Functions that do agree.
LEMMA SumsAgree ==
  ASSUME NEW s \in Seq(Entry), NEW g, NEW h, Sums(g, s), Sums(h, s)
  PROVE  g[Len(s)] = h[Len(s)]
<1> USE EntrySizes
<1> DEFINE T == {k \in Nat : k <= Len(s) => g[k] = h[k]}
<1>1. 0 \in T
  BY DEF Sums
<1>2. ASSUME NEW k \in Nat, k \in T PROVE k + 1 \in T
  <2>1. SUFFICES ASSUME k + 1 <= Len(s) PROVE g[k + 1] = h[k + 1]
    OBVIOUS
  <2>2. k + 1 \in 1 .. Len(s) /\ (k + 1) - 1 = k /\ g[k] = h[k]
    BY <1>2, <2>1
  <2> QED BY <2>2 DEF Sums
<1> HIDE DEF T
<1>3. Len(s) \in T
  BY <1>1, <1>2, AllNumbers
<1> QED BY <1>3 DEF T

\* SizeOf is where they end.
LEMMA SizeIsSum ==
  ASSUME NEW s \in Seq(Entry), NEW g, Sums(g, s) PROVE SizeOf(s) = g[Len(s)]
<1> USE EntrySizes
<1> DEFINE Def(t) == t = [n \in 0 .. Len(s) |-> IF n = 0 THEN 0 ELSE t[n - 1] + s[n].size]
           total == CHOOSE t : Def(t)
<1>1. Def(g)
  <2>1. /\ g \in [0 .. Len(s) -> Nat] /\ g[0] = 0
        /\ \A n \in 1 .. Len(s) : g[n] = g[n - 1] + s[n].size
    BY DEF Sums
  <2>2. ASSUME NEW n \in 0 .. Len(s)
        PROVE  g[n] = IF n = 0 THEN 0 ELSE g[n - 1] + s[n].size
    <3>1. CASE n = 0
      BY <2>1, <3>1
    <3>2. CASE n # 0
      <4>1. n \in 1 .. Len(s)
        BY <3>2
      <4> QED BY <2>1, <3>2, <4>1
    <3> QED BY <3>1, <3>2
  <2> QED BY <2>1, <2>2
<1>2. Def(total)
  BY <1>1
<1>3. SizeOf(s) = total[Len(s)]
  BY DEF SizeOf
<1> HIDE DEF total
<1>4. total[0] = 0 /\ \A n \in 1 .. Len(s) : total[n] = total[n - 1] + s[n].size
  BY <1>2
<1> DEFINE T == {k \in Nat : k <= Len(s) => total[k] = g[k]}
<1>5. 0 \in T
  BY <1>4 DEF Sums
<1>6. ASSUME NEW k \in Nat, k \in T PROVE k + 1 \in T
  <2>1. SUFFICES ASSUME k + 1 <= Len(s) PROVE total[k + 1] = g[k + 1]
    OBVIOUS
  <2>2. k + 1 \in 1 .. Len(s) /\ (k + 1) - 1 = k /\ total[k] = g[k]
    BY <1>6, <2>1
  <2> QED BY <1>4, <2>2 DEF Sums
<1> HIDE DEF T
<1>7. Len(s) \in T
  BY <1>5, <1>6, AllNumbers
<1> QED BY <1>3, <1>7 DEF T

LEMMA SizeIsNat == ASSUME NEW s \in Seq(Entry) PROVE SizeOf(s) \in Nat
<1>1. PICK g : Sums(g, s)
  BY SumsExist
<1> QED BY <1>1, SizeIsSum, EntrySizes DEF Sums

\* The sum of a concatenation.
LEMMA SizeOfConcat ==
  ASSUME NEW a \in Seq(Entry), NEW b \in Seq(Entry)
  PROVE  a \o b \in Seq(Entry) /\ SizeOf(a \o b) = SizeOf(a) + SizeOf(b)
<1>1. PICK g : Sums(g, a)
  BY SumsExist
<1>2. PICK h : Sums(h, b)
  BY SumsExist
<1>3. Len(a) \in Nat /\ Len(b) \in Nat
  BY EntrySizes
<1>4. /\ a \o b \in Seq(Entry) /\ Len(a \o b) = Len(a) + Len(b)
      /\ \A i \in 1 .. Len(a) + Len(b) :
           (a \o b)[i] = IF i <= Len(a) THEN a[i] ELSE b[i - Len(a)]
  BY ConcatProperties
<1>5. /\ g \in [0 .. Len(a) -> Nat] /\ g[0] = 0
      /\ \A n \in 1 .. Len(a) : g[n] = g[n - 1] + a[n].size
      /\ h \in [0 .. Len(b) -> Nat] /\ h[0] = 0
      /\ \A n \in 1 .. Len(b) : h[n] = h[n - 1] + b[n].size
  BY <1>1, <1>2 DEF Sums
<1> DEFINE k == [n \in 0 .. Len(a) + Len(b) |->
                   IF n <= Len(a) THEN g[n] ELSE g[Len(a)] + h[n - Len(a)]]
<1>6. /\ k \in [0 .. Len(a) + Len(b) -> Nat] /\ k[0] = 0
      /\ k[Len(a) + Len(b)] = g[Len(a)] + h[Len(b)]
  <2>1. ASSUME NEW n \in 0 .. Len(a) + Len(b) PROVE k[n] \in Nat
    <3>1. CASE n <= Len(a)
      BY <1>3, <1>5, <3>1
    <3>2. CASE ~ (n <= Len(a))
      <4>1. n - Len(a) \in 0 .. Len(b) /\ Len(a) \in 0 .. Len(a)
        BY <1>3, <3>2
      <4>2. g[Len(a)] \in Nat /\ h[n - Len(a)] \in Nat
        BY <1>5, <4>1
      <4>3. k[n] = g[Len(a)] + h[n - Len(a)]
        BY <3>2
      <4> QED BY <4>2, <4>3
    <3> QED BY <3>1, <3>2
  <2>2. k[0] = g[0]
    BY <1>3
  <2>3. k[Len(a) + Len(b)] = g[Len(a)] + h[Len(b)]
    <3>1. Len(a) + Len(b) \in 0 .. Len(a) + Len(b) /\ (Len(a) + Len(b)) - Len(a) = Len(b)
      BY <1>3
    <3>2. CASE Len(b) = 0
      <4>1. g[Len(a)] \in Nat
        BY <1>3, <1>5, SMTT(30)
      <4> QED BY <1>3, <1>5, <3>1, <3>2, <4>1
    <3>3. CASE Len(b) # 0
      BY <1>3, <3>1, <3>3
    <3> QED BY <3>2, <3>3
  <2>4. k \in [0 .. Len(a) + Len(b) -> Nat]
    BY <2>1
  <2> QED BY <1>5, <2>2, <2>3, <2>4
<1>7. ASSUME NEW n \in 1 .. Len(a) + Len(b) PROVE k[n] = k[n - 1] + (a \o b)[n].size
  <2>0. n \in 0 .. Len(a) + Len(b) /\ n - 1 \in 0 .. Len(a) + Len(b)
    BY <1>3
  <2>1. CASE n <= Len(a)
    <3>1. n \in 1 .. Len(a) /\ n - 1 <= Len(a) /\ (a \o b)[n] = a[n]
      BY <1>3, <1>4, <2>1
    <3>2. k[n] = g[n] /\ k[n - 1] = g[n - 1]
      BY <2>0, <2>1, <3>1
    <3> QED BY <1>5, <3>1, <3>2
  <2>2. CASE ~ (n <= Len(a))
    <3> DEFINE m == n - Len(a)
    <3>1. m \in 1 .. Len(b) /\ (a \o b)[n] = b[m] /\ (n - 1) - Len(a) = m - 1
      BY <1>3, <1>4, <2>2
    <3>2. k[n] = g[Len(a)] + h[m]
      BY <2>0, <2>2
    <3>3. /\ h[m] = h[m - 1] + b[m].size
          /\ h[m - 1] \in Nat /\ b[m].size \in Nat /\ g[Len(a)] \in Nat
      <4>1. m - 1 \in 0 .. Len(b) /\ Len(a) \in 0 .. Len(a)
        BY <1>3, <3>1
      <4> QED BY <1>5, <3>1, <4>1, EntrySizes
    <3>4. k[n - 1] = g[Len(a)] + h[m - 1]
      <4>1. CASE n - 1 <= Len(a)
        <5>1. n - 1 = Len(a) /\ m - 1 = 0
          BY <1>3, <2>2, <4>1
        <5> QED BY <1>5, <2>0, <3>3, <4>1, <5>1
      <4>2. CASE ~ (n - 1 <= Len(a))
        BY <2>0, <3>1, <4>2
      <4> QED BY <4>1, <4>2
    <3> HIDE DEF m
    <3> QED BY <3>1, <3>2, <3>3, <3>4
  <2> QED BY <2>1, <2>2
<1> HIDE DEF k
<1>8. Sums(k, a \o b)
  BY <1>4, <1>6, <1>7 DEF Sums
<1>9. /\ SizeOf(a \o b) = k[Len(a) + Len(b)]
      /\ SizeOf(a) = g[Len(a)] /\ SizeOf(b) = h[Len(b)]
  BY <1>1, <1>2, <1>4, <1>8, SizeIsSum
<1> QED BY <1>4, <1>6, <1>9

\* ... of one entry and of none.
LEMMA SizeOfOne ==
  ASSUME NEW e \in Entry PROVE <<e>> \in Seq(Entry) /\ SizeOf(<<e>>) = e.size
<1> DEFINE s == <<e>>
           g == [n \in 0 .. 1 |-> IF n = 0 THEN 0 ELSE e.size]
<1>1. s \in Seq(Entry) /\ Len(s) = 1 /\ s[1] = e
  OBVIOUS
<1>2. e.size \in Nat
  <2>1. 1 \in 1 .. Len(s)
    BY <1>1
  <2>2. s[1].size \in Nat
    BY <1>1, <2>1, EntrySizes
  <2> QED BY <1>1, <2>2
<1>3. 0 .. 1 = {0, 1} /\ 1 .. 1 = {1}
  OBVIOUS
<1>4. g \in [0 .. 1 -> Nat] /\ g[0] = 0 /\ g[1] = e.size
  BY <1>2, <1>3
<1> HIDE DEF g, s
<1>5. Sums(g, s)
  BY <1>1, <1>2, <1>3, <1>4 DEF Sums
<1>6. SizeOf(s) = g[1]
  BY <1>1, <1>5, SizeIsSum
<1> QED BY <1>1, <1>4, <1>6 DEF s

LEMMA SizeOfNone == <<>> \in Seq(Entry) /\ SizeOf(<<>>) = 0
<1>1. <<>> \in Seq(Entry) /\ Len(<<>>) = 0
  OBVIOUS
<1>2. PICK g : Sums(g, <<>>)
  BY <1>1, SumsExist
<1> QED BY <1>1, <1>2, SizeIsSum DEF Sums

\* What is cut off and what is left add up.
LEMMA SizeOfParts ==
  ASSUME NEW s \in Seq(Entry), NEW n \in 0 .. Len(s)
  PROVE  /\ SubSeq(s, 1, n) \in Seq(Entry) /\ Len(SubSeq(s, 1, n)) = n
         /\ SubSeq(s, n + 1, Len(s)) \in Seq(Entry)
         /\ Len(SubSeq(s, n + 1, Len(s))) = Len(s) - n
         /\ \A i \in 1 .. n : SubSeq(s, 1, n)[i] = s[i]
         /\ \A i \in 1 .. Len(s) - n : SubSeq(s, n + 1, Len(s))[i] = s[i + n]
         /\ SizeOf(s) = SizeOf(SubSeq(s, 1, n)) + SizeOf(SubSeq(s, n + 1, Len(s)))
<1> DEFINE a == SubSeq(s, 1, n)
           b == SubSeq(s, n + 1, Len(s))
<1>1. Len(s) \in Nat /\ n \in Nat /\ n <= Len(s) /\ \A i \in 1 .. Len(s) : s[i] \in Entry
  OBVIOUS
<1>2. /\ a \in Seq(Entry) /\ Len(a) = n
      /\ \A i \in 1 .. n : a[i] = s[i]
  <2>1. /\ a \in Seq(Entry)
        /\ Len(a) = IF 1 <= n THEN n - 1 + 1 ELSE 0
        /\ \A i \in 1 .. n - 1 + 1 : a[i] = s[1 + i - 1]
    BY <1>1, SubSeqProperties
  <2> QED BY <1>1, <2>1
<1>3. /\ b \in Seq(Entry) /\ Len(b) = Len(s) - n
      /\ \A i \in 1 .. Len(s) - n : b[i] = s[i + n]
  <2>1. /\ b \in Seq(Entry)
        /\ Len(b) = IF n + 1 <= Len(s) THEN Len(s) - (n + 1) + 1 ELSE 0
        /\ \A i \in 1 .. Len(s) - (n + 1) + 1 : b[i] = s[(n + 1) + i - 1]
    BY <1>1, SubSeqProperties
  <2> QED BY <1>1, <2>1
<1> HIDE DEF a, b
<1>4. s = a \o b
  <2>1. /\ a \o b \in Seq(Entry) /\ Len(a \o b) = Len(s)
        /\ \A i \in 1 .. Len(s) : (a \o b)[i] = IF i <= n THEN a[i] ELSE b[i - n]
    <3>1. /\ a \o b \in Seq(Entry) /\ Len(a \o b) = Len(a) + Len(b)
          /\ \A i \in 1 .. Len(a) + Len(b) :
               (a \o b)[i] = IF i <= Len(a) THEN a[i] ELSE b[i - Len(a)]
      BY <1>2, <1>3, ConcatProperties
    <3>2. Len(a) = n /\ Len(a) + Len(b) = Len(s)
      BY <1>1, <1>2, <1>3
    <3> QED BY <3>1, <3>2
  <2>2. ASSUME NEW i \in 1 .. Len(s) PROVE (a \o b)[i] = s[i]
    <3>1. CASE i <= n
      BY <1>1, <1>2, <2>1, <3>1
    <3>2. CASE ~ (i <= n)
      <4>1. i - n \in 1 .. Len(s) - n /\ (i - n) + n = i
        BY <1>1, <3>2
      <4> QED BY <1>3, <2>1, <3>2, <4>1
    <3> QED BY <3>1, <3>2
  <2> QED BY <2>1, <2>2, SeqEqual
<1>5. SizeOf(a \o b) = SizeOf(a) + SizeOf(b)
  BY <1>2, <1>3, SizeOfConcat
<1> QED BY <1>2, <1>3, <1>4, <1>5 DEF a, b

-----------------------------------------------------------------------------
(* FileCache: the place of a file, what leaves the cache. *)

\* A file has one entry at most, as in a map.
OneEach(s) == \A i, j \in 1 .. Len(s) : s[i].file = s[j].file => i = j

LEMMA PlaceFound ==
  ASSUME NEW s \in Seq(Entry), NEW f
  PROVE  /\ Place(s, f) # 0 => Place(s, f) \in 1 .. Len(s) /\ s[Place(s, f)].file = f
         /\ Place(s, f) = 0 => \A i \in 1 .. Len(s) : s[i].file # f
<1> DEFINE I == {i \in 1 .. Len(s) : s[i].file = f}
<1>1. Place(s, f) = IF I # {} THEN Min(I) ELSE 0
  BY DEF Place, SelectInSeq
<1>2. CASE I = {}
  BY <1>1, <1>2
<1>3. CASE I # {}
  <2>1. PICK x \in I : \A y \in I : x <= y
    <3>1. I \in SUBSET Nat
      OBVIOUS
    <3> HIDE DEF I
    <3> QED BY <1>3, <3>1, LeastNumber
  <2>2. Min(I) \in I
    BY <2>1 DEF Min
  <2> QED BY <1>1, <1>3, <2>2
<1> QED BY <1>2, <1>3

\* The size of the entry of f.
SizeIn(s, f) == IF Place(s, f) = 0 THEN 0 ELSE s[Place(s, f)].size

LEMMA SizeInTyped == ASSUME NEW s \in Seq(Entry), NEW f PROVE SizeIn(s, f) \in Nat
<1>1. CASE Place(s, f) = 0
  BY <1>1 DEF SizeIn
<1>2. CASE Place(s, f) # 0
  BY <1>2, PlaceFound, EntrySizes DEF SizeIn
<1> QED BY <1>1, <1>2

\* The cache without a file: the others keep their entries, and the size is less by
\* that of the entry.
LEMMA WithoutFile ==
  ASSUME NEW s \in Seq(Entry), NEW f, OneEach(s)
  PROVE  /\ Without(s, f) \in Seq(Entry) /\ OneEach(Without(s, f))
         /\ \A i \in 1 .. Len(Without(s, f)) :
              Without(s, f)[i].file # f /\ \E j \in 1 .. Len(s) : Without(s, f)[i] = s[j]
         /\ SizeOf(s) = SizeOf(Without(s, f)) + SizeIn(s, f)
<1>0. SizeOf(s) \in Nat
  BY SizeIsNat
<1>1. CASE Place(s, f) = 0
  <2>1. Without(s, f) = s
    BY <1>1 DEF Without
  <2>2. SizeIn(s, f) = 0
    BY <1>1 DEF SizeIn
  <2> QED BY <1>0, <1>1, <2>1, <2>2, PlaceFound
<1>2. CASE Place(s, f) # 0
  <2>1. PICK i \in 1 .. Len(s) : i = Place(s, f) /\ s[i].file = f
    BY <1>2, PlaceFound
  <2>2. PICK t : t = RemoveAt(s, i)
    OBVIOUS
  <2>3. Without(s, f) = t
    BY <1>2, <2>1, <2>2 DEF Without
  <2>4. /\ t \in Seq(Entry) /\ Len(t) = Len(s) - 1
        /\ \A j \in 1 .. Len(s) - 1 : t[j] = IF j < i THEN s[j] ELSE s[j + 1]
    BY <2>2, RemovedOne
  <2>5. Len(s) \in Nat /\ Len(t) \in Nat
    OBVIOUS
  <2> DEFINE from(j) == IF j < i THEN j ELSE j + 1
  <2>6. \A j \in 1 .. Len(t) : from(j) \in 1 .. Len(s) /\ from(j) # i /\ t[j] = s[from(j)]
    BY <2>4, <2>5
  <2>7. \A j, k \in 1 .. Len(t) : from(j) = from(k) => j = k
    BY <2>5
  <2> HIDE DEF from
  <2>8. OneEach(t)
    BY <2>6, <2>7 DEF OneEach
  <2>9. ASSUME NEW j \in 1 .. Len(t) PROVE t[j].file # f /\ \E k \in 1 .. Len(s) : t[j] = s[k]
    BY <2>1, <2>6 DEF OneEach
  <2>10. SizeOf(s) = SizeOf(t) + s[i].size
    <3>1. PICK n \in 0 .. Len(s) : n = i - 1
      BY <2>5
    <3>2. n + 1 = i /\ 1 \in 0 .. Len(s) - n /\ Len(s) - n \in Nat
      BY <2>5, <3>1
    <3> DEFINE a == SubSeq(s, 1, n)
               b == SubSeq(s, n + 1, Len(s))
               c == SubSeq(s, i + 1, Len(s))
    <3>3. /\ a \in Seq(Entry) /\ b \in Seq(Entry) /\ Len(b) = Len(s) - n
          /\ SizeOf(s) = SizeOf(a) + SizeOf(b)
      BY SizeOfParts
    <3>4. c \in Seq(Entry) /\ s[i] \in Entry
      <4>1. i \in 0 .. Len(s)
        BY <2>5
      <4> QED BY <4>1, SizeOfParts
    <3>5. b = <<s[i]>> \o c
      <4>1. i \in 1 .. Len(s) /\ Len(s) \in i .. Len(s)
        BY <2>5
      <4>2. SubSeq(s, i, Len(s)) = <<s[i]>> \o SubSeq(s, i + 1, Len(s))
        BY <4>1, SubSeqRecursiveFirst
      <4> QED BY <3>2, <4>2
    <3>6. t = a \o c
      <4>1. i - 1 = n
        BY <2>5, <3>1
      <4> QED BY <2>2, <4>1 DEF RemoveAt
    <3> HIDE DEF a, b, c
    <3>7. SizeOf(b) = s[i].size + SizeOf(c)
      <4>1. <<s[i]>> \in Seq(Entry) /\ SizeOf(<<s[i]>>) = s[i].size
        BY <3>4, SizeOfOne
      <4>2. SizeOf(<<s[i]>> \o c) = SizeOf(<<s[i]>>) + SizeOf(c)
        BY <3>4, <4>1, SizeOfConcat
      <4> QED BY <3>5, <4>1, <4>2
    <3>8. SizeOf(t) = SizeOf(a) + SizeOf(c)
      BY <3>3, <3>4, <3>6, SizeOfConcat
    <3>9. SizeOf(a) \in Nat /\ SizeOf(c) \in Nat /\ s[i].size \in Nat
      BY <3>3, <3>4, SizeIsNat, EntrySizes
    <3> QED BY <3>3, <3>7, <3>8, <3>9
  <2>11. SizeIn(s, f) = s[i].size
    BY <1>2, <2>1 DEF SizeIn
  <2> QED BY <2>3, <2>4, <2>8, <2>9, <2>10, <2>11
<1> QED BY <1>1, <1>2

\* What is evicted is as many of the oldest as it takes.
LEMMA EvictedOldest ==
  ASSUME cache \in Seq(Entry), NEW required \in Nat
  PROVE  \E n \in 0 .. Len(cache) :
           /\ Evicted(required) = SubSeq(cache, 1, n)
           /\ n = Len(cache) \/ SizeOf(SubSeq(cache, 1, n)) >= required
<1> DEFINE Enough(n) == n = Len(cache) \/ SizeOf(SubSeq(cache, 1, n)) >= required
           Fit(n) == /\ Enough(n)
                     /\ \A m \in 0 .. n - 1 : SizeOf(SubSeq(cache, 1, m)) < required
           n0 == CHOOSE n \in 0 .. Len(cache) : Fit(n)
           T == {n \in 0 .. Len(cache) : Enough(n)}
<1>1. Evicted(required) = SubSeq(cache, 1, n0)
  BY DEF Evicted
<1>2. Len(cache) \in Nat /\ Len(cache) \in T
  OBVIOUS
<1>3. PICK x \in T : \A y \in T : x <= y
  <2>1. T \in SUBSET Nat
    OBVIOUS
  <2> HIDE DEF T
  <2> QED BY <1>2, <2>1, LeastNumber
<1>4. x \in 0 .. Len(cache) /\ Enough(x)
  BY <1>3
<1>5. ASSUME NEW m \in 0 .. x - 1 PROVE SizeOf(SubSeq(cache, 1, m)) < required
  <2>1. m \in 0 .. Len(cache) /\ m < x
    BY <1>2, <1>4
  <2>2. m \notin T
    BY <1>3, <1>4, <2>1
  <2>3. SizeOf(SubSeq(cache, 1, m)) \in Nat
    BY <2>1, SizeOfParts, SizeIsNat
  <2> QED BY <2>1, <2>2, <2>3
<1>6. Fit(x)
  BY <1>4, <1>5
<1> HIDE DEF Fit
<1>7. n0 \in 0 .. Len(cache) /\ Fit(n0)
  BY <1>4, <1>6
<1> HIDE DEF n0
<1> QED BY <1>1, <1>7 DEF Fit

-----------------------------------------------------------------------------
(* FileCache: types. *)

DiskState == [version : 0 .. MaxVersions, size : Sizes \cup {0}]
CallState == [pc : {"stat", "read"}, file : CachedFile, size : Sizes \cup {0},
              kind : {"added", "changed"}]

\* Beside the shapes: a file that is there was written, and what is read fits.
DiskOfCacheTyped ==
  /\ disk \in [CachedFile -> DiskState]
  /\ \A f \in CachedFile : disk[f].size # 0 => disk[f].version # 0
WatcherTyped ==
  /\ seen \in [CachedFile -> 0 .. MaxVersions] /\ present \in [CachedFile -> BOOLEAN]
  /\ told \in [CachedFile -> {"nothing", "added", "changed", "removed"}]
  /\ crossed \in SUBSET CachedFile
CallsTyped ==
  /\ call \in [CacheCall -> {NoCall} \cup CallState]
  /\ \A c \in CacheCall :
       call[c].pc = "read" => call[c].size \in Sizes /\ call[c].size <= MaxFileSize
EntriesTyped ==
  /\ cache \in Seq(Entry) /\ OneEach(cache)
  /\ currentCacheSize \in Int /\ evictedTwice \in BOOLEAN

CacheTypes == DiskOfCacheTyped /\ WatcherTyped /\ CallsTyped /\ EntriesTyped

LEMMA CacheTypesImply == CacheTypes => CacheTypeOK
<1> SUFFICES ASSUME CacheTypes PROVE CacheTypeOK
  OBVIOUS
<1>1. disk \in [CachedFile -> [version : 0 .. MaxVersions, size : Sizes \cup {0}]]
  BY DEF CacheTypes, DiskOfCacheTyped, DiskState
<1>2. /\ seen \in [CachedFile -> 0 .. MaxVersions] /\ present \in [CachedFile -> BOOLEAN]
      /\ told \in [CachedFile -> {"nothing", "added", "changed", "removed"}]
      /\ crossed \subseteq CachedFile
  BY DEF CacheTypes, WatcherTyped
<1>3. ASSUME NEW c \in CacheCall
      PROVE  call[c] = NoCall \/
               call[c] \in [pc : {"stat", "read"}, file : CachedFile, size : Sizes \cup {0},
                            kind : {"added", "changed"}]
  BY DEF CacheTypes, CallsTyped, CallState
<1>4. /\ cache \in Seq([file : CachedFile, content : 1 .. MaxVersions, size : Sizes])
      /\ currentCacheSize \in Int /\ evictedTwice \in BOOLEAN
  BY DEF CacheTypes, EntriesTyped, Entry
<1>5. \A i, j \in DOMAIN cache : cache[i].file = cache[j].file => i = j
  BY EntrySizes DEF CacheTypes, EntriesTyped, OneEach
<1> QED BY <1>1, <1>2, <1>3, <1>4, <1>5 DEF CacheTypeOK

LEMMA CacheTypesInitially == CacheInit => CacheTypes
<1>0. CacheInit => cache = <<>> /\ currentCacheSize = 0 /\ evictedTwice = FALSE
  BY DEF CacheInit
<1> SUFFICES ASSUME CacheInit PROVE CacheTypes
  OBVIOUS
<1> USE FileCacheAssumption DEF CacheInit
<1>1. DiskOfCacheTyped
  BY DEF DiskOfCacheTyped, DiskState
<1>2. WatcherTyped
  BY DEF WatcherTyped
<1>3. CallsTyped
  BY DEF CallsTyped, NoCall
<1>4. EntriesTyped
  <2> HIDE DEF CacheInit
  <2>1. cache \in Seq(Entry) /\ Len(cache) = 0
    BY <1>0, SizeOfNone
  <2>2. OneEach(cache)
    BY <2>1 DEF OneEach
  <2>3. evictedTwice \in BOOLEAN
    BY <1>0
  <2>4. currentCacheSize \in Int
    BY <1>0
  <2> QED BY <2>1, <2>2, <2>3, <2>4 DEF EntriesTyped
<1> QED BY <1>1, <1>2, <1>3, <1>4 DEF CacheTypes

\* A call under way.
LEMMA CallUnderway ==
  ASSUME CallsTyped, NEW c \in CacheCall
  PROVE  /\ call[c].pc = "idle" <=> call[c] = NoCall
         /\ call[c].pc # "idle" => call[c] \in CallState /\ call[c].file \in CachedFile
                                     /\ call[c].kind \in {"added", "changed"}
BY DEF CallsTyped, CallState, NoCall

LEMMA CachedSizeTyped ==
  ASSUME EntriesTyped, NEW f PROVE CachedSize(f) = SizeIn(cache, f) /\ CachedSize(f) \in Nat
<1>1. CachedSize(f) = SizeIn(cache, f)
  BY DEF CachedSize, SizeIn
<1> QED BY <1>1, SizeInTyped DEF EntriesTyped

-----------------------------------------------------------------------------
(* FileCache: what reading a file does to the cache and to the count. *)

\* What the eviction leaves of a file.
LEMMA LeftAfterEviction ==
  ASSUME EntriesTyped, NEW f, NEW n \in 0 .. Len(cache),
         NEW rest, rest = SubSeq(cache, n + 1, Len(cache))
  PROVE  /\ rest \in Seq(Entry) /\ Len(rest) = Len(cache) - n /\ OneEach(rest)
         /\ \A i \in 1 .. Len(rest) : rest[i] = cache[i + n] /\ i + n \in 1 .. Len(cache)
         /\ SizeIn(rest, f) \in Nat /\ SizeIn(rest, f) <= SizeIn(cache, f)
         /\ SizeIn(rest, f) # SizeIn(cache, f) => \E i \in 1 .. n : cache[i].file = f
<1>1. Len(cache) \in Nat /\ n \in Nat /\ n <= Len(cache) /\ cache \in Seq(Entry) /\ OneEach(cache)
  BY DEF EntriesTyped
<1>2. /\ rest \in Seq(Entry) /\ Len(rest) = Len(cache) - n
      /\ \A i \in 1 .. Len(cache) - n : rest[i] = cache[i + n]
  BY <1>1, SizeOfParts
<1>3. \A i \in 1 .. Len(rest) : rest[i] = cache[i + n] /\ i + n \in 1 .. Len(cache)
  BY <1>1, <1>2
<1>4. OneEach(rest)
  <2>1. \A i, j \in 1 .. Len(rest) : i + n = j + n => i = j
    BY <1>1, <1>2
  <2> QED BY <1>1, <1>3, <2>1 DEF OneEach
<1>5. SizeIn(rest, f) \in Nat /\ SizeIn(cache, f) \in Nat
  BY <1>1, <1>2, SizeInTyped
<1>6. CASE Place(rest, f) # 0
  <2>1. PICK q \in 1 .. Len(rest) : q = Place(rest, f) /\ rest[q].file = f
    BY <1>2, <1>6, PlaceFound
  <2>2. PICK p \in 1 .. Len(cache) : p = q + n /\ rest[q] = cache[p]
    BY <1>3
  <2>3. Place(cache, f) = p
    <3>1. Place(cache, f) # 0
      BY <1>1, <2>1, <2>2, PlaceFound
    <3>2. Place(cache, f) \in 1 .. Len(cache) /\ cache[Place(cache, f)].file = f
      BY <1>1, <3>1, PlaceFound
    <3> QED BY <1>1, <2>1, <2>2, <3>2 DEF OneEach
  <2>4. p # 0
    OBVIOUS
  <2>5. SizeIn(rest, f) = SizeIn(cache, f)
    BY <1>6, <2>1, <2>2, <2>3, <2>4 DEF SizeIn
  <2> QED BY <1>2, <1>3, <1>4, <1>5, <2>5
<1>7. CASE Place(rest, f) = 0
  <2>1. SizeIn(rest, f) = 0
    BY <1>7 DEF SizeIn
  <2>2. ASSUME SizeIn(cache, f) # 0 PROVE \E i \in 1 .. n : cache[i].file = f
    <3>1. Place(cache, f) # 0
      BY <2>2 DEF SizeIn
    <3>2. PICK p \in 1 .. Len(cache) : cache[p].file = f
      BY <1>1, <3>1, PlaceFound
    <3>3. ASSUME p > n PROVE FALSE
      <4>1. p - n \in 1 .. Len(rest) /\ (p - n) + n = p
        BY <1>1, <1>2, <3>3
      <4>2. rest[p - n] = cache[p]
        BY <1>3, <4>1
      <4> QED BY <1>2, <1>7, <3>2, <4>1, <4>2, PlaceFound
    <3>4. p \in 1 .. n
      BY <1>1, <3>3
    <3> QED BY <3>2, <3>4
  <2> QED BY <1>2, <1>3, <1>4, <1>5, <2>1, <2>2
<1> QED BY <1>6, <1>7

\* A file that was read: its entry is the last, and new; the rest stay unless they are
\* evicted; and the count stays sound.
LEMMA CacheRead ==
  ASSUME CacheTypes, NEW c \in CacheCall, ReadDone(c), NEW f, f = call[c].file, Exists(f)
  PROVE  /\ EntriesTyped'
         /\ \A i \in 1 .. Len(cache') :
              \/ cache'[i].file = f /\ cache'[i].content = disk[f].version
              \/ cache'[i].file # f /\ \E j \in 1 .. Len(cache) : cache'[i] = cache[j]
         /\ CountedUnlessEvictedTwice => CountedUnlessEvictedTwice'
<1>1. /\ EntriesTyped /\ cache \in Seq(Entry) /\ Len(cache) \in Nat
      /\ currentCacheSize \in Int /\ evictedTwice \in BOOLEAN /\ OneEach(cache)
  BY DEF CacheTypes, EntriesTyped
<1>2. /\ f \in CachedFile /\ call[c].size \in Sizes /\ call[c].size \in Nat
      /\ call[c].size <= MaxFileSize /\ MaxFileSize <= MaxCacheSize
      /\ MaxFileSize \in Nat /\ MaxCacheSize \in Nat
  <2>1. call[c].pc = "read" /\ call[c].pc # "idle"
    BY DEF ReadDone
  <2>2. f \in CachedFile
    BY <2>1, CallUnderway DEF CacheTypes
  <2>3. call[c].size \in Sizes /\ call[c].size <= MaxFileSize
    BY <2>1 DEF CacheTypes, CallsTyped
  <2> QED BY <2>2, <2>3, FileCacheAssumption
<1>3. PICK size \in Nat : size = call[c].size
  BY <1>2
<1>4. PICK x \in Nat : x = CachedSize(f) /\ x = SizeIn(cache, f)
  BY <1>1, CachedSizeTyped
<1>5. PICK gone : gone = IF currentCacheSize - x + size > MaxCacheSize THEN Evicted(size) ELSE <<>>
  OBVIOUS
<1>6. PICK rest : rest = SubSeq(cache, Len(gone) + 1, Len(cache))
  OBVIOUS
<1>7. PICK e : e = [file |-> f, content |-> disk[f].version, size |-> size]
  OBVIOUS
<1>8. /\ cache' = Append(Without(rest, f), e)
      /\ currentCacheSize' = currentCacheSize - x - SizeOf(gone) + size
      /\ evictedTwice' = (evictedTwice \/ \E d \in ToSet(gone) : d.file = f)
  BY <1>3, <1>4, <1>5, <1>6, <1>7 DEF ReadDone
<1>9. e \in Entry /\ e.size = size /\ e.file = f /\ e.content = disk[f].version
  <2>1. disk[f] \in DiskState /\ disk[f].version # 0
    BY <1>2 DEF CacheTypes, DiskOfCacheTyped, Exists
  <2>2. disk[f].version \in 1 .. MaxVersions
    BY <2>1, FileCacheAssumption DEF DiskState
  <2> QED BY <1>2, <1>3, <1>7, <2>2 DEF Entry
<1>10. PICK n \in 0 .. Len(cache) :
         /\ gone = SubSeq(cache, 1, n)
         /\ \/ currentCacheSize - x + size <= MaxCacheSize /\ n = 0
            \/ n = Len(cache)
            \/ SizeOf(gone) >= size
  <2>1. CASE currentCacheSize - x + size > MaxCacheSize
    <3>1. gone = Evicted(size)
      BY <1>5, <2>1
    <3> QED BY <1>1, <1>3, <3>1, EvictedOldest
  <2>2. CASE ~ (currentCacheSize - x + size > MaxCacheSize)
    <3>1. gone = <<>> /\ SubSeq(cache, 1, 0) = <<>> /\ 0 \in 0 .. Len(cache)
      BY <1>1, <1>5, <2>2
    <3>2. currentCacheSize - x + size <= MaxCacheSize
      BY <1>1, <1>2, <1>3, <1>4, <2>2
    <3> QED BY <3>1, <3>2
  <2> QED BY <2>1, <2>2
<1>11. /\ gone \in Seq(Entry) /\ Len(gone) = n /\ \A i \in 1 .. n : gone[i] = cache[i]
       /\ SizeOf(cache) = SizeOf(gone) + SizeOf(rest)
       /\ rest = SubSeq(cache, n + 1, Len(cache))
  <2>1. /\ SubSeq(cache, 1, n) \in Seq(Entry) /\ Len(SubSeq(cache, 1, n)) = n
        /\ \A i \in 1 .. n : SubSeq(cache, 1, n)[i] = cache[i]
        /\ SizeOf(cache) = SizeOf(SubSeq(cache, 1, n)) + SizeOf(SubSeq(cache, n + 1, Len(cache)))
    BY <1>1, SizeOfParts
  <2> QED BY <1>6, <1>10, <2>1
<1>12. /\ rest \in Seq(Entry) /\ Len(rest) = Len(cache) - n /\ OneEach(rest)
       /\ \A i \in 1 .. Len(rest) : rest[i] = cache[i + n] /\ i + n \in 1 .. Len(cache)
       /\ SizeIn(rest, f) \in Nat /\ SizeIn(rest, f) <= x
       /\ SizeIn(rest, f) # x => \E i \in 1 .. n : cache[i].file = f
  <2>1. /\ rest \in Seq(Entry) /\ Len(rest) = Len(cache) - n /\ OneEach(rest)
        /\ \A i \in 1 .. Len(rest) : rest[i] = cache[i + n] /\ i + n \in 1 .. Len(cache)
        /\ SizeIn(rest, f) \in Nat /\ SizeIn(rest, f) <= SizeIn(cache, f)
        /\ SizeIn(rest, f) # SizeIn(cache, f) => \E i \in 1 .. n : cache[i].file = f
    BY ONLY <1>1, <1>10, <1>11, LeftAfterEviction, ZenonT(40)
  <2> QED BY <1>4, <2>1
<1>13. PICK less : less = Without(rest, f)
  OBVIOUS
<1>14. /\ less \in Seq(Entry) /\ OneEach(less)
       /\ \A i \in 1 .. Len(less) : less[i].file # f /\ \E j \in 1 .. Len(rest) : less[i] = rest[j]
       /\ SizeOf(rest) = SizeOf(less) + SizeIn(rest, f)
  BY <1>12, <1>13, WithoutFile
<1>15. /\ cache' \in Seq(Entry) /\ Len(less) \in Nat /\ Len(cache') = Len(less) + 1
       /\ \A i \in 1 .. Len(less) : cache'[i] = less[i]
       /\ cache'[Len(less) + 1] = e
  BY <1>8, <1>9, <1>13, <1>14, AppendProperties
<1>16. ASSUME NEW i \in 1 .. Len(cache')
       PROVE  \/ cache'[i].file = f /\ cache'[i].content = disk[f].version
              \/ cache'[i].file # f /\ \E j \in 1 .. Len(cache) : cache'[i] = cache[j]
  <2>1. CASE i = Len(less) + 1
    BY <1>9, <1>15, <2>1
  <2>2. CASE i # Len(less) + 1
    <3>1. i \in 1 .. Len(less) /\ cache'[i] = less[i]
      BY <1>15, <2>2
    <3>2. less[i].file # f /\ \E j \in 1 .. Len(rest) : less[i] = rest[j]
      BY <1>14, <3>1
    <3> QED BY <1>12, <3>1, <3>2
  <2> QED BY <2>1, <2>2
<1>17. OneEach(cache')
  <2>1. SUFFICES ASSUME NEW i \in 1 .. Len(cache'), NEW j \in 1 .. Len(cache'),
                        cache'[i].file = cache'[j].file
                 PROVE  i = j
    BY DEF OneEach
  <2>2. \A k \in 1 .. Len(cache') : k \in 1 .. Len(less) \/ k = Len(less) + 1
    BY <1>15
  <2>3. \A k \in 1 .. Len(less) : cache'[k].file # f
    BY <1>14, <1>15
  <2>4. CASE i \in 1 .. Len(less) /\ j \in 1 .. Len(less)
    BY <1>14, <1>15, <2>1, <2>4 DEF OneEach
  <2> QED BY <1>9, <1>15, <2>1, <2>2, <2>3, <2>4
<1>18. PICK s, t, u \in Nat : s = SizeOf(gone) /\ t = SizeOf(less) /\ u = SizeIn(rest, f)
  BY <1>11, <1>12, <1>14, SizeIsNat
<1>19. /\ SizeOf(cache) = s + t + u /\ SizeOf(cache') = t + size
       /\ currentCacheSize' = currentCacheSize - x - s + size
  <2>1. SizeOf(cache) = s + t + u
    BY <1>11, <1>14, <1>18
  <2>2. SizeOf(Append(less, e)) = t + size
    <3>1. Append(less, e) = less \o <<e>>
      BY <1>9, <1>14, AppendIsConcat
    <3>2. SizeOf(<<e>>) = size /\ <<e>> \in Seq(Entry)
      BY <1>9, SizeOfOne
    <3> QED BY <1>14, <1>18, <3>1, <3>2, SizeOfConcat
  <2>3. cache' = Append(less, e)
    BY <1>8, <1>13
  <2>4. SizeOf(cache)' = SizeOf(Append(less, e))
    BY <2>3 DEF SizeOf
  <2> QED BY <1>8, <1>18, <2>1, <2>2, <2>4
<1>20. EntriesTyped'
  <2>1. currentCacheSize' \in Int
    BY <1>1, <1>19
  <2>2. evictedTwice' \in BOOLEAN
    BY <1>8
  <2> QED BY <1>15, <1>17, <2>1, <2>2 DEF EntriesTyped, OneEach
<1>21. ASSUME CountedUnlessEvictedTwice PROVE CountedUnlessEvictedTwice'
  <2>1. currentCacheSize <= s + t + u
    BY <1>19, <1>21 DEF CountedUnlessEvictedTwice
  <2>2. u <= x
    BY <1>12, <1>18
  <2>3. currentCacheSize' <= t + size
    BY <1>1, <1>19, <2>1, <2>2
  <2>4. ASSUME ~ evictedTwice' PROVE currentCacheSize' = t + size /\ t + size <= MaxCacheSize
    <3>1. ~ evictedTwice /\ \A d \in ToSet(gone) : d.file # f
      BY <1>8, <2>4
    <3>2. currentCacheSize = s + t + u /\ s + t + u <= MaxCacheSize
      BY <1>19, <1>21, <3>1 DEF CountedUnlessEvictedTwice
    <3>3. u = x
      <4>1. \A i \in 1 .. n : cache[i].file # f
        <5>1. DOMAIN gone = 1 .. n
          BY <1>11
        <5>2. \A i \in 1 .. n : gone[i] \in ToSet(gone)
          BY <5>1 DEF ToSet
        <5> QED BY <1>11, <3>1, <5>2
      <4> QED BY <1>12, <1>18, <4>1
    <3>4. currentCacheSize' = t + size
      BY <1>19, <3>2, <3>3
    <3>5. CASE currentCacheSize - x + size <= MaxCacheSize /\ n = 0
      <4>1. s = 0
        <5>1. gone = <<>>
          BY <1>11, <3>5
        <5> QED BY <1>18, <5>1, SizeOfNone
      <4> QED BY <1>2, <3>2, <3>3, <3>4, <3>5, <4>1
    <3>6. CASE n = Len(cache)
      <4>1. rest = <<>>
        BY <1>1, <1>12, <3>6
      <4>2. s + t + u = s + SizeOf(<<>>) /\ t + u = 0
        BY <1>11, <1>14, <1>18, <1>19, <4>1, SizeOfNone
      <4> QED BY <1>2, <1>3, <3>4, <4>2
    <3>7. CASE s >= size
      BY <1>2, <3>2, <3>4, <3>7
    <3> QED BY <1>10, <1>18, <3>4, <3>5, <3>6, <3>7
  <2> QED BY <1>19, <2>3, <2>4 DEF CountedUnlessEvictedTwice
<1> QED BY <1>16, <1>20, <1>21

-----------------------------------------------------------------------------
(* FileCache: what a step does to the calls. *)

LEMMA CallBegins ==
  ASSUME CacheTypes, NEW f \in CachedFile, NEW c \in CacheCall, Notices(f, c)
  PROVE  CallsTyped' /\ \A g : Calls(g)' = IF g = f THEN Calls(g) \cup {c} ELSE Calls(g)
<1>1. PICK r : r = [pc |-> "stat", file |-> f, size |-> 0,
                    kind |-> IF present[f] THEN "changed" ELSE "added"]
  OBVIOUS
<1>2. r \in CallState /\ r.pc = "stat" /\ r.file = f
  BY <1>1 DEF CallState
<1>3. call' = [call EXCEPT ![c] = r] /\ call[c].pc = "idle"
  BY <1>1 DEF Notices
<1>4. call \in [CacheCall -> {NoCall} \cup CallState]
  BY DEF CacheTypes, CallsTyped
<1>5. call' \in [CacheCall -> {NoCall} \cup CallState]
  BY <1>2, <1>3, <1>4
<1>6. call'[c] = r /\ \A d \in CacheCall : d # c => call'[d] = call[d]
  BY <1>3, <1>4
<1>7. CallsTyped'
  <2>1. ASSUME NEW d \in CacheCall, call'[d].pc = "read"
        PROVE  call'[d].size \in Sizes /\ call'[d].size <= MaxFileSize
    BY <1>2, <1>6, <2>1 DEF CacheTypes, CallsTyped
  <2> QED BY <1>5, <2>1 DEF CallsTyped
<1>8. ASSUME NEW g PROVE Calls(g)' = IF g = f THEN Calls(g) \cup {c} ELSE Calls(g)
  <2>1. Calls(g)' = {d \in CacheCall : call'[d].pc # "idle" /\ call'[d].file = g}
    BY DEF Calls
  <2>2. \A d \in CacheCall : (call'[d].pc # "idle" /\ call'[d].file = g)
          <=> (d \in Calls(g) \/ (d = c /\ g = f))
    BY <1>2, <1>3, <1>6 DEF Calls
  <2>3. Calls(g) \subseteq CacheCall
    BY DEF Calls
  <2> QED BY <2>1, <2>2, <2>3
<1> QED BY <1>7, <1>8

LEMMA CallEnds ==
  ASSUME CacheTypes, NEW c \in CacheCall, call[c].pc # "idle", Tells(c)
  PROVE  /\ CallsTyped' /\ \A g : Calls(g)' = Calls(g) \ {c}
         /\ call[c].file \in CachedFile /\ c \in Calls(call[c].file)
         /\ told'[call[c].file] \in {"added", "changed"}
         /\ \A g \in CachedFile : g # call[c].file => told'[g] = told[g] /\ c \notin Calls(g)
         /\ told' \in [CachedFile -> {"nothing", "added", "changed", "removed"}]
<1>1. call[c].file \in CachedFile /\ call[c].kind \in {"added", "changed"}
  BY CallUnderway DEF CacheTypes
<1>2. call' = [call EXCEPT ![c] = NoCall] /\ told' = [told EXCEPT ![call[c].file] = call[c].kind]
  BY DEF Tells
<1>3. /\ call \in [CacheCall -> {NoCall} \cup CallState]
      /\ told \in [CachedFile -> {"nothing", "added", "changed", "removed"}]
  BY DEF CacheTypes, CallsTyped, WatcherTyped
<1>4. call'[c] = NoCall /\ \A d \in CacheCall : d # c => call'[d] = call[d]
  BY <1>2, <1>3
<1>5. call' \in [CacheCall -> {NoCall} \cup CallState]
  BY <1>2, <1>3
<1>6. NoCall.pc = "idle"
  BY DEF NoCall
<1>7. CallsTyped'
  <2>1. ASSUME NEW d \in CacheCall, call'[d].pc = "read"
        PROVE  call'[d].size \in Sizes /\ call'[d].size <= MaxFileSize
    BY <1>4, <1>6, <2>1 DEF CacheTypes, CallsTyped
  <2> QED BY <1>5, <2>1 DEF CallsTyped
<1>8. ASSUME NEW g PROVE Calls(g)' = Calls(g) \ {c}
  <2>1. Calls(g)' = {d \in CacheCall : call'[d].pc # "idle" /\ call'[d].file = g}
    BY DEF Calls
  <2>2. \A d \in CacheCall : (call'[d].pc # "idle" /\ call'[d].file = g)
          <=> (d \in Calls(g) /\ d # c)
    BY <1>4, <1>6 DEF Calls
  <2>3. Calls(g) \subseteq CacheCall
    BY DEF Calls
  <2> QED BY <2>1, <2>2, <2>3
<1>9. c \in Calls(call[c].file) /\ \A g : g # call[c].file => c \notin Calls(g)
  BY DEF Calls
<1>10. /\ told'[call[c].file] \in {"added", "changed"}
       /\ \A g \in CachedFile : g # call[c].file => told'[g] = told[g]
       /\ told' \in [CachedFile -> {"nothing", "added", "changed", "removed"}]
  BY <1>1, <1>2, <1>3
<1> QED BY <1>1, <1>7, <1>8, <1>9, <1>10

LEMMA CallGoesOn ==
  ASSUME CacheTypes, NEW c \in CacheCall, StatDone(c),
         NEW size, size = disk[call[c].file].size, size # 0, ~ TooLarge(size)
  PROVE  CallsTyped' /\ (\A g : Calls(g)' = Calls(g)) /\ UNCHANGED told
<1>1. /\ call' = [call EXCEPT ![c].pc = "read", ![c].size = size] /\ UNCHANGED told
      /\ call[c].pc = "stat"
  BY DEF StatDone
<1>2. call[c] \in CallState /\ call[c].file \in CachedFile
  BY <1>1, CallUnderway DEF CacheTypes
<1>3. size \in Sizes /\ size <= MaxFileSize
  <2>1. disk[call[c].file] \in DiskState
    BY <1>2 DEF CacheTypes, DiskOfCacheTyped
  <2>2. size \in Sizes
    BY <2>1 DEF DiskState
  <2> QED BY <2>2, FileCacheAssumption DEF TooLarge
<1>4. PICK r : r = [call[c] EXCEPT !.pc = "read", !.size = size]
  OBVIOUS
<1>5. r \in CallState /\ r.pc = "read" /\ r.size = size /\ r.file = call[c].file
  BY <1>2, <1>3, <1>4 DEF CallState
<1>6. call \in [CacheCall -> {NoCall} \cup CallState]
  BY DEF CacheTypes, CallsTyped
<1>7. call'[c] = r /\ \A d \in CacheCall : d # c => call'[d] = call[d]
  BY <1>1, <1>4, <1>6
<1>8. call' \in [CacheCall -> {NoCall} \cup CallState]
  <2>1. DOMAIN call' = CacheCall /\ call' = [d \in CacheCall |-> call'[d]]
    BY <1>1, <1>6
  <2> QED BY <1>5, <1>6, <1>7, <2>1
<1>9. CallsTyped'
  <2>1. ASSUME NEW d \in CacheCall, call'[d].pc = "read"
        PROVE  call'[d].size \in Sizes /\ call'[d].size <= MaxFileSize
    BY <1>3, <1>5, <1>7, <2>1 DEF CacheTypes, CallsTyped
  <2> QED BY <1>8, <2>1 DEF CallsTyped
<1>10. ASSUME NEW g PROVE Calls(g)' = Calls(g)
  <2>1. Calls(g)' = {d \in CacheCall : call'[d].pc # "idle" /\ call'[d].file = g}
    BY DEF Calls
  <2>2. \A d \in CacheCall : (call'[d].pc # "idle" /\ call'[d].file = g) <=> d \in Calls(g)
    BY <1>1, <1>5, <1>7 DEF Calls
  <2>3. Calls(g) \subseteq CacheCall
    BY DEF Calls
  <2> QED BY <2>1, <2>2, <2>3
<1> QED BY <1>1, <1>9, <1>10

\* A file that leaves the cache gives back the size of its entry.
LEMMA FileLeavesCache ==
  ASSUME CacheTypes, NEW f \in CachedFile,
         cache' = Removed(f).cache, currentCacheSize' = Removed(f).size, UNCHANGED evictedTwice
  PROVE  /\ EntriesTyped'
         /\ \A i \in 1 .. Len(cache') :
              cache'[i].file # f /\ \E j \in 1 .. Len(cache) : cache'[i] = cache[j]
         /\ CountedUnlessEvictedTwice => CountedUnlessEvictedTwice'
<1>1. /\ EntriesTyped /\ cache \in Seq(Entry) /\ OneEach(cache)
      /\ currentCacheSize \in Int /\ evictedTwice \in BOOLEAN
  BY DEF CacheTypes, EntriesTyped
<1>2. PICK less : less = Without(cache, f)
  OBVIOUS
<1>3. PICK x : x = SizeIn(cache, f)
  OBVIOUS
<1>4. /\ less \in Seq(Entry) /\ OneEach(less)
      /\ \A i \in 1 .. Len(less) : less[i].file # f /\ \E j \in 1 .. Len(cache) : less[i] = cache[j]
      /\ SizeOf(cache) = SizeOf(less) + x
  BY <1>1, <1>2, <1>3, WithoutFile
<1>5. cache' = less /\ currentCacheSize' = currentCacheSize - x /\ x \in Nat
  <2>1. CachedSize(f) = x /\ x \in Nat
    BY <1>1, <1>3, CachedSizeTyped
  <2> QED BY <1>2, <2>1 DEF Removed
<1>6. EntriesTyped'
  <2>1. currentCacheSize' \in Int
    BY <1>1, <1>5
  <2>2. evictedTwice' \in BOOLEAN
    BY <1>1
  <2> QED BY <1>4, <1>5, <2>1, <2>2 DEF EntriesTyped, OneEach
<1>7. ASSUME CountedUnlessEvictedTwice PROVE CountedUnlessEvictedTwice'
  <2>1. PICK s, t \in Nat : s = SizeOf(cache) /\ t = SizeOf(less) /\ s = t + x
    BY <1>1, <1>4, SizeIsNat
  <2>2. SizeOf(cache)' = t
    BY <1>5, <2>1 DEF SizeOf
  <2>3. currentCacheSize' <= t
    BY <1>1, <1>5, <1>7, <2>1 DEF CountedUnlessEvictedTwice
  <2>4. ASSUME ~ evictedTwice' PROVE currentCacheSize' = t /\ t <= MaxCacheSize
    <3>1. ~ evictedTwice
      BY <2>4
    <3>2. currentCacheSize = s /\ s <= MaxCacheSize /\ MaxCacheSize \in Nat
      BY <1>7, <2>1, <3>1, FileCacheAssumption DEF CountedUnlessEvictedTwice
    <3> QED BY <1>5, <2>1, <3>2
  <2> QED BY <2>2, <2>3, <2>4 DEF CountedUnlessEvictedTwice
<1> QED BY <1>4, <1>5, <1>6, <1>7

LEMMA CountKept ==
  ASSUME UNCHANGED <<cache, currentCacheSize, evictedTwice>>, CountedUnlessEvictedTwice
  PROVE  CountedUnlessEvictedTwice'
BY DEF CountedUnlessEvictedTwice, SizeOf

LEMMA EntriesKept ==
  ASSUME CacheTypes, UNCHANGED <<cache, currentCacheSize, evictedTwice>>
  PROVE  EntriesTyped'
BY DEF CacheTypes, EntriesTyped, OneEach

LEMMA CacheTypesKept ==
  ASSUME CacheTypes, [CacheNext]_cacheVars
  PROVE  CacheTypes'
<1>0. /\ DiskOfCacheTyped /\ WatcherTyped /\ CallsTyped /\ EntriesTyped
  BY DEF CacheTypes
<1>1. ASSUME NEW f \in CachedFile, DiskChanges(f) PROVE CacheTypes'
  <2>1. PICK s \in Sizes \cup {0} :
          disk' = [disk EXCEPT ![f] = [version |-> @.version + 1, size |-> s]]
    BY <1>1 DEF DiskChanges
  <2>2. /\ disk \in [CachedFile -> DiskState]
        /\ \A g \in CachedFile : disk[g].size # 0 => disk[g].version # 0
    BY <1>0 DEF DiskOfCacheTyped
  <2>3. PICK v \in 0 .. MaxVersions : v = disk[f].version /\ v < MaxVersions
    BY <1>1, <2>2 DEF DiskState, DiskChanges
  <2>4. v + 1 \in 0 .. MaxVersions /\ v + 1 # 0
    BY <2>3, FileCacheAssumption
  <2>5. PICK r : r = [version |-> v + 1, size |-> s]
    OBVIOUS
  <2>6. r \in DiskState /\ r.version # 0
    BY <2>4, <2>5 DEF DiskState
  <2>7. disk' = [disk EXCEPT ![f] = r]
    BY <2>1, <2>3, <2>5
  <2>8. DiskOfCacheTyped'
    BY <2>2, <2>6, <2>7 DEF DiskOfCacheTyped
  <2>9. UNCHANGED <<seen, present, call, cache, currentCacheSize, told, crossed, evictedTwice>>
    BY <1>1 DEF DiskChanges
  <2>10. WatcherTyped' /\ CallsTyped'
    BY <1>0, <2>9 DEF WatcherTyped, CallsTyped
  <2> QED BY <2>8, <2>9, <2>10, EntriesKept DEF CacheTypes
<1>2. ASSUME NEW f \in CachedFile, NoticesRemoval(f) PROVE CacheTypes'
  <2>1. UNCHANGED <<disk, call, evictedTwice>>
    BY <1>2 DEF NoticesRemoval
  <2>2. DiskOfCacheTyped' /\ CallsTyped'
    BY <1>0, <2>1 DEF DiskOfCacheTyped, CallsTyped
  <2>3. disk[f].version \in 0 .. MaxVersions
    BY <1>0 DEF DiskOfCacheTyped, DiskState
  <2>4. WatcherTyped'
    <3>1. seen' \in [CachedFile -> 0 .. MaxVersions] /\ present' \in [CachedFile -> BOOLEAN]
      BY <1>0, <1>2, <2>3 DEF NoticesRemoval, WatcherTyped
    <3>2. /\ told' \in [CachedFile -> {"nothing", "added", "changed", "removed"}]
          /\ crossed' \in SUBSET CachedFile
      BY <1>0, <1>2 DEF NoticesRemoval, WatcherTyped
    <3> QED BY <3>1, <3>2 DEF WatcherTyped
  <2>5. EntriesTyped'
    <3>1. CASE present[f]
      <4>1. cache' = Removed(f).cache /\ currentCacheSize' = Removed(f).size
        BY <1>2, <3>1 DEF NoticesRemoval
      <4> QED BY <2>1, <4>1, FileLeavesCache
    <3>2. CASE ~ present[f]
      <4>1. UNCHANGED <<cache, currentCacheSize>>
        BY <1>2, <3>2 DEF NoticesRemoval
      <4> QED BY <2>1, <4>1, EntriesKept
    <3> QED BY <3>1, <3>2
  <2> QED BY <2>2, <2>4, <2>5 DEF CacheTypes
<1>3. ASSUME NEW f \in CachedFile, NEW c \in CacheCall, Notices(f, c) PROVE CacheTypes'
  <2>1. UNCHANGED <<disk, cache, currentCacheSize, told, evictedTwice>>
    BY <1>3 DEF Notices
  <2>2. DiskOfCacheTyped' /\ EntriesTyped' /\ CallsTyped'
    BY <1>0, <1>3, <2>1, EntriesKept, CallBegins DEF DiskOfCacheTyped
  <2>3. disk[f].version \in 0 .. MaxVersions
    BY <1>0 DEF DiskOfCacheTyped, DiskState
  <2>4. /\ seen' \in [CachedFile -> 0 .. MaxVersions] /\ present' \in [CachedFile -> BOOLEAN]
        /\ crossed' \in SUBSET CachedFile
    BY <1>0, <1>3, <2>3 DEF Notices, WatcherTyped
  <2>5. WatcherTyped'
    BY <1>0, <2>1, <2>4 DEF WatcherTyped
  <2> QED BY <2>2, <2>5 DEF CacheTypes
<1>4. ASSUME NEW c \in CacheCall, StatDone(c) PROVE CacheTypes'
  <2>1. UNCHANGED <<disk, seen, present, cache, currentCacheSize, crossed, evictedTwice>>
    BY <1>4 DEF StatDone
  <2>2. DiskOfCacheTyped' /\ EntriesTyped'
    BY <1>0, <2>1, EntriesKept DEF DiskOfCacheTyped
  <2>3. PICK size : size = disk[call[c].file].size
    OBVIOUS
  <2>4. /\ CallsTyped'
        /\ told' \in [CachedFile -> {"nothing", "added", "changed", "removed"}]
    <3>1. CASE size = 0 \/ TooLarge(size)
      <4>1. Tells(c) /\ call[c].pc # "idle"
        BY <1>4, <2>3, <3>1 DEF StatDone
      <4> QED BY <4>1, CallEnds
    <3>2. CASE size # 0 /\ ~ TooLarge(size)
      <4>1. CallsTyped' /\ UNCHANGED told
        BY <1>4, <2>3, <3>2, CallGoesOn
      <4> QED BY <1>0, <4>1 DEF WatcherTyped
    <3> QED BY <3>1, <3>2
  <2>5. WatcherTyped'
    BY <1>0, <2>1, <2>4 DEF WatcherTyped
  <2> QED BY <2>2, <2>4, <2>5 DEF CacheTypes
<1>5. ASSUME NEW c \in CacheCall, ReadDone(c) PROVE CacheTypes'
  <2>1. UNCHANGED <<disk, seen, present, crossed>> /\ Tells(c) /\ call[c].pc # "idle"
    BY <1>5 DEF ReadDone
  <2>2. /\ CallsTyped'
        /\ told' \in [CachedFile -> {"nothing", "added", "changed", "removed"}]
    BY <2>1, CallEnds
  <2>3. DiskOfCacheTyped'
    BY <1>0, <2>1 DEF DiskOfCacheTyped
  <2>4. WatcherTyped'
    BY <1>0, <2>1, <2>2 DEF WatcherTyped
  <2>5. PICK f : f = call[c].file
    OBVIOUS
  <2>6. EntriesTyped'
    <3>1. CASE Exists(f)
      BY <1>5, <2>5, <3>1, CacheRead
    <3>2. CASE ~ Exists(f)
      <4>1. UNCHANGED <<cache, currentCacheSize, evictedTwice>>
        BY <1>5, <2>5, <3>2 DEF ReadDone
      <4> QED BY <4>1, EntriesKept
    <3> QED BY <3>1, <3>2
  <2> QED BY <2>2, <2>3, <2>4, <2>6 DEF CacheTypes
<1>6. CASE UNCHANGED cacheVars
  <2>1. UNCHANGED <<disk, seen, present, call, cache, currentCacheSize, told, crossed,
                    evictedTwice>>
    BY <1>6 DEF cacheVars
  <2>2. DiskOfCacheTyped' /\ WatcherTyped' /\ CallsTyped'
    BY <1>0, <2>1 DEF DiskOfCacheTyped, WatcherTyped, CallsTyped
  <2> QED BY <2>1, <2>2, EntriesKept DEF CacheTypes
<1> QED BY <1>1, <1>2, <1>3, <1>4, <1>5, <1>6 DEF CacheNext

\* The variables of the cache of watched files have their types.
THEOREM CacheTyped == CacheSpec => []CacheTypeOK
BY CacheTypesInitially, CacheTypesKept, CacheTypesImply, PTL DEF CacheSpec

-----------------------------------------------------------------------------
(* FileCache: what the cache has and what clients were told. *)

\* The entry of f, if there is one, is current, or f has become too large.
EntryCurrent(f) ==
  \A i \in 1 .. Len(cache) : cache[i].file = f =>
    Exists(f) /\ (cache[i].content = disk[f].version \/ TooLarge(disk[f].size))

\* While no event of f crosses another: one call at most, and only while f is there; what
\* was told is what was reported, once the call is over; nothing is cached of a file that
\* was reported gone; and the entry is current when the file has settled.
Followed(f) ==
  /\ \A c, d \in Calls(f) : c = d
  /\ Calls(f) # {} => present[f]
  /\ Calls(f) = {} /\ told[f] # "nothing" => (told[f] = "removed" <=> ~ present[f])
  /\ ~ present[f] => \A i \in 1 .. Len(cache) : cache[i].file # f
  /\ Settled(f) => EntryCurrent(f)

\* The watcher is not ahead of the disk, and right when it is level with it.
WatchedAt(f) ==
  /\ seen[f] <= disk[f].version
  /\ seen[f] = disk[f].version => (present[f] <=> Exists(f))

FilesInv == \A f \in CachedFile : WatchedAt(f) /\ (f \notin crossed => Followed(f))

CacheInv == FilesInv /\ CountedUnlessEvictedTwice

LEMMA CacheInvInitially == CacheInit => CacheInv
<1> SUFFICES ASSUME CacheInit PROVE CacheInv
  OBVIOUS
<1>1. cache = <<>> /\ currentCacheSize = 0 /\ Len(cache) = 0
  BY DEF CacheInit
<1>2. CountedUnlessEvictedTwice
  <2>1. SizeOf(cache) = 0 /\ 0 <= MaxCacheSize
    BY <1>1, SizeOfNone, FileCacheAssumption
  <2> QED BY <1>1, <2>1 DEF CountedUnlessEvictedTwice
<1>3. ASSUME NEW f \in CachedFile PROVE WatchedAt(f) /\ Followed(f)
  <2>1. /\ disk[f].version = 0 /\ disk[f].size = 0 /\ seen[f] = 0 /\ present[f] = FALSE
        /\ told[f] = "nothing"
    BY DEF CacheInit
  <2>2. Calls(f) = {}
    BY DEF CacheInit, Calls, NoCall
  <2>3. WatchedAt(f)
    BY <2>1 DEF WatchedAt, Exists
  <2>4. \A i \in 1 .. Len(cache) : FALSE
    BY <1>1
  <2>5. Followed(f)
    BY <2>1, <2>2, <2>4 DEF Followed, EntryCurrent
  <2> QED BY <2>3, <2>5
<1> QED BY <1>2, <1>3 DEF CacheInv, FilesInv

LEMMA CacheInvImplies == CacheTypes /\ CacheInv => CacheSound
<1> SUFFICES ASSUME CacheTypes, CacheInv PROVE CacheSound
  OBVIOUS
<1>1. ASSUME NEW f \in CachedFile, Settled(f), f \notin crossed
      PROVE  /\ \A e \in Entries(f) :
                  Exists(f) /\ (e.content = disk[f].version \/ TooLarge(disk[f].size))
             /\ told[f] # "nothing" => (told[f] = "removed" <=> ~ Exists(f))
  <2>1. WatchedAt(f) /\ Followed(f)
    BY <1>1 DEF CacheInv, FilesInv
  <2>2. Calls(f) = {} /\ (present[f] <=> Exists(f))
    BY <1>1, <2>1 DEF Settled, WatchedAt
  <2>3. told[f] # "nothing" => (told[f] = "removed" <=> ~ Exists(f))
    BY <2>1, <2>2 DEF Followed
  <2>4. EntryCurrent(f)
    BY <1>1, <2>1 DEF Followed
  <2>5. DOMAIN cache = 1 .. Len(cache)
    BY EntrySizes DEF CacheTypes, EntriesTyped
  <2>6. \A e \in Entries(f) : \E i \in 1 .. Len(cache) : e = cache[i] /\ cache[i].file = f
    BY <2>5 DEF Entries, ToSet
  <2>7. \A e \in Entries(f) :
          Exists(f) /\ (e.content = disk[f].version \/ TooLarge(disk[f].size))
    BY <2>4, <2>6 DEF EntryCurrent
  <2> QED BY <2>3, <2>7
<1> QED BY <1>1 DEF CacheSound, CacheIsCurrent, LastEventTrue, CacheInv

\* What a step leaves alone that does not touch g; it may take the entry of g away.
Untouched(g) ==
  /\ disk'[g] = disk[g] /\ seen'[g] = seen[g] /\ (present'[g] <=> present[g])
  /\ told'[g] = told[g] /\ Calls(g)' = Calls(g) /\ (g \notin crossed' => g \notin crossed)
  /\ \A i \in 1 .. Len(cache') : cache'[i].file = g =>
       \E j \in 1 .. Len(cache) : cache'[i] = cache[j]

LEMMA UntouchedKept ==
  ASSUME NEW g \in CachedFile, Untouched(g), FilesInv
  PROVE  (WatchedAt(g) /\ (g \notin crossed => Followed(g)))'
<1>1. WatchedAt(g) /\ (g \notin crossed => Followed(g))
  BY DEF FilesInv
<1>2. WatchedAt(g)'
  BY <1>1 DEF Untouched, WatchedAt, Exists
<1>3. ASSUME g \notin crossed' PROVE Followed(g)'
  <2>1. Followed(g)
    BY <1>1, <1>3 DEF Untouched
  <2>2. (\A c, d \in Calls(g) : c = d)' /\ (Calls(g) # {} => present[g])'
    BY <2>1 DEF Untouched, Followed
  <2>3. Calls(g)' = {} /\ told'[g] # "nothing" => (told'[g] = "removed" <=> ~ present'[g])
    BY <2>1 DEF Untouched, Followed
  <2>4. ~ present'[g] => \A i \in 1 .. Len(cache') : cache'[i].file # g
    BY <2>1 DEF Untouched, Followed
  <2>5. Settled(g)' => EntryCurrent(g)'
    <3>1. Settled(g)' => Settled(g)
      BY DEF Untouched, Settled
    <3>2. EntryCurrent(g) => EntryCurrent(g)'
      BY DEF Untouched, EntryCurrent, Exists
    <3> QED BY <2>1, <3>1, <3>2 DEF Followed
  <2> QED BY <2>2, <2>3, <2>4, <2>5 DEF Followed
<1> QED BY <1>2, <1>3

\* Entries that were not touched.
LEMMA EntriesUntouched ==
  ASSUME UNCHANGED cache, NEW g
  PROVE  \A i \in 1 .. Len(cache') : cache'[i].file = g =>
           \E j \in 1 .. Len(cache) : cache'[i] = cache[j]
OBVIOUS

\* What CallEnds does for the file of the call, once its entry is seen to.
LEMMA FollowedAfterCall ==
  ASSUME CacheTypes, FilesInv, NEW c \in CacheCall, call[c].pc # "idle", Tells(c),
         UNCHANGED <<disk, seen, present, crossed>>,
         NEW f, f = call[c].file,
         Exists(f) => EntryCurrent(f)'
  PROVE  WatchedAt(f)' /\ (f \notin crossed => Followed(f)')
<1>1. /\ f \in CachedFile /\ c \in Calls(f) /\ Calls(f)' = Calls(f) \ {c}
      /\ told'[f] \in {"added", "changed"}
  BY CallEnds
<1>2. WatchedAt(f) /\ (f \notin crossed => Followed(f))
  BY <1>1 DEF FilesInv
<1>3. WatchedAt(f)'
  BY <1>2 DEF WatchedAt, Exists
<1>4. ASSUME f \notin crossed PROVE Followed(f)'
  <2>1. Followed(f) /\ present[f] /\ present'[f]
    BY <1>1, <1>2, <1>4 DEF Followed
  <2>2. Calls(f)' = {}
    BY <1>1, <2>1 DEF Followed
  <2>3. Settled(f)' => Exists(f)
    BY <1>2, <2>1 DEF Settled, WatchedAt
  <2>4. told'[f] # "removed"
    BY <1>1
  <2> QED BY <2>1, <2>2, <2>3, <2>4 DEF Followed
<1> QED BY <1>3, <1>4

LEMMA FilesKept ==
  ASSUME CacheTypes, FilesInv, [CacheNext]_cacheVars
  PROVE  FilesInv'
<1> DEFINE Good(g) == WatchedAt(g) /\ (g \notin crossed => Followed(g))
<1>1. ASSUME NEW f \in CachedFile, DiskChanges(f), NEW g \in CachedFile PROVE Good(g)'
  <2>1. UNCHANGED <<seen, present, call, cache, told, crossed>>
    BY <1>1 DEF DiskChanges
  <2>2. \A h : Calls(h)' = Calls(h)
    BY <2>1 DEF Calls
  <2>3. disk \in [CachedFile -> DiskState]
    BY DEF CacheTypes, DiskOfCacheTyped
  <2>4. CASE g # f
    <3>1. disk'[g] = disk[g]
      BY <1>1, <2>3, <2>4 DEF DiskChanges
    <3>2. Untouched(g)
      BY <2>1, <2>2, <3>1, EntriesUntouched DEF Untouched
    <3> QED BY <3>2, UntouchedKept
  <2>5. CASE g = f
    <3>1. WatchedAt(f) /\ (f \notin crossed => Followed(f))
      BY DEF FilesInv
    <3>2. disk'[f].version = disk[f].version + 1 /\ disk[f].version \in Nat /\ seen[f] \in Nat
      <4>1. disk[f] \in DiskState /\ seen[f] \in 0 .. MaxVersions
        BY <2>3 DEF CacheTypes, WatcherTyped
      <4> QED BY <1>1, <2>3, <4>1 DEF DiskChanges, DiskState
    <3>3. seen'[f] <= disk'[f].version /\ seen'[f] # disk'[f].version
      BY <2>1, <3>1, <3>2 DEF WatchedAt
    <3>4. f \notin crossed' => Followed(f)'
      BY <2>1, <2>2, <3>1, <3>3 DEF Followed, Settled
    <3> QED BY <2>5, <3>3, <3>4 DEF WatchedAt
  <2> QED BY <2>4, <2>5
<1>2. ASSUME NEW f \in CachedFile, NoticesRemoval(f), NEW g \in CachedFile PROVE Good(g)'
  <2>1. /\ UNCHANGED <<disk, call, evictedTwice>>
        /\ seen' = [seen EXCEPT ![f] = disk[f].version]
        /\ present' = [present EXCEPT ![f] = FALSE] /\ ~ Exists(f)
    BY <1>2 DEF NoticesRemoval
  <2>2. \A h : Calls(h)' = Calls(h)
    BY <2>1 DEF Calls
  <2>3. /\ seen \in [CachedFile -> 0 .. MaxVersions] /\ present \in [CachedFile -> BOOLEAN]
        /\ told \in [CachedFile -> {"nothing", "added", "changed", "removed"}]
    BY DEF CacheTypes, WatcherTyped
  <2>4. present[f] =>
          \A i \in 1 .. Len(cache') :
            cache'[i].file # f /\ \E j \in 1 .. Len(cache) : cache'[i] = cache[j]
    BY <1>2, <2>1, FileLeavesCache DEF NoticesRemoval
  <2>5. ~ present[f] => UNCHANGED <<told, cache, crossed>>
    BY <1>2 DEF NoticesRemoval
  <2>6. present[f] => /\ told' = [told EXCEPT ![f] = "removed"]
                      /\ crossed' = IF Calls(f) # {} THEN crossed \cup {f} ELSE crossed
    BY <1>2 DEF NoticesRemoval
  <2>7. CASE g # f
    <3>1. seen'[g] = seen[g] /\ (present'[g] <=> present[g]) /\ told'[g] = told[g]
      BY <2>1, <2>3, <2>5, <2>6, <2>7
    <3>2. g \notin crossed' => g \notin crossed
      BY <2>5, <2>6
    <3>3. \A i \in 1 .. Len(cache') : cache'[i].file = g =>
            \E j \in 1 .. Len(cache) : cache'[i] = cache[j]
      BY <2>4, <2>5
    <3>4. Untouched(g)
      BY <2>1, <2>2, <3>1, <3>2, <3>3 DEF Untouched
    <3> QED BY <3>4, UntouchedKept
  <2>8. CASE g = f
    <3>1. seen'[f] = disk'[f].version /\ ~ present'[f] /\ ~ Exists(f)'
      BY <2>1, <2>3 DEF Exists
    <3>2. disk[f].version \in Nat
      <4>1. disk[f] \in DiskState
        BY DEF CacheTypes, DiskOfCacheTyped
      <4> QED BY <4>1 DEF DiskState
    <3>3. WatchedAt(f)'
      BY <2>1, <3>1, <3>2 DEF WatchedAt
    <3>4. ASSUME f \notin crossed'
          PROVE  /\ Calls(f) = {} /\ (told'[f] # "nothing" => told'[f] = "removed")
                 /\ \A i \in 1 .. Len(cache') : cache'[i].file # f
      <4>1. CASE present[f]
        BY <2>3, <2>4, <2>6, <3>4, <4>1
      <4>2. CASE ~ present[f]
        <5>1. Followed(f)
          BY <2>5, <3>4, <4>2 DEF FilesInv
        <5> QED BY <2>5, <4>2, <5>1 DEF Followed
      <4> QED BY <4>1, <4>2
    <3>5. f \notin crossed' => Followed(f)'
      BY <2>2, <3>1, <3>4 DEF Followed, EntryCurrent
    <3> QED BY <2>8, <3>3, <3>5
  <2> QED BY <2>7, <2>8
<1>3. ASSUME NEW f \in CachedFile, NEW c \in CacheCall, Notices(f, c), NEW g \in CachedFile
      PROVE  Good(g)'
  <2>1. /\ UNCHANGED <<disk, cache, told>>
        /\ seen' = [seen EXCEPT ![f] = disk[f].version]
        /\ present' = [present EXCEPT ![f] = TRUE] /\ Exists(f)
        /\ crossed' = IF Calls(f) # {} THEN crossed \cup {f} ELSE crossed
    BY <1>3 DEF Notices
  <2>2. \A h : Calls(h)' = IF h = f THEN Calls(h) \cup {c} ELSE Calls(h)
    BY <1>3, CallBegins
  <2>3. seen \in [CachedFile -> 0 .. MaxVersions] /\ present \in [CachedFile -> BOOLEAN]
    BY DEF CacheTypes, WatcherTyped
  <2>4. CASE g # f
    <3>1. /\ seen'[g] = seen[g] /\ (present'[g] <=> present[g])
          /\ (g \notin crossed' => g \notin crossed) /\ Calls(g)' = Calls(g)
      BY <2>1, <2>2, <2>3, <2>4
    <3>2. Untouched(g)
      BY <2>1, <3>1, EntriesUntouched DEF Untouched
    <3> QED BY <3>2, UntouchedKept
  <2>5. CASE g = f
    <3>1. seen'[f] = disk'[f].version /\ present'[f] /\ Exists(f)'
      BY <2>1, <2>3 DEF Exists
    <3>2. disk[f].version \in Nat
      <4>1. disk[f] \in DiskState
        BY DEF CacheTypes, DiskOfCacheTyped
      <4> QED BY <4>1 DEF DiskState
    <3>3. WatchedAt(f)'
      BY <2>1, <3>1, <3>2 DEF WatchedAt
    <3>4. ASSUME f \notin crossed' PROVE Calls(f)' = {c}
      BY <2>1, <2>2, <3>4
    <3>5. f \notin crossed' => Followed(f)'
      BY <3>1, <3>4 DEF Followed, Settled
    <3> QED BY <2>5, <3>3, <3>5
  <2> QED BY <2>4, <2>5
<1>4. ASSUME NEW c \in CacheCall, StatDone(c), NEW g \in CachedFile PROVE Good(g)'
  <2>1. UNCHANGED <<disk, seen, present, cache, currentCacheSize, crossed, evictedTwice>>
    BY <1>4 DEF StatDone
  <2>2. PICK f, size : f = call[c].file /\ size = disk[f].size
    OBVIOUS
  <2>3. CASE size # 0 /\ ~ TooLarge(size)
    <3>1. Calls(g)' = Calls(g) /\ UNCHANGED told
      BY <1>4, <2>2, <2>3, CallGoesOn
    <3>2. Untouched(g)
      BY <2>1, <3>1, EntriesUntouched DEF Untouched
    <3> QED BY <3>2, UntouchedKept
  <2>4. CASE size = 0 \/ TooLarge(size)
    <3>1. Tells(c) /\ call[c].pc # "idle"
      BY <1>4, <2>2, <2>4 DEF StatDone
    <3>2. CASE g # f
      <4>1. told'[g] = told[g] /\ Calls(g)' = Calls(g)
        <5>1. Calls(g)' = Calls(g) \ {c} /\ told'[g] = told[g] /\ c \notin Calls(g)
          BY <2>2, <3>1, <3>2, CallEnds
        <5> QED BY <5>1
      <4>2. Untouched(g)
        BY <2>1, <4>1, EntriesUntouched DEF Untouched
      <4> QED BY <4>2, UntouchedKept
    <3>3. CASE g = f
      <4>1. Exists(f) => EntryCurrent(f)'
        BY <2>1, <2>2, <2>4 DEF EntryCurrent, Exists
      <4> QED BY <2>1, <2>2, <3>1, <3>3, <4>1, FollowedAfterCall
    <3> QED BY <3>2, <3>3
  <2> QED BY <2>3, <2>4
<1>5. ASSUME NEW c \in CacheCall, ReadDone(c), NEW g \in CachedFile PROVE Good(g)'
  <2>1. UNCHANGED <<disk, seen, present, crossed>> /\ Tells(c) /\ call[c].pc # "idle"
    BY <1>5 DEF ReadDone
  <2>2. PICK f : f = call[c].file
    OBVIOUS
  <2>3. \/ ~ Exists(f) /\ UNCHANGED cache
        \/ /\ Exists(f)
           /\ \A i \in 1 .. Len(cache') :
                \/ cache'[i].file = f /\ cache'[i].content = disk[f].version
                \/ cache'[i].file # f /\ \E j \in 1 .. Len(cache) : cache'[i] = cache[j]
    <3>1. CASE Exists(f)
      BY <1>5, <2>2, <3>1, CacheRead
    <3>2. CASE ~ Exists(f)
      BY <1>5, <2>2, <3>2 DEF ReadDone
    <3> QED BY <3>1, <3>2
  <2>4. CASE g # f
    <3>1. told'[g] = told[g] /\ Calls(g)' = Calls(g)
      <4>1. Calls(g)' = Calls(g) \ {c} /\ told'[g] = told[g] /\ c \notin Calls(g)
        BY <2>1, <2>2, <2>4, CallEnds
      <4> QED BY <4>1
    <3>2. \A i \in 1 .. Len(cache') : cache'[i].file = g =>
            \E j \in 1 .. Len(cache) : cache'[i] = cache[j]
      BY <2>3, <2>4
    <3>3. Untouched(g)
      BY <2>1, <3>1, <3>2 DEF Untouched
    <3> QED BY <3>3, UntouchedKept
  <2>5. CASE g = f
    <3>1. Exists(f) => EntryCurrent(f)'
      BY <2>1, <2>3 DEF EntryCurrent, Exists
    <3> QED BY <2>1, <2>2, <2>5, <3>1, FollowedAfterCall
  <2> QED BY <2>4, <2>5
<1>6. ASSUME UNCHANGED cacheVars, NEW g \in CachedFile PROVE Good(g)'
  <2>1. UNCHANGED <<disk, seen, present, call, cache, currentCacheSize, told, crossed,
                    evictedTwice>>
    BY <1>6 DEF cacheVars
  <2>2. Calls(g)' = Calls(g)
    BY <2>1 DEF Calls
  <2>3. Untouched(g)
    BY <2>1, <2>2, EntriesUntouched DEF Untouched
  <2> QED BY <2>3, UntouchedKept
<1>7. ASSUME NEW g \in CachedFile PROVE Good(g)'
  BY <1>1, <1>2, <1>3, <1>4, <1>5, <1>6, <1>7 DEF CacheNext
<1> QED BY <1>7 DEF FilesInv

LEMMA CountStaysSound ==
  ASSUME CacheTypes, CountedUnlessEvictedTwice, [CacheNext]_cacheVars
  PROVE  CountedUnlessEvictedTwice'
<1>1. ASSUME NEW f \in CachedFile, DiskChanges(f) PROVE CountedUnlessEvictedTwice'
  BY <1>1, CountKept DEF DiskChanges
<1>2. ASSUME NEW f \in CachedFile, NoticesRemoval(f) PROVE CountedUnlessEvictedTwice'
  <2>1. CASE present[f]
    BY <1>2, <2>1, FileLeavesCache DEF NoticesRemoval
  <2>2. CASE ~ present[f]
    BY <1>2, <2>2, CountKept DEF NoticesRemoval
  <2> QED BY <2>1, <2>2
<1>3. ASSUME NEW f \in CachedFile, NEW c \in CacheCall, Notices(f, c)
      PROVE  CountedUnlessEvictedTwice'
  BY <1>3, CountKept DEF Notices
<1>4. ASSUME NEW c \in CacheCall, StatDone(c) PROVE CountedUnlessEvictedTwice'
  BY <1>4, CountKept DEF StatDone
<1>5. ASSUME NEW c \in CacheCall, ReadDone(c) PROVE CountedUnlessEvictedTwice'
  <2>1. PICK f : f = call[c].file
    OBVIOUS
  <2>2. CASE Exists(f)
    BY <1>5, <2>1, <2>2, CacheRead
  <2>3. CASE ~ Exists(f)
    BY <1>5, <2>1, <2>3, CountKept DEF ReadDone
  <2> QED BY <2>2, <2>3
<1>6. CASE UNCHANGED cacheVars
  BY <1>6, CountKept DEF cacheVars
<1> QED BY <1>1, <1>2, <1>3, <1>4, <1>5, <1>6 DEF CacheNext

\* Whatever is written and removed and however the watcher's events and the reads cross:
\* of a settled file without a crossed event the cache has the present content or none,
\* clients were told whether it is there, and the count of the cache's size is right and
\* within the limit until an entry is evicted while it is replaced.
THEOREM CacheIsSound == CacheSpec => []CacheSound
<1>1. CacheInit => CacheTypes /\ CacheInv
  BY CacheTypesInitially, CacheInvInitially
<1>2. CacheTypes /\ CacheInv /\ [CacheNext]_cacheVars => (CacheTypes /\ CacheInv)'
  BY CacheTypesKept, FilesKept, CountStaysSound DEF CacheInv
<1> QED BY <1>1, <1>2, CacheInvImplies, PTL DEF CacheSpec

-----------------------------------------------------------------------------
(* MCHost: the parts beside each other. *)

\* A behaviour in which one part moves and the others rest is a behaviour of each.
THEOREM HostImplementsParts ==
  HostSpec => EnvSpec /\ AgentsSpec /\ CacheSpec /\ ExplorerSpec
<1>1. HostInit => EnvInit /\ AgentsInit /\ CacheInit /\ ExplorerInit
  BY DEF HostInit
<1>2. [HostNext]_<<part, hostVars>> =>
        /\ [EnvNext]_envVars /\ [AgentsNext]_agentVars
        /\ [CacheNext]_cacheVars /\ [ExplorerNext]_explorerVars
  <2>1. CASE UNCHANGED <<part, hostVars>>
    BY <2>1 DEF hostVars
  <2>2. CASE HostNext
    <3>1. CASE EnvNext /\ UNCHANGED <<agentVars, cacheVars, explorerVars>>
      BY <3>1
    <3>2. CASE AgentsNext /\ UNCHANGED <<envVars, cacheVars, explorerVars>>
      BY <3>2
    <3>3. CASE CacheNext /\ UNCHANGED <<envVars, agentVars, explorerVars>>
      BY <3>3
    <3>4. CASE ExplorerNext /\ UNCHANGED <<envVars, agentVars, cacheVars>>
      BY <3>4
    <3> QED BY <2>2, <3>1, <3>2, <3>3, <3>4
            DEF HostNext, AnyThree, CodexRuns, GeminiRuns, CachesOne, ExploresFiles, ExploresPages
  <2> QED BY <2>1, <2>2
<1> QED BY <1>1, <1>2, PTL DEF HostSpec, EnvSpec, AgentsSpec, CacheSpec, ExplorerSpec

\* The state of every part keeps its shapes.
THEOREM HostTyped == HostSpec => []HostTypeOK
<1>1. HostTypeOK <=> EnvTypeOK /\ AgentsTypeOK /\ CacheTypeOK /\ ExplorerTypeOK
  BY DEF HostTypeOK
<1> QED BY <1>1, HostImplementsParts, EnvironmentTyped, AgentsTyped, CacheTyped, ExplorerTyped, PTL
=============================================================================
