------------------------ MODULE NodeOnboardingProofs ------------------------
(***************************************************************************)
(* Theorems about the server side of host onboarding, for any laptops,     *)
(* requests, tokens, handlers, lifetimes and faults.  StoreSteps and       *)
(* SecretSteps say what a step may do to the store and to the Secrets; the *)
(* parts of the invariant go by that.                                      *)
(***************************************************************************)
EXTENDS NodeOnboarding, TLAPS

-----------------------------------------------------------------------------
(* The inductive invariant *)

(* A panel that is down remembers nothing and has nothing to do.            *)
DownIsEmpty ==
  ~up => /\ nodes = EmptyMap /\ watcher = Resting
         /\ \A p \in Procs : proc[p] = Idle

(* A handler works on a request that exists.                                *)
HandlersHaveRequest ==
  \A p \in Procs : proc[p].pc # "idle" => proc[p].id \in Ids /\ Known(nodes, proc[p].id)

(* The statuses an approval leads to: no handler of a request that was once *)
(* approved finds it undecided again.                                       *)
Decided == {"approved", "joined", "expired"}

Minting(h) == h.pc = "mint" \/ (h.pc = "expire" /\ h.status = "approved")

MintersAreDecided ==
  \A p \in Procs : Minting(proc[p]) => nodes[proc[p].id].status \in Decided

(* What a handler is about to record was minted for its request.            *)
MarkersHaveSecret ==
  \A p \in Procs : proc[p].pc = "mark" => /\ proc[p].token \in Tokens
                                          /\ secrets[proc[p].token].node = proc[p].id

(* Who was given a token, and who joined, has a Secret.                     *)
HasSecret(id) == \E t \in Tokens : secrets[t].node = id

MintedHaveSecret ==
  \A id \in Ids :
    nodes[id].mintedAt # 0 \/ disk[id].mintedAt # 0 \/ cluster[id] # "none"
      => HasSecret(id)

(* The watcher labels and marks what has joined, and marks what it labelled. *)
WatcherFollows ==
  /\ watcher.pc \in {"label", "mark"} => watcher.id \in Ids /\ cluster[watcher.id] # "none"
  /\ watcher.pc = "mark" => watcher.id \in labelled

(* A record has a laptop.                                                   *)
RecordsHaveLaptop ==
  \A id \in Ids : /\ Known(nodes, id) => nodes[id].laptop \in Laptops
                  /\ Known(disk, id) => disk[id].laptop \in Laptops

Inv ==
  /\ TypeOK /\ DownIsEmpty /\ HandlersHaveRequest /\ MintersAreDecided
  /\ MarkersHaveSecret /\ MintedHaveSecret /\ WatcherFollows /\ RecordsHaveLaptop
  /\ OneRequestPerLaptop /\ JoinedIsLabelled

(* What most lemmas need of it.                                             *)
Setting ==
  /\ TypeOK /\ DownIsEmpty /\ HandlersHaveRequest /\ MarkersHaveSecret
  /\ WatcherFollows

-----------------------------------------------------------------------------
(* What a step may do *)

StoreRests == UNCHANGED <<nodes, byFingerprint, disk, up>>

Registers ==
  /\ up /\ up'
  /\ \E l \in Laptops, id \in Unused, ok \in BOOLEAN :
       byFingerprint[l] = NoId /\ RegisterNew(l, id, ok)

Changes ==
  /\ up /\ up'
  /\ \E id \in Ids, ok \in BOOLEAN :
       /\ Known(nodes, id)
       /\ \/ ApproveRecord(id, ok) \/ DenyRecord(id, ok) \/ ExpireRecord(id, ok)
          \/ \E t \in Tokens : secrets[t].node = id /\ MarkMinted(id, t, ok)
          \/ cluster[id] # "none" /\ id \in labelled /\ MarkJoined(id, ok)

Forgets ==
  /\ up /\ ~up' /\ nodes' = EmptyMap /\ byFingerprint' = [l \in Laptops |-> NoId]
  /\ disk' = disk

Loads ==
  /\ ~up /\ up' /\ nodes' = disk /\ byFingerprint' = FingerprintsOf(disk)
  /\ disk' = disk

(* Every step does one of these to the store.                               *)
LEMMA StoreSteps ==
  ASSUME Setting, [Next]_vars
  PROVE  StoreRests \/ Registers \/ Changes \/ Forgets \/ Loads
<1> USE DEF Setting
<1>u. ASSUME NEW p \in Procs, proc[p].pc # "idle"
      PROVE  up /\ proc[p].id \in Ids /\ Known(nodes, proc[p].id)
  BY <1>u DEF DownIsEmpty, HandlersHaveRequest, Idle
<1>w. watcher.pc # "rest" => up
  BY DEF DownIsEmpty, Resting
<1>k. \A id \in Ids, ok \in BOOLEAN :
        /\ ApproveRecord(id, ok) \/ DenyRecord(id, ok) \/ ExpireRecord(id, ok)
             \/ MarkJoined(id, ok) => Known(nodes, id)
  BY DEF ApproveRecord, DenyRecord, ExpireRecord, MarkJoined, Elapsed, Known
<1>1. CASE UNCHANGED vars
  BY <1>1 DEF vars, StoreRests
<1>2. ASSUME NEW p \in Procs, NEW l \in Laptops, Register(p, l)
      PROVE  StoreRests \/ Registers
  <2>1. CASE byFingerprint[l] = NoId
    <3>1. up /\ up' = up
      BY <1>2 DEF Register, CanStart
    <3>2. PICK id \in Draw(Unused), ok \in BOOLEAN : RegisterNew(l, id, ok)
      BY <1>2, <2>1 DEF Register
    <3>3. id \in Unused
      BY <3>2 DEF Draw
    <3> QED
      BY <2>1, <3>1, <3>2, <3>3 DEF Registers
  <2>2. CASE byFingerprint[l] # NoId
    BY <1>2, <2>2 DEF Register, StoreRests, storeVars
  <2> QED
    BY <2>1, <2>2
<1>3. ASSUME NEW p \in Procs, NEW id \in Ids, Poll(p, id)
      PROVE  StoreRests
  BY <1>3 DEF Poll, StoreRests, storeVars
<1>4. ASSUME NEW p \in Procs, Continue(p)
      PROVE  StoreRests \/ Changes
  <2> DEFINE id == proc[p].id
  <2>1. CASE AutoApproval(p)
    <3>1. up /\ up' = up /\ id \in Ids
      BY <2>1, <1>u DEF AutoApproval
    <3>2. CASE \E ok \in BOOLEAN : ApproveRecord(id, ok)
      BY <3>1, <3>2, <1>k DEF Changes
    <3>3. CASE UNCHANGED storeVars
      BY <3>1, <3>3 DEF StoreRests, storeVars
    <3> QED
      BY <2>1, <3>2, <3>3 DEF AutoApproval
  <2>2. CASE Expire(p)
    <3>1. up /\ up' = up /\ id \in Ids
      BY <2>2, <1>u DEF Expire
    <3>2. CASE \E ok \in BOOLEAN : ExpireRecord(id, ok)
      BY <3>1, <3>2, <1>k DEF Changes
    <3>3. CASE UNCHANGED storeVars
      BY <3>1, <3>3 DEF StoreRests, storeVars
    <3> QED
      BY <2>2, <3>2, <3>3 DEF Expire
  <2>3. CASE Mint(p)
    BY <2>3 DEF Mint, StoreRests, storeVars
  <2>4. CASE Mark(p)
    <3>1. up /\ up' = up /\ id \in Ids /\ Known(nodes, id)
      BY <2>4, <1>u DEF Mark
    <3>2. proc[p].token \in Tokens /\ secrets[proc[p].token].node = id
      BY <2>4 DEF Mark, MarkersHaveSecret
    <3>3. PICK ok \in BOOLEAN : MarkMinted(id, proc[p].token, ok)
      BY <2>4 DEF Mark
    <3> QED
      BY <3>1, <3>2, <3>3 DEF Changes
  <2> QED
    BY <1>4, <2>1, <2>2, <2>3, <2>4 DEF Continue
<1>5. ASSUME NEW id \in Ids, Approve(id) \/ Deny(id)
      PROVE  Changes
  <2>1. up /\ up' = up
    BY <1>5 DEF Approve, Deny
  <2>2. PICK ok \in BOOLEAN : ApproveRecord(id, ok) \/ DenyRecord(id, ok)
    BY <1>5 DEF Approve, Deny
  <2> QED
    BY <2>1, <2>2, <1>k DEF Changes
<1>6. CASE Watch
  <2>1. CASE WatcherTick \/ WatcherLooks \/ WatcherMisses \/ WatcherLabels
    BY <2>1 DEF WatcherTick, WatcherLooks, WatcherMisses, WatcherLabels, StoreRests, storeVars
  <2>2. CASE WatcherMarks
    <3> DEFINE id == watcher.id
    <3>1. up /\ up' = up
      BY <2>2, <1>w DEF WatcherMarks
    <3>2. id \in Ids /\ cluster[id] # "none" /\ id \in labelled
      BY <2>2 DEF WatcherMarks, WatcherFollows
    <3>3. CASE MarkJoined(id, TRUE) \/ MarkJoined(id, FALSE)
      BY <3>1, <3>2, <3>3, <1>k DEF Changes
    <3>4. CASE UNCHANGED storeVars
      BY <3>1, <3>4 DEF StoreRests, storeVars
    <3> QED
      BY <2>2, <3>3, <3>4 DEF WatcherMarks
  <2> QED
    BY <1>6, <2>1, <2>2 DEF Watch
<1>7. CASE Crash
  BY <1>7 DEF Crash, Forgets
<1>8. CASE Boot
  BY <1>8 DEF Boot, Loads
<1>9. CASE Tick \/ \E id \in Ids : AgentJoins(id) \/ NodeReady(id) \/ NodeUnready(id)
  BY <1>9 DEF Tick, AgentJoins, NodeReady, NodeUnready, StoreRests, storeVars
<1> QED
  BY <1>1, <1>2, <1>3, <1>4, <1>5, <1>6, <1>7, <1>8, <1>9 DEF Next

SecretMinted(p, t) ==
  /\ proc[p].pc = "mint" /\ now = proc[p].began /\ t \in Unminted
  /\ secrets' = [secrets EXCEPT ![t] = Secret(proc[p].id)]

SecretGiven(t) ==
  /\ secrets[t].node # NoId
  /\ secrets' = [secrets EXCEPT ![t].given = TRUE]

(* Every step does one of these to the Secrets.                             *)
LEMMA SecretSteps ==
  ASSUME Setting, [Next]_vars
  PROVE  \/ secrets' = secrets
         \/ \E p \in Procs, t \in Tokens : SecretMinted(p, t) /\ StoreRests
         \/ \E t \in Tokens : SecretGiven(t)
<1> USE DEF Setting
<1>1. CASE UNCHANGED vars
  BY <1>1 DEF vars
<1>2. ASSUME NEW p \in Procs, NEW l \in Laptops, Register(p, l)
      PROVE  secrets' = secrets
  BY <1>2 DEF Register, k8sVars
<1>3. ASSUME NEW p \in Procs, NEW id \in Ids, Poll(p, id)
      PROVE  secrets' = secrets
  BY <1>3 DEF Poll, k8sVars
<1>4. ASSUME NEW p \in Procs, AutoApproval(p) \/ Expire(p)
      PROVE  secrets' = secrets
  BY <1>4 DEF AutoApproval, Expire, k8sVars
<1>5. ASSUME NEW p \in Procs, Mint(p)
      PROVE  secrets' = secrets \/ \E t \in Tokens : SecretMinted(p, t) /\ StoreRests
  BY <1>5 DEF Mint, SecretMinted, Draw, Unminted, StoreRests, storeVars
<1>6. ASSUME NEW p \in Procs, Mark(p)
      PROVE  secrets' = secrets \/ \E t \in Tokens : SecretGiven(t)
  BY <1>6, NamesAssumption DEF Mark, SecretGiven, MarkersHaveSecret, HandlersHaveRequest
<1>7. ASSUME NEW id \in Ids, Approve(id) \/ Deny(id)
      PROVE  secrets' = secrets
  BY <1>7 DEF Approve, Deny, k8sVars
<1>8. CASE Watch
  BY <1>8 DEF Watch, WatcherTick, WatcherLooks, WatcherMisses, WatcherLabels,
              WatcherMarks, k8sVars
<1>9. CASE Crash \/ Boot \/ Tick
  BY <1>9 DEF Crash, Boot, Tick, k8sVars
<1>10. CASE \E id \in Ids : AgentJoins(id) \/ NodeReady(id) \/ NodeUnready(id)
  BY <1>10 DEF AgentJoins, NodeReady, NodeUnready
<1> QED
  BY <1>1, <1>2, <1>3, <1>4, <1>5, <1>6, <1>7, <1>8, <1>9, <1>10 DEF Next, Continue

(* A Secret that was created is never changed but for being given.          *)
LEMMA SecretsStay ==
  ASSUME Setting, [Next]_vars
  PROVE  /\ secrets' \in [Tokens -> Secrets]
         /\ \A t \in Tokens : secrets[t].node # NoId =>
              /\ secrets'[t].node = secrets[t].node
              /\ secrets'[t].expires = secrets[t].expires
<1> USE DEF Setting
<1>0. secrets \in [Tokens -> Secrets] /\ now \in 1..MaxTime
  BY DEF TypeOK
<1>1. CASE secrets' = secrets
  BY <1>0, <1>1
<1>2. ASSUME NEW p \in Procs, NEW t \in Tokens, SecretMinted(p, t)
      PROVE  /\ secrets' \in [Tokens -> Secrets]
             /\ \A s \in Tokens : secrets[s].node # NoId => secrets'[s] = secrets[s]
  <2>1. secrets[t].node = NoId
    BY <1>2 DEF SecretMinted, Unminted, NoSecret
  <2>2. proc[p].id \in Ids
    BY <1>2 DEF SecretMinted, HandlersHaveRequest
  <2>3. Secret(proc[p].id) \in Secrets
    BY <2>2, <1>0, TimeAssumption DEF Secret, Secrets
  <2> QED
    BY <1>0, <1>2, <2>1, <2>3 DEF SecretMinted
<1>3. ASSUME NEW t \in Tokens, SecretGiven(t)
      PROVE  /\ secrets' \in [Tokens -> Secrets]
             /\ \A s \in Tokens : /\ secrets'[s].node = secrets[s].node
                                  /\ secrets'[s].expires = secrets[s].expires
  <2> DEFINE given == [secrets[t] EXCEPT !.given = TRUE]
  <2>1. secrets[t] \in Secrets
    BY <1>0
  <2>2. given \in Secrets
    BY <2>1, Zenon DEF Secrets
  <2>3. given.node = secrets[t].node /\ given.expires = secrets[t].expires
    BY <2>1, SMT DEF Secrets
  <2>4. secrets' = [secrets EXCEPT ![t] = given]
    BY <1>3 DEF SecretGiven
  <2> HIDE DEF given
  <2> QED
    BY <1>0, <2>2, <2>3, <2>4
<1> QED
  BY <1>1, <1>2, <1>3, SecretSteps

(* What a step may do to a handler.                                         *)
StartsOn(p, pc, id, copy) ==
  /\ proc[p].pc = "idle" /\ id \in Ids
  /\ proc'[p] = [pc |-> pc, id |-> id, status |-> copy.status,
                 token |-> copy.token, began |-> now]

ToMint(p) ==
  /\ proc[p].pc = "expire" /\ proc[p].status = "approved" /\ proc[p].token = NoToken
  /\ proc'[p] = [proc[p] EXCEPT !.pc = "mint"]

ToMark(p, t) ==
  /\ SecretMinted(p, t)
  /\ proc'[p] = [proc[p] EXCEPT !.pc = "mark", !.token = t]

HandlerStep(p) ==
  \/ proc'[p] = proc[p]
  \/ proc'[p] = Idle
  \/ \E id \in Ids : /\ StartsOn(p, "autoApprove", id, nodes'[id])
                     /\ Known(nodes', id) /\ nodes'[id].status = "pending"
  \/ \E id \in Ids : /\ StartsOn(p, "expire", id, nodes[id])
                     /\ Known(nodes, id) /\ nodes' = nodes
  \/ ToMint(p)
  \/ \E t \in Tokens : ToMark(p, t)

(* Every step does one of these to each handler.                            *)
LEMMA HandlerSteps ==
  ASSUME Setting, [Next]_vars, NEW q \in Procs
  PROVE  HandlerStep(q)
<1> USE DEF Setting
<1>0. proc \in [Procs -> Handlers] /\ nodes \in [Ids -> Records]
  BY DEF TypeOK
<1>f. \A p \in Procs : Finish(p) => proc'[q] = proc[q] \/ proc'[q] = Idle
  BY <1>0 DEF Finish
<1>1. CASE UNCHANGED proc
  BY <1>1 DEF HandlerStep
<1>2. ASSUME NEW p \in Procs, NEW l \in Laptops, Register(p, l), proc' # proc
      PROVE  HandlerStep(q)
  <2>1. PICK id \in Draw(Unused), ok \in BOOLEAN :
          /\ RegisterNew(l, id, ok) /\ ok
          /\ Start(p, "autoApprove", id, nodes'[id])
    BY <1>2 DEF Register
  <2>2. id \in Ids
    BY <2>1 DEF Draw, Unused
  <2>3. nodes'[id].status = "pending"
    BY <1>0, <2>1, <2>2 DEF RegisterNew
  <2>4. p = q => StartsOn(q, "autoApprove", id, nodes'[id])
    BY <1>0, <1>2, <2>1, <2>2 DEF StartsOn, Start, Register, CanStart
  <2>5. p # q => proc'[q] = proc[q]
    BY <1>0, <2>1 DEF Start
  <2> QED
    BY <2>2, <2>3, <2>4, <2>5 DEF HandlerStep, Known
<1>3. ASSUME NEW p \in Procs, NEW id \in Ids, Poll(p, id), proc' # proc
      PROVE  HandlerStep(q)
  <2>1. Known(nodes, id) /\ Start(p, "expire", id, nodes[id]) /\ nodes' = nodes
    BY <1>3 DEF Poll, storeVars
  <2>2. p = q => StartsOn(q, "expire", id, nodes[id])
    BY <1>0, <1>3, <2>1 DEF StartsOn, Start, Poll, CanStart
  <2>3. p # q => proc'[q] = proc[q]
    BY <1>0, <2>1 DEF Start
  <2> QED
    BY <2>1, <2>2, <2>3 DEF HandlerStep
<1>4. ASSUME NEW p \in Procs, Continue(p)
      PROVE  HandlerStep(q)
  <2>1. CASE Finish(p)
    BY <2>1, <1>f DEF HandlerStep
  <2>2. CASE Expire(p) /\ ~Finish(p)
    <3>1. proc[p].pc = "expire" /\ proc[p].token = NoToken
          /\ proc[p].status = "approved" /\ proc' = [proc EXCEPT ![p].pc = "mint"]
      BY <2>2 DEF Expire, AnswerPoll
    <3> QED
      BY <1>0, <3>1 DEF HandlerStep, ToMint
  <2>3. CASE Mint(p) /\ ~Finish(p)
    <3>1. PICK t \in Draw(Unminted) :
            /\ proc[p].pc = "mint" /\ now = proc[p].began
            /\ secrets' = [secrets EXCEPT ![t] = Secret(proc[p].id)]
            /\ proc' = [proc EXCEPT ![p].pc = "mark", ![p].token = t]
      BY <2>3 DEF Mint
    <3>2. t \in Unminted /\ t \in Tokens
      BY <3>1 DEF Draw, Unminted
    <3>3. SecretMinted(p, t)
      BY <3>1, <3>2 DEF SecretMinted
    <3>4. p = q => proc'[q] = [proc[q] EXCEPT !.pc = "mark", !.token = t]
      BY <1>0, <3>1
    <3>5. p # q => proc'[q] = proc[q]
      BY <1>0, <3>1
    <3> QED
      BY <3>2, <3>3, <3>4, <3>5 DEF HandlerStep, ToMark
  <2> QED
    BY <1>4, <2>1, <2>2, <2>3 DEF Continue, AutoApproval, Mark
<1>5. CASE Crash
  BY <1>5 DEF Crash, HandlerStep
<1>6. CASE \E id \in Ids : Approve(id) \/ Deny(id)
  BY <1>1, <1>6 DEF Approve, Deny
<1>7. CASE Watch
  BY <1>1, <1>7 DEF Watch, WatcherTick, WatcherLooks, WatcherMisses, WatcherLabels,
                    WatcherMarks
<1>8. CASE Boot \/ Tick \/ \E id \in Ids : AgentJoins(id) \/ NodeReady(id) \/ NodeUnready(id)
  BY <1>1, <1>8 DEF Boot, Tick, AgentJoins, NodeReady, NodeUnready
<1> QED
  BY <1>1, <1>2, <1>3, <1>4, <1>5, <1>6, <1>7, <1>8 DEF Next, vars

(* What a step may do to the cluster's nodes and their labels.              *)
LEMMA ClusterSteps ==
  ASSUME Setting, [Next]_vars
  PROVE  /\ cluster' \in [Ids -> {"none", "unready", "ready"}]
         /\ \A id \in Ids : /\ cluster[id] # "none" => cluster'[id] # "none"
                            /\ cluster'[id] # "none" => cluster[id] # "none" \/ HasSecret(id)
         /\ labelled \subseteq labelled' /\ labelled' \subseteq Ids
<1> USE DEF Setting
<1>0. cluster \in [Ids -> {"none", "unready", "ready"}] /\ labelled \subseteq Ids
  BY DEF TypeOK
<1>1. CASE UNCHANGED <<cluster, labelled>>
  BY <1>0, <1>1
<1>2. ASSUME NEW id \in Ids, AgentJoins(id) \/ NodeReady(id) \/ NodeUnready(id)
      PROVE  /\ cluster[id] # "none" \/ HasSecret(id)
             /\ \E c \in {"unready", "ready"} : cluster' = [cluster EXCEPT ![id] = c]
             /\ labelled' = labelled
  BY <1>2 DEF AgentJoins, NodeReady, NodeUnready, HasSecret
<1>3. CASE \E id \in Ids : AgentJoins(id) \/ NodeReady(id) \/ NodeUnready(id)
  BY <1>0, <1>2, <1>3
<1>4. CASE WatcherLabels
  BY <1>0, <1>4 DEF WatcherLabels, WatcherFollows
<1>5. CASE WatcherTick \/ WatcherLooks \/ WatcherMisses \/ WatcherMarks \/ Crash \/ Boot \/ Tick
  BY <1>1, <1>5 DEF WatcherTick, WatcherLooks, WatcherMisses, WatcherMarks,
                    Crash, Boot, Tick, k8sVars
<1>6. CASE \E p \in Procs, l \in Laptops : Register(p, l)
  BY <1>1, <1>6 DEF Register, k8sVars
<1>7. CASE \E p \in Procs : (\E id \in Ids : Poll(p, id)) \/ Continue(p)
  BY <1>1, <1>7 DEF Poll, Continue, AutoApproval, Expire, Mint, Mark, k8sVars
<1>8. CASE \E id \in Ids : Approve(id) \/ Deny(id)
  BY <1>1, <1>8 DEF Approve, Deny, k8sVars
<1>9. CASE UNCHANGED vars
  BY <1>1, <1>9 DEF vars
<1> QED
  BY <1>3, <1>4, <1>5, <1>6, <1>7, <1>8, <1>9 DEF Next, Watch

(* Faults, clock and environment stay within their types.                   *)
LEMMA FaultsAreCounted ==
  ASSUME TypeOK, [Next]_vars
  PROVE  faults' \in 0..MaxFaults
<1>1. \A kind : NoFault \/ Fault(kind) => faults' \in 0..MaxFaults
  BY FaultsAssumption DEF TypeOK, NoFault, Fault
<1>2. \A ok : Save(ok) => NoFault \/ Fault("save")
  BY DEF Save
<1>3. UNCHANGED vars => NoFault
  BY DEF vars, NoFault
<1>4. \A p \in Procs, l \in Laptops : Register(p, l) => NoFault \/ Fault("save")
  BY <1>2 DEF Register, RegisterNew
<1>5. \A p \in Procs, id \in Ids : Poll(p, id) => NoFault
  BY DEF Poll
<1>6. \A p \in Procs : Continue(p) => NoFault \/ Fault("save") \/ Fault("api")
  BY <1>2 DEF Continue, AutoApproval, Expire, Mint, Mark, ApproveRecord, ExpireRecord, MarkMinted
<1>7. \A id \in Ids : Approve(id) \/ Deny(id) => NoFault \/ Fault("save")
  BY <1>2 DEF Approve, Deny, ApproveRecord, DenyRecord
<1>8. Watch => NoFault \/ Fault("save") \/ Fault("api")
  BY <1>2 DEF Watch, WatcherTick, WatcherLooks, WatcherMisses, WatcherLabels, WatcherMarks,
              MarkJoined
<1>9. Crash \/ Boot \/ Tick => NoFault \/ Fault("crash")
  BY DEF Crash, Boot, Tick
<1>10. \A id \in Ids : AgentJoins(id) \/ NodeReady(id) \/ NodeUnready(id)
                         => NoFault \/ Fault("node")
  BY DEF AgentJoins, NodeReady, NodeUnready
<1> QED
  BY <1>1, <1>3, <1>4, <1>5, <1>6, <1>7, <1>8, <1>9, <1>10 DEF Next

(* The clock stands or goes on by one.                                      *)
LEMMA ClockRuns ==
  ASSUME TypeOK, [Next]_vars
  PROVE  /\ now' \in 1..MaxTime /\ now' \in {now, now + 1}
         /\ env' \in Environments /\ up' \in BOOLEAN
<1>1. now' \in 1..MaxTime /\ now' \in {now, now + 1}
  <2>1. CASE now' = now
    BY <2>1 DEF TypeOK
  <2>2. CASE Tick
    BY <2>2, TimeAssumption DEF Tick, TypeOK
  <2> QED
    BY <2>1, <2>2
    DEF Next, vars, Register, Poll, Continue, AutoApproval, Expire, Mint, Mark, Approve,
        Deny, Watch, WatcherTick, WatcherLooks, WatcherMisses, WatcherLabels, WatcherMarks,
        Crash, Boot, AgentJoins, NodeReady, NodeUnready
<1>2. env' = env
  BY DEF Next, vars, Register, Poll, Continue, AutoApproval, Expire, Mint, Mark, Approve,
         Deny, Watch, WatcherTick, WatcherLooks, WatcherMisses, WatcherLabels, WatcherMarks,
         Crash, Boot, Tick, AgentJoins, NodeReady, NodeUnready
<1>3. up' = up \/ up' = TRUE \/ up' = FALSE
  BY DEF Next, vars, Register, Poll, Continue, AutoApproval, Expire, Mint, Mark, Approve,
         Deny, Watch, WatcherTick, WatcherLooks, WatcherMisses, WatcherLabels, WatcherMarks,
         Crash, Boot, Tick, AgentJoins, NodeReady, NodeUnready
<1>4. up' \in BOOLEAN
  <2>1. up \in BOOLEAN
    BY DEF TypeOK
  <2> QED
    BY <2>1, <1>3
<1> QED
  BY <1>1, <1>2, <1>4 DEF TypeOK

(* A change of a record: it keeps its laptop, a decision is never undone,   *)
(* only a labelled node makes it joined, only a Secret makes it minted.     *)
Changed(id, r) ==
  /\ Known(nodes, id) /\ nodes' = [nodes EXCEPT ![id] = r]
  /\ r.status # "absent" /\ r.laptop = nodes[id].laptop
  /\ nodes[id].status \in Decided => r.status \in Decided
  /\ r.status = "joined" => nodes[id].status = "joined" \/ id \in labelled
  /\ r.mintedAt # 0 => nodes[id].mintedAt # 0 \/ HasSecret(id)

(* Approve, Deny, MarkMinted, MarkJoined and ExpireIfElapsed change one record *)
(* and save it, or fail to.                                                 *)
LEMMA ChangesOne ==
  ASSUME TypeOK, Changes
  PROVE  /\ \E id \in Ids, r \in Records : Changed(id, r)
         /\ byFingerprint' = byFingerprint
         /\ disk' = nodes' \/ disk' = disk
<1>0. /\ nodes \in [Ids -> Records] /\ now \in 0..MaxTime
      /\ \A r \in Records : r.mintedAt \in 0..MaxTime
  BY DEF TypeOK, Records
<1>1. PICK id \in Ids, ok \in BOOLEAN :
        /\ Known(nodes, id)
        /\ \/ ApproveRecord(id, ok) \/ DenyRecord(id, ok) \/ ExpireRecord(id, ok)
           \/ \E t \in Tokens : secrets[t].node = id /\ MarkMinted(id, t, ok)
           \/ cluster[id] # "none" /\ id \in labelled /\ MarkJoined(id, ok)
  BY DEF Changes
<1> SUFFICES \E i \in Ids, r \in Records : Changed(i, r)
  BY <1>1 DEF ApproveRecord, DenyRecord, ExpireRecord, MarkMinted, MarkJoined, Save
<1> DEFINE n == nodes[id]
<1>n. n \in Records
  BY <1>0
<1>r. ASSUME NEW r \in Records, r.laptop = n.laptop, nodes' = [nodes EXCEPT ![id] = r],
             r.status # "absent", n.status \in Decided => r.status \in Decided,
             r.status = "joined" => n.status = "joined" \/ id \in labelled,
             r.mintedAt # 0 => n.mintedAt # 0 \/ HasSecret(id)
      PROVE  \E i \in Ids, s \in Records : Changed(i, s)
  BY <1>r, <1>1 DEF Changed
<1>2. CASE ApproveRecord(id, ok)
  <2> DEFINE r == [n EXCEPT !.status = "approved", !.token = NoToken, !.mintedAt = 0]
  <2>1. nodes' = [nodes EXCEPT ![id] = r]
    BY <1>2, Zenon DEF ApproveRecord
  <2>2. "approved" \in Statuses /\ 0 \in 0..MaxTime
    BY TimeAssumption DEF Statuses
  <2>3. r \in Records
    BY <1>n, <2>2, Zenon DEF Records
  <2>4. r.laptop = n.laptop /\ r.status = "approved" /\ r.mintedAt = 0
    BY <1>n, SMT DEF Records
  <2>5. r.status \in Decided /\ r.status # "joined" /\ r.status # "absent"
    BY <2>4 DEF Decided
  <2> HIDE DEF r, n
  <2> QED
    BY <2>1, <2>3, <2>4, <2>5, <1>r
<1>3. ASSUME NEW s \in Statuses, nodes' = [nodes EXCEPT ![id].status = s],
             n.status \in Decided => s \in Decided,
             s = "joined" => id \in labelled
      PROVE  \E i \in Ids, q \in Records : Changed(i, q)
  <2> DEFINE r == [n EXCEPT !.status = s]
  <2>1. nodes' = [nodes EXCEPT ![id] = r]
    BY <1>0, <1>3
  <2>2. r \in Records /\ r.laptop = n.laptop /\ r.status = s /\ r.mintedAt = n.mintedAt
    BY <1>n DEF Records
  <2>3. s # "absent"
    BY DEF Statuses
  <2> HIDE DEF r, n
  <2> QED
    BY <2>1, <2>2, <2>3, <1>r, <1>3
<1>4. CASE DenyRecord(id, ok)
  <2>1. nodes' = [nodes EXCEPT ![id].status = "denied"] /\ n.status \notin Decided
    BY <1>4 DEF DenyRecord, Decided
  <2>2. "denied" \in Statuses
    BY DEF Statuses
  <2> QED
    BY <2>1, <2>2, <1>3
<1>5. CASE ExpireRecord(id, ok)
  <2>1. nodes' = [nodes EXCEPT ![id].status = "expired"]
    BY <1>5 DEF ExpireRecord
  <2>2. "expired" \in Statuses /\ "expired" \in Decided
    BY DEF Statuses, Decided
  <2> QED
    BY <2>1, <2>2, <1>3
<1>6. CASE id \in labelled /\ MarkJoined(id, ok)
  <2>1. nodes' = [nodes EXCEPT ![id].status = "joined"]
    BY <1>6 DEF MarkJoined
  <2>2. "joined" \in Statuses /\ "joined" \in Decided
    BY DEF Statuses, Decided
  <2> QED
    BY <2>1, <2>2, <1>3, <1>6
<1>7. ASSUME NEW t \in Tokens, secrets[t].node = id, MarkMinted(id, t, ok)
      PROVE  \E i \in Ids, q \in Records : Changed(i, q)
  <2> DEFINE r == [n EXCEPT !.token = t, !.mintedAt = now]
  <2>1. nodes' = [nodes EXCEPT ![id] = r]
    BY <1>0, <1>7 DEF MarkMinted
  <2>2. r \in Records /\ r.laptop = n.laptop /\ r.status = n.status
    BY <1>n, <1>0 DEF Records
  <2>3. n.status # "absent" /\ HasSecret(id)
    BY <1>1, <1>7 DEF Known, HasSecret
  <2> HIDE DEF r, n
  <2> QED
    BY <2>1, <2>2, <2>3, <1>r
<1> QED
  BY <1>1, <1>2, <1>4, <1>5, <1>6, <1>7

(* A registration adds a pending record.                                    *)
LEMMA RegistersOne ==
  ASSUME TypeOK, Registers
  PROVE  \/ UNCHANGED <<nodes, byFingerprint, disk>>
         \/ /\ disk' = nodes'
            /\ \E l \in Laptops, id \in Unused, r \in Records :
                 /\ byFingerprint[l] = NoId
                 /\ r.laptop = l /\ r.status = "pending" /\ r.mintedAt = 0
                 /\ r.token = NoToken
                 /\ nodes' = [nodes EXCEPT ![id] = r]
                 /\ byFingerprint' = [byFingerprint EXCEPT ![l] = id]
<1>1. PICK l \in Laptops, id \in Unused, ok \in BOOLEAN :
        byFingerprint[l] = NoId /\ RegisterNew(l, id, ok)
  BY DEF Registers
<1>2. CASE ok
  <2> DEFINE r == [laptop |-> l, status |-> "pending", token |-> NoToken, mintedAt |-> 0]
  <2>1. r \in Records
    BY TimeAssumption DEF Records, Statuses
  <2>2. /\ nodes' = [nodes EXCEPT ![id] = r] /\ disk' = nodes'
        /\ byFingerprint' = [byFingerprint EXCEPT ![l] = id]
    BY <1>1, <1>2 DEF RegisterNew, Save
  <2>3. r.laptop = l /\ r.status = "pending" /\ r.mintedAt = 0 /\ r.token = NoToken
    OBVIOUS
  <2> HIDE DEF r
  <2> QED
    BY <1>1, <2>1, <2>2, <2>3
<1>3. CASE ~ok
  BY <1>1, <1>3 DEF RegisterNew, Save
<1> QED
  BY <1>2, <1>3

LEMMA NothingIsTyped == EmptyMap \in [Ids -> Records]
  BY TimeAssumption DEF EmptyMap, NoRecord, Records

(* The parts of TypeOK, each kept by every step.                            *)
LEMMA StoreStaysTyped ==
  ASSUME Setting, [Next]_vars
  PROVE  /\ nodes' \in [Ids -> Records] /\ disk' \in [Ids -> Records]
         /\ byFingerprint' \in [Laptops -> Ids \cup {NoId}]
<1> USE DEF Setting
<1>0. /\ nodes \in [Ids -> Records] /\ disk \in [Ids -> Records]
      /\ byFingerprint \in [Laptops -> Ids \cup {NoId}]
  BY DEF TypeOK
<1>1. CASE StoreRests
  BY <1>0, <1>1 DEF StoreRests
<1>2. CASE Registers
  BY <1>0, <1>2, RegistersOne DEF Unused
<1>3. CASE Changes
  BY <1>0, <1>3, ChangesOne DEF Changed
<1>4. CASE Forgets
  BY <1>0, <1>4, NothingIsTyped DEF Forgets
<1>5. CASE Loads
  BY <1>0, <1>5 DEF Loads, FingerprintsOf
<1> QED
  BY <1>1, <1>2, <1>3, <1>4, <1>5, StoreSteps

LEMMA HandlersStayTyped ==
  ASSUME Setting, [Next]_vars
  PROVE  proc' \in [Procs -> Handlers]
<1> USE DEF Setting
<1>0. /\ proc \in [Procs -> Handlers] /\ nodes \in [Ids -> Records] /\ now \in 0..MaxTime
      /\ nodes' \in [Ids -> Records]
  BY StoreStaysTyped DEF TypeOK
<1>1. ASSUME NEW p \in Procs
      PROVE  proc'[p] \in Handlers
  <2>0. proc[p] \in Handlers /\ Idle \in Handlers
    BY <1>0, TimeAssumption DEF Idle, Handlers
  <2>1. ASSUME NEW id \in Ids, NEW pc \in {"autoApprove", "expire"}, NEW copy \in Records,
               copy.status # "absent", StartsOn(p, pc, id, copy)
        PROVE  proc'[p] \in Handlers
    BY <1>0, <2>1 DEF StartsOn, Handlers, Records
  <2>2. ASSUME NEW id \in Ids, StartsOn(p, "autoApprove", id, nodes'[id]), Known(nodes', id)
        PROVE  proc'[p] \in Handlers
    BY <1>0, <2>1, <2>2 DEF Known
  <2>3. ASSUME NEW id \in Ids, StartsOn(p, "expire", id, nodes[id]), Known(nodes, id)
        PROVE  proc'[p] \in Handlers
    BY <1>0, <2>1, <2>3 DEF Known
  <2>4. CASE ToMint(p)
    BY <2>0, <2>4 DEF ToMint, Handlers
  <2>5. ASSUME NEW t \in Tokens, ToMark(p, t)
        PROVE  proc'[p] \in Handlers
    BY <2>0, <2>5 DEF ToMark, Handlers
  <2> QED
    BY <2>0, <2>2, <2>3, <2>4, <2>5, HandlerSteps DEF HandlerStep
<1>2. proc' = [p \in Procs |-> proc'[p]]
  <2>s. \A p \in Procs : \A pc, id, copy : Start(p, pc, id, copy) => proc' = [q \in Procs |-> proc'[q]]
    BY <1>0 DEF Start
  <2>f. \A p \in Procs : Finish(p) => proc' = [q \in Procs |-> proc'[q]]
    BY <1>0 DEF Finish
  <2>u. UNCHANGED proc => proc' = [q \in Procs |-> proc'[q]]
    BY <1>0
  <2>1. \A p \in Procs, l \in Laptops : Register(p, l) => proc' = [q \in Procs |-> proc'[q]]
    BY <2>s, <2>u DEF Register
  <2>2. \A p \in Procs, id \in Ids : Poll(p, id) => proc' = [q \in Procs |-> proc'[q]]
    BY <2>s, <2>u DEF Poll
  <2>3. ASSUME NEW p \in Procs, Continue(p)
        PROVE  proc' = [q \in Procs |-> proc'[q]]
    <3>1. CASE Finish(p)
      BY <3>1, <2>f
    <3>2. CASE Expire(p) /\ ~Finish(p)
      BY <3>2, <1>0 DEF Expire, AnswerPoll
    <3>3. CASE Mint(p) /\ ~Finish(p)
      BY <3>3, <1>0 DEF Mint
    <3> QED
      BY <2>3, <3>1, <3>2, <3>3 DEF Continue, AutoApproval, Mark
  <2>4. Crash => proc' = [q \in Procs |-> proc'[q]]
    BY DEF Crash
  <2> QED
    BY <2>1, <2>2, <2>3, <2>4, <2>u
    DEF Next, vars, Approve, Deny, Watch, WatcherTick, WatcherLooks,
        WatcherMisses, WatcherLabels, WatcherMarks, Boot, Tick, AgentJoins,
        NodeReady, NodeUnready
<1> QED
  BY <1>1, <1>2

LEMMA WatcherStaysTyped ==
  ASSUME Setting, [Next]_vars
  PROVE  watcher' \in Watchers
<1> USE DEF Setting
<1>0. watcher \in Watchers /\ Resting \in Watchers
  BY DEF TypeOK, Resting, Watchers
<1>1. CASE WatcherTick
  BY <1>1 DEF WatcherTick, Watchers
<1>2. CASE WatcherLooks
  BY <1>0, <1>2 DEF WatcherLooks, Watchers
<1>3. CASE WatcherMisses
  BY <1>0, <1>3 DEF WatcherMisses, Watchers
<1>4. CASE WatcherLabels
  <2>1. watcher' = [watcher EXCEPT !.pc = "mark"] \/ watcher' = Resting
    BY <1>4 DEF WatcherLabels
  <2>2. [watcher EXCEPT !.pc = "mark"] \in Watchers
    BY <1>0 DEF Watchers
  <2> QED
    BY <2>1, <2>2, <1>0
<1>5. CASE WatcherMarks
  <2>1. \/ watcher' = Resting
        \/ watcher' = [pc |-> "look", id |-> NoId, list |-> watcher.list]
    BY <1>5 DEF WatcherMarks
  <2> QED
    BY <1>0, <2>1 DEF Watchers
<1>6. CASE watcher' = watcher \/ watcher' = Resting
  BY <1>0, <1>6
<1> QED
  BY <1>1, <1>2, <1>3, <1>4, <1>5, <1>6
  DEF Next, vars, Register, Poll, Continue, AutoApproval, Expire, Mint, Mark, Approve,
      Deny, Watch, Crash, Boot, Tick, AgentJoins, NodeReady, NodeUnready

LEMMA TypeStep ==
  ASSUME Setting, [Next]_vars
  PROVE  TypeOK'
BY StoreStaysTyped, SecretsStay, ClusterSteps, HandlersStayTyped, WatcherStaysTyped,
   ClockRuns, FaultsAreCounted DEF TypeOK, Setting

-----------------------------------------------------------------------------
(* The parts of the invariant *)

(* The parts of the invariant, each kept by every step.                     *)
LEMMA DownStaysEmpty ==
  ASSUME Setting, [Next]_vars
  PROVE  DownIsEmpty'
<1> USE DEF Setting
<1> SUFFICES ASSUME ~up'
             PROVE  /\ nodes' = EmptyMap /\ watcher' = Resting
                    /\ \A p \in Procs : proc'[p] = Idle
  BY DEF DownIsEmpty
<1>1. CASE up
  <2>1. Crash
    BY <1>1 DEF Next, vars, Register, Poll, Continue, AutoApproval, Expire, Mint, Mark,
                Approve, Deny, Watch, WatcherTick, WatcherLooks, WatcherMisses,
                WatcherLabels, WatcherMarks, Boot, Tick, AgentJoins, NodeReady, NodeUnready
  <2> QED
    BY <2>1 DEF Crash
<1>2. CASE ~up
  <2>0. /\ nodes = EmptyMap /\ watcher = Resting
        /\ \A p \in Procs : proc[p] = Idle
    BY <1>2 DEF DownIsEmpty
  <2>1. \A p \in Procs : ~Continue(p)
    BY <2>0 DEF Continue, AutoApproval, Expire, Mint, Mark, Idle
  <2>2. ~Watch
    BY <2>0, <1>2 DEF Watch, WatcherTick, WatcherLooks, WatcherMisses, WatcherLabels,
                      WatcherMarks, Resting
  <2>3. UNCHANGED <<nodes, watcher, proc>>
    BY <1>2, <2>1, <2>2 DEF Next, vars, storeVars, Register, Poll, CanStart, Approve, Deny,
                            Crash, Boot, Tick, AgentJoins, NodeReady, NodeUnready
  <2> QED
    BY <2>0, <2>3
<1> QED
  BY <1>1, <1>2

(* While the panel is up a record stays, and a decision stands.             *)
LEMMA RecordsPersist ==
  ASSUME Setting, [Next]_vars, up', NEW id \in Ids, Known(nodes, id)
  PROVE  Known(nodes', id) /\ (nodes[id].status \in Decided => nodes'[id].status \in Decided)
<1> USE DEF Setting
<1>0. nodes \in [Ids -> Records]
  BY DEF TypeOK
<1>1. CASE StoreRests
  BY <1>1 DEF StoreRests
<1>2. CASE Registers
  BY <1>0, <1>2, RegistersOne DEF Unused, Known
<1>3. CASE Changes
  BY <1>0, <1>3, ChangesOne DEF Changed, Known
<1>4. CASE Loads
  BY <1>4 DEF Loads, DownIsEmpty, EmptyMap, NoRecord, Known
<1> QED
  BY <1>1, <1>2, <1>3, <1>4, StoreSteps DEF Forgets

LEMMA HandlersStep ==
  ASSUME Setting, MintersAreDecided, [Next]_vars
  PROVE  HandlersHaveRequest' /\ MintersAreDecided' /\ MarkersHaveSecret'
<1> USE DEF Setting
<1> SUFFICES ASSUME NEW p \in Procs
             PROVE  /\ proc'[p].pc # "idle" => proc'[p].id \in Ids /\ Known(nodes', proc'[p].id)
                    /\ Minting(proc'[p]) => nodes'[proc'[p].id].status \in Decided
                    /\ proc'[p].pc = "mark" =>
                         /\ proc'[p].token \in Tokens
                         /\ secrets'[proc'[p].token].node = proc'[p].id
  BY DEF HandlersHaveRequest, MintersAreDecided, MarkersHaveSecret
<1> DEFINE id == proc[p].id
<1>0. /\ proc[p] \in Handlers /\ secrets \in [Tokens -> Secrets]
  BY DEF TypeOK
<1>1. CASE proc'[p] = Idle
  BY <1>1 DEF Idle, Minting
<1> SUFFICES ASSUME proc'[p] # Idle
             PROVE  /\ proc'[p].pc # "idle" => proc'[p].id \in Ids /\ Known(nodes', proc'[p].id)
                    /\ Minting(proc'[p]) => nodes'[proc'[p].id].status \in Decided
                    /\ proc'[p].pc = "mark" =>
                         /\ proc'[p].token \in Tokens
                         /\ secrets'[proc'[p].token].node = proc'[p].id
  BY <1>1
<1>2. up'
  BY DownStaysEmpty DEF DownIsEmpty
<1>3. proc[p].pc # "idle" => /\ id \in Ids /\ Known(nodes, id) /\ Known(nodes', id)
                             /\ nodes[id].status \in Decided => nodes'[id].status \in Decided
  BY <1>2, RecordsPersist DEF HandlersHaveRequest
<1>4. Minting(proc[p]) => nodes[id].status \in Decided
  BY DEF MintersAreDecided
<1>5. CASE proc'[p] = proc[p]
  <2>1. proc[p].pc = "mark" => /\ proc[p].token \in Tokens
                               /\ secrets'[proc[p].token].node = id
    BY <1>3, SecretsStay, NamesAssumption DEF MarkersHaveSecret
  <2> QED
    BY <1>3, <1>4, <1>5, <2>1 DEF Minting
<1>6. ASSUME NEW i \in Ids, StartsOn(p, "autoApprove", i, nodes'[i]), Known(nodes', i)
      PROVE  proc'[p].pc = "autoApprove" /\ proc'[p].id \in Ids /\ Known(nodes', proc'[p].id)
  BY <1>6 DEF StartsOn
<1>7. ASSUME NEW i \in Ids, StartsOn(p, "expire", i, nodes[i]), Known(nodes, i), nodes' = nodes
      PROVE  /\ proc'[p].pc = "expire" /\ proc'[p].id = i /\ Known(nodes', i)
             /\ proc'[p].status = nodes'[i].status
  BY <1>7 DEF StartsOn
<1>8. CASE ToMint(p)
  <2>1. Minting(proc[p]) /\ proc'[p].pc = "mint" /\ proc'[p].id = id
    BY <1>0, <1>8 DEF ToMint, Minting, Handlers
  <2> QED
    BY <1>3, <1>4, <2>1 DEF Minting
<1>9. ASSUME NEW t \in Tokens, ToMark(p, t)
      PROVE  /\ proc'[p].pc = "mark" /\ proc'[p].id = id /\ proc'[p].token = t
             /\ proc[p].pc # "idle" /\ secrets'[t].node = id
  BY <1>0, <1>9 DEF ToMark, SecretMinted, Secret, Handlers
<1> QED
  BY <1>1, <1>3, <1>5, <1>6, <1>7, <1>8, <1>9, HandlerSteps DEF HandlerStep, Minting, Decided

LEMMA SecretsPersist ==
  ASSUME Setting, [Next]_vars, NEW id \in Ids, HasSecret(id)
  PROVE  HasSecret(id)'
BY SecretsStay, NamesAssumption DEF HasSecret

LEMMA MintedStep ==
  ASSUME Setting, MintedHaveSecret, [Next]_vars
  PROVE  MintedHaveSecret'
<1> USE DEF Setting
<1> SUFFICES ASSUME NEW id \in Ids,
                    \/ nodes'[id].mintedAt # 0
                    \/ disk'[id].mintedAt # 0
                    \/ cluster'[id] # "none"
             PROVE  HasSecret(id)'
  BY DEF MintedHaveSecret, HasSecret
<1> SUFFICES HasSecret(id)
  BY SecretsPersist
<1>0. nodes \in [Ids -> Records]
  BY DEF TypeOK
<1>1. nodes[id].mintedAt # 0 \/ disk[id].mintedAt # 0 \/ cluster[id] # "none" => HasSecret(id)
  BY DEF MintedHaveSecret
<1>2. CASE cluster'[id] # "none"
  BY <1>1, <1>2, ClusterSteps
<1>3. CASE nodes'[id].mintedAt # 0 \/ disk'[id].mintedAt # 0
  <2>1. CASE StoreRests
    BY <1>1, <1>3, <2>1 DEF StoreRests
  <2>2. CASE Registers
    BY <1>0, <1>1, <1>3, <2>2, RegistersOne
  <2>3. CASE Changes
    BY <1>0, <1>1, <1>3, <2>3, ChangesOne DEF Changed
  <2>4. CASE Forgets
    BY <1>1, <1>3, <2>4 DEF Forgets, EmptyMap, NoRecord
  <2>5. CASE Loads
    BY <1>1, <1>3, <2>5 DEF Loads
  <2> QED
    BY <2>1, <2>2, <2>3, <2>4, <2>5, StoreSteps
<1> QED
  BY <1>2, <1>3

LEMMA WatcherStep ==
  ASSUME Setting, [Next]_vars
  PROVE  WatcherFollows'
<1> USE DEF Setting
<1>c. /\ labelled \subseteq labelled'
      /\ \A id \in Ids : cluster[id] # "none" => cluster'[id] # "none"
  BY ClusterSteps
<1>0. watcher \in Watchers
  BY DEF TypeOK
<1>1. CASE watcher' = watcher
  BY <1>1, <1>c DEF WatcherFollows
<1>2. CASE watcher'.pc \in {"rest", "look"}
  BY <1>2 DEF WatcherFollows
<1>3. CASE WatcherLooks /\ watcher'.pc \notin {"rest", "look"}
  <2>1. PICK id \in watcher.list :
          /\ cluster[id] = "ready"
          /\ watcher' = [pc |-> "label", id |-> id, list |-> watcher.list \ {id}]
    <3>1. PICK id \in watcher.list :
            watcher' = IF cluster[id] = "ready"
                       THEN [pc |-> "label", id |-> id, list |-> watcher.list \ {id}]
                       ELSE IF watcher.list \ {id} = {} THEN Resting
                       ELSE [pc |-> "look", id |-> NoId, list |-> watcher.list \ {id}]
      BY <1>3 DEF WatcherLooks
    <3>2. cluster[id] = "ready"
      BY <1>3, <3>1 DEF Resting
    <3> QED
      BY <3>1, <3>2
  <2>2. id \in Ids
    BY <1>0 DEF Watchers
  <2> QED
    BY <2>1, <2>2, <1>c DEF WatcherFollows
<1>4. CASE WatcherLabels /\ watcher'.pc \notin {"rest", "look"}
  <2>1. /\ watcher.pc = "label" /\ labelled' = labelled \cup {watcher.id}
        /\ watcher'.id = watcher.id
    BY <1>0, <1>4 DEF WatcherLabels, Resting, Watchers
  <2> QED
    BY <2>1, <1>c DEF WatcherFollows
<1>5. CASE WatcherTick \/ WatcherMarks
  <2>1. CASE WatcherTick
    BY <1>2, <2>1 DEF WatcherTick
  <2>2. CASE WatcherMarks
    <3>1. \/ watcher' = Resting
          \/ watcher' = [pc |-> "look", id |-> NoId, list |-> watcher.list]
      BY <2>2 DEF WatcherMarks
    <3> QED
      BY <1>2, <3>1 DEF Resting
  <2> QED
    BY <1>5, <2>1, <2>2
<1>6. CASE WatcherMisses
  <2>1. watcher' = Resting \/ watcher'.pc = "look"
    BY <1>0, <1>6 DEF WatcherMisses, Watchers
  <2> QED
    BY <1>2, <2>1 DEF Resting
<1>7. CASE Crash
  BY <1>2, <1>7 DEF Crash, Resting
<1> QED
  BY <1>1, <1>2, <1>3, <1>4, <1>5, <1>6, <1>7
  DEF Next, vars, Register, Poll, Continue, AutoApproval, Expire, Mint, Mark, Approve,
      Deny, Watch, Boot, Tick, AgentJoins, NodeReady, NodeUnready

LEMMA RecordsStep ==
  ASSUME Setting, RecordsHaveLaptop, OneRequestPerLaptop, JoinedIsLabelled, [Next]_vars
  PROVE  RecordsHaveLaptop' /\ OneRequestPerLaptop' /\ JoinedIsLabelled'
<1> USE DEF Setting
<1>0. /\ nodes \in [Ids -> Records] /\ disk \in [Ids -> Records]
      /\ byFingerprint \in [Laptops -> Ids \cup {NoId}]
      /\ labelled \subseteq labelled'
  BY ClusterSteps DEF TypeOK
<1>1. CASE StoreRests
  BY <1>0, <1>1 DEF StoreRests, RecordsHaveLaptop, OneRequestPerLaptop, JoinedIsLabelled, Known
<1>2. CASE UNCHANGED <<nodes, byFingerprint, disk>> /\ up /\ up'
  BY <1>0, <1>2 DEF RecordsHaveLaptop, OneRequestPerLaptop, JoinedIsLabelled, Known
<1>3. CASE Registers /\ ~UNCHANGED <<nodes, byFingerprint, disk>>
  <2>1. PICK l \in Laptops, id \in Unused, r \in Records :
          /\ byFingerprint[l] = NoId
          /\ r.laptop = l /\ r.status = "pending"
          /\ nodes' = [nodes EXCEPT ![id] = r] /\ disk' = nodes'
          /\ byFingerprint' = [byFingerprint EXCEPT ![l] = id]
    BY <1>3, RegistersOne
  <2>2. id \in Ids /\ ~Known(nodes, id) /\ id # NoId
    BY NamesAssumption DEF Unused
  <2>3. up /\ up'
    BY <1>3 DEF Registers
  <2>4. RecordsHaveLaptop'
    BY <1>0, <2>1, <2>2 DEF RecordsHaveLaptop, Known
  <2>5. \A i \in Ids, k \in Laptops :
          Known(nodes', i) /\ nodes'[i].laptop = k <=> byFingerprint'[k] = i
    <3> TAKE i \in Ids, k \in Laptops
    <3>1. Known(nodes, i) /\ nodes[i].laptop = k <=> byFingerprint[k] = i
      BY <2>3 DEF OneRequestPerLaptop
    <3> QED
      BY <1>0, <2>1, <2>2, <3>1, NamesAssumption DEF Known
  <2>6. \A i, j \in Ids :
          Known(disk', i) /\ Known(disk', j) /\ disk'[i].laptop = disk'[j].laptop => i = j
    <3>1. disk' = nodes'
      BY <2>1
    <3> QED
      BY <3>1, <2>4, <2>5 DEF RecordsHaveLaptop
  <2>7. JoinedIsLabelled'
    BY <1>0, <2>1, <2>2 DEF JoinedIsLabelled
  <2> QED
    BY <2>4, <2>5, <2>6, <2>7 DEF OneRequestPerLaptop, Known
<1>4. CASE Changes
  <2>1. PICK id \in Ids, r \in Records : Changed(id, r)
    BY <1>4, ChangesOne
  <2>2. byFingerprint' = byFingerprint /\ (disk' = nodes' \/ disk' = disk)
    BY <1>4, ChangesOne
  <2>3. up /\ up'
    BY <1>4 DEF Changes
  <2>4. RecordsHaveLaptop'
    BY <1>0, <2>1, <2>2 DEF RecordsHaveLaptop, Known, Changed
  <2>5. \A i \in Ids, k \in Laptops :
          Known(nodes', i) /\ nodes'[i].laptop = k <=> byFingerprint'[k] = i
    <3> TAKE i \in Ids, k \in Laptops
    <3>1. Known(nodes, i) /\ nodes[i].laptop = k <=> byFingerprint[k] = i
      BY <2>3 DEF OneRequestPerLaptop
    <3> QED
      BY <1>0, <2>1, <2>2, <3>1 DEF Known, Changed
  <2>6. \A i, j \in Ids :
          Known(disk', i) /\ Known(disk', j) /\ disk'[i].laptop = disk'[j].laptop => i = j
    <3>1. CASE disk' = disk
      BY <3>1 DEF OneRequestPerLaptop, Known
    <3>2. CASE disk' = nodes'
      BY <3>2, <2>4, <2>5 DEF RecordsHaveLaptop
    <3> QED
      BY <2>2, <3>1, <3>2
  <2>7. JoinedIsLabelled'
    BY <1>0, <2>1, <2>2 DEF JoinedIsLabelled, Changed
  <2> QED
    BY <2>4, <2>5, <2>6, <2>7 DEF OneRequestPerLaptop, Known
<1>5. CASE Forgets
  BY <1>0, <1>5 DEF Forgets, EmptyMap, NoRecord, RecordsHaveLaptop, OneRequestPerLaptop,
                    JoinedIsLabelled, Known
<1>6. CASE Loads
  <2>1. \A i \in Ids, k \in Laptops :
          Known(disk, i) /\ disk[i].laptop = k <=> FingerprintsOf(disk)[k] = i
    <3> TAKE i \in Ids, k \in Laptops
    <3> DEFINE P(j) == Known(disk, j) /\ disk[j].laptop = k
    <3>1. FingerprintsOf(disk)[k] =
            IF \E j \in Ids : P(j) THEN CHOOSE j \in Ids : P(j) ELSE NoId
      BY DEF FingerprintsOf
    <3>2. \A j, n \in Ids : P(j) /\ P(n) => j = n
      BY DEF OneRequestPerLaptop
    <3> HIDE DEF P
    <3>3. P(i) <=> FingerprintsOf(disk)[k] = i
      BY <3>1, <3>2, NamesAssumption
    <3> QED
      BY <3>3 DEF P
  <2>2. nodes' = disk /\ disk' = disk /\ byFingerprint' = FingerprintsOf(disk)
    BY <1>6 DEF Loads
  <2>3. RecordsHaveLaptop' /\ JoinedIsLabelled'
    BY <1>0, <2>2 DEF RecordsHaveLaptop, JoinedIsLabelled, Known
  <2>4. \A i, j \in Ids :
          Known(disk', i) /\ Known(disk', j) /\ disk'[i].laptop = disk'[j].laptop => i = j
    BY <2>2 DEF OneRequestPerLaptop, Known
  <2>5. \A i \in Ids, k \in Laptops :
          Known(nodes', i) /\ nodes'[i].laptop = k <=> byFingerprint'[k] = i
    BY <2>1, <2>2
  <2> QED
    BY <2>3, <2>4, <2>5 DEF OneRequestPerLaptop, Known
<1> QED
  BY <1>1, <1>2, <1>3, <1>4, <1>5, <1>6, StoreSteps DEF Registers

-----------------------------------------------------------------------------

(* Together: the invariant is inductive.                                    *)
LEMMA InitInv == Init => Inv
<1> SUFFICES ASSUME Init PROVE Inv
  OBVIOUS
<1>1. TypeOK
  <2>1. secrets \in [Tokens -> Secrets]
    <3>1. NoSecret \in Secrets
      <4>1. 0 \in 0..(MaxTime + TokenTTL)
        BY TimeAssumption
      <4> QED
        BY <4>1, Zenon DEF NoSecret, Secrets
    <3> QED
      BY <3>1 DEF Init
  <2>2. proc \in [Procs -> Handlers] /\ watcher \in Watchers
    BY TimeAssumption DEF Init, Idle, Handlers, Resting, Watchers
  <2>3. env \in Environments /\ now \in 1..MaxTime /\ faults \in 0..MaxFaults
    BY SettingsAssumption, TimeAssumption, FaultsAssumption DEF Init
  <2>4. nodes \in [Ids -> Records] /\ disk \in [Ids -> Records]
    BY NothingIsTyped DEF Init
  <2> QED
    BY <2>1, <2>2, <2>3, <2>4 DEF Init, TypeOK
<1>2. DownIsEmpty /\ HandlersHaveRequest /\ MintersAreDecided /\ MarkersHaveSecret
      /\ WatcherFollows
  BY DEF Init, DownIsEmpty, HandlersHaveRequest, MintersAreDecided, MarkersHaveSecret,
         WatcherFollows, Idle, Minting, Resting
<1>3. MintedHaveSecret /\ RecordsHaveLaptop /\ OneRequestPerLaptop /\ JoinedIsLabelled
  BY DEF Init, MintedHaveSecret, RecordsHaveLaptop, OneRequestPerLaptop, JoinedIsLabelled,
         EmptyMap, NoRecord, Known
<1> QED
  BY <1>1, <1>2, <1>3 DEF Inv

LEMMA NextInv == Inv /\ [Next]_vars => Inv'
<1> SUFFICES ASSUME Inv, [Next]_vars PROVE Inv'
  OBVIOUS
<1>1. Setting
  BY DEF Inv, Setting
<1> QED
  BY <1>1, TypeStep, DownStaysEmpty, HandlersStep, MintedStep, WatcherStep, RecordsStep DEF Inv

(* Whatever handlers, watcher, laptops, operator and faults do to the store *)
(* the invariant above holds (nodes/store.go, nodes/watcher.go).            *)
THEOREM Invariant == Spec => []Inv
BY InitInv, NextInv, PTL DEF Spec

(* Every record, file, Secret and handler has its type, whatever is called, *)
(* fails or restarts.                                                       *)
THEOREM TypeCorrect == Spec => []TypeOK
<1>1. Inv => TypeOK
  BY DEF Inv
<1> QED
  BY <1>1, Invariant, PTL

(* Store.Register finds the request of a fingerprint or creates one: never  *)
(* two requests of one laptop, however its registrations overlap or repeat. *)
THEOREM OneRequest == Spec => []OneRequestPerLaptop
<1>1. Inv => OneRequestPerLaptop
  BY DEF Inv
<1> QED
  BY <1>1, Invariant, PTL

(* The watcher marks a request joined after it labelled its node, and only  *)
(* then (Watcher.RunOnce): a joined request has a labelled node.            *)
THEOREM OnlyHostsAreJoined == Spec => []JoinedIsLabelled
<1>1. Inv => JoinedIsLabelled
  BY DEF Inv
<1> QED
  BY <1>1, Invariant, PTL

-----------------------------------------------------------------------------
(* The life cycle *)

TableOf(map) == [id \in Ids |-> IF Known(map, id) THEN map[id].status ELSE "unknown"]

(* The status table is read off the map that is in force.                   *)
LEMMA TableIsDurable ==
  /\ up => StatusTable = TableOf(nodes)
  /\ ~up => StatusTable = TableOf(disk)
  /\ up' => StatusTable' = TableOf(nodes')
  /\ ~up' => StatusTable' = TableOf(disk')
BY DEF StatusTable, TableOf, Durable, Known

LEMMA CredentialsAreSecrets ==
  ASSUME TypeOK, NEW id \in Ids
  PROVE  HasSecret(id) <=> id \in Credentials
BY NamesAssumption DEF HasSecret, Credentials, Unminted, NoSecret

(* Only minting adds to the credentials.                                    *)
LEMMA CredentialSteps ==
  ASSUME Setting, [Next]_vars
  PROVE  \/ Credentials' = Credentials
         \/ \E p \in Procs : /\ proc[p].pc = "mint" /\ StoreRests
                             /\ Credentials' = Credentials \cup {proc[p].id}
<1> USE DEF Setting
<1>0. secrets \in [Tokens -> Secrets]
  BY DEF TypeOK
<1>1. CASE secrets' = secrets
  BY <1>1 DEF Credentials, Unminted
<1>2. ASSUME NEW p \in Procs, NEW t \in Tokens, SecretMinted(p, t)
      PROVE  Credentials' = Credentials \cup {proc[p].id}
  <2>1. proc[p].id # NoId
    BY <1>2, NamesAssumption DEF SecretMinted, HandlersHaveRequest
  <2>2. Secret(proc[p].id).node = proc[p].id /\ Secret(proc[p].id) # NoSecret
    BY <2>1 DEF Secret, NoSecret
  <2>3. \A u \in Tokens : secrets'[u] = IF u = t THEN Secret(proc[p].id) ELSE secrets[u]
    BY <1>0, <1>2 DEF SecretMinted
  <2>4. Tokens \ Unminted' = (Tokens \ Unminted) \cup {t}
    BY <2>2, <2>3 DEF Unminted
  <2>5. t \in Unminted
    BY <1>2 DEF SecretMinted
  <2> QED
    BY <2>2, <2>3, <2>4, <2>5 DEF Credentials
<1>3. ASSUME NEW t \in Tokens, SecretGiven(t)
      PROVE  Credentials' = Credentials
  <2>1. \A u \in Tokens : secrets'[u].node = secrets[u].node
    BY <1>0, <1>3 DEF SecretGiven
  <2>2. \A u \in Tokens : u # t => secrets'[u] = secrets[u]
    BY <1>0, <1>3 DEF SecretGiven
  <2>3. secrets[t] # NoSecret /\ secrets'[t] # NoSecret
    BY <1>3, <2>1 DEF SecretGiven, NoSecret
  <2>4. Unminted' = Unminted
    BY <2>2, <2>3 DEF Unminted
  <2> QED
    BY <2>1, <2>4 DEF Credentials
<1> QED
  BY <1>1, <1>2, <1>3, SecretSteps DEF SecretMinted

(* A new status in a record is a new entry of the table.                    *)
LEMMA StatusChanges ==
  ASSUME TypeOK, NEW id \in Ids, NEW s \in Statuses, Known(nodes, id),
         nodes' = [nodes EXCEPT ![id].status = s]
  PROVE  TableOf(nodes') = [TableOf(nodes) EXCEPT ![id] = s]
<1>0. nodes \in [Ids -> Records]
  BY DEF TypeOK
<1>1. \A i \in Ids : nodes'[i].status = IF i = id THEN s ELSE nodes[i].status
  BY <1>0 DEF Records
<1>2. s # "absent"
  BY DEF Statuses
<1> QED
  BY <1>1, <1>2 DEF TableOf, Known

(* A step that loses nothing to a restart is a step of NodeLifecycle.       *)
LEMMA LifecycleSteps ==
  ASSUME Inv, [Next]_vars, up /\ ~up' => disk = nodes
  PROVE  [Lifecycle!Next]_<<StatusTable, Credentials>>
<1> USE DEF Inv
<1>s. Setting
  BY DEF Setting
<1>0. nodes \in [Ids -> Records]
  BY DEF TypeOK
<1> SUFFICES ASSUME ~(StatusTable' = StatusTable /\ Credentials' = Credentials)
             PROVE  Lifecycle!Next
  OBVIOUS
<1>1. CASE StoreRests
  <2>1. StatusTable' = StatusTable
    BY <1>1, TableIsDurable DEF StoreRests
  <2>2. PICK p \in Procs : /\ proc[p].pc = "mint"
                           /\ Credentials' = Credentials \cup {proc[p].id}
    BY <2>1, <1>s, CredentialSteps
  <2> DEFINE id == proc[p].id
  <2>3. up /\ id \in Ids /\ Known(nodes, id) /\ nodes[id].status \in Decided
    <3>1. up
      BY <2>2 DEF DownIsEmpty, Idle
    <3>2. id \in Ids /\ Known(nodes, id)
      <4>1. proc[p].pc # "idle"
        BY <2>2
      <4> QED
        BY <4>1, Zenon DEF HandlersHaveRequest
    <3>3. Minting(proc[p])
      BY <2>2 DEF Minting
    <3>4. nodes[id].status \in Decided
      BY <3>3 DEF MintersAreDecided
    <3> QED
      BY <3>1, <3>2, <3>4
  <2>4. StatusTable[id] \in {"approved", "joined", "expired"}
    BY <2>3, TableIsDurable DEF TableOf, Decided
  <2>5. Lifecycle!Give(id)
    BY <2>1, <2>2, <2>4 DEF Lifecycle!Give
  <2> QED
    BY <2>3, <2>5 DEF Lifecycle!Next
<1>2. CASE Registers /\ ~UNCHANGED <<nodes, byFingerprint, disk>>
  <2>1. PICK id \in Unused, r \in Records :
          r.status = "pending" /\ nodes' = [nodes EXCEPT ![id] = r]
    BY <1>2, RegistersOne
  <2>2. id \in Ids /\ ~Known(nodes, id)
    BY DEF Unused
  <2>3. StatusTable = TableOf(nodes) /\ StatusTable' = TableOf(nodes')
    BY <1>2, TableIsDurable DEF Registers
  <2>4. TableOf(nodes') = [TableOf(nodes) EXCEPT ![id] = "pending"]
    BY <1>0, <2>1, <2>2 DEF TableOf, Known
  <2>5. TableOf(nodes)[id] = "unknown"
    BY <2>2 DEF TableOf
  <2>6. Credentials' = Credentials
    BY <1>2, <1>s, CredentialSteps DEF StoreRests
  <2>7. Lifecycle!Request(id)
    BY <2>3, <2>4, <2>5, <2>6 DEF Lifecycle!Request, Lifecycle!Become
  <2> QED
    BY <2>2, <2>7 DEF Lifecycle!Next
<1>3. CASE Registers /\ UNCHANGED <<nodes, byFingerprint, disk>>
  <2>1. StatusTable' = StatusTable
    BY <1>3, TableIsDurable DEF Registers
  <2>2. Credentials' # Credentials
    BY <2>1
  <2> QED
    BY <2>2, <1>1, <1>s, CredentialSteps
<1>4. CASE Changes /\ ~StoreRests
  <2>1. PICK id \in Ids, ok \in BOOLEAN :
          /\ Known(nodes, id)
          /\ \/ ApproveRecord(id, ok) \/ DenyRecord(id, ok) \/ ExpireRecord(id, ok)
             \/ \E t \in Tokens : secrets[t].node = id /\ MarkMinted(id, t, ok)
             \/ cluster[id] # "none" /\ id \in labelled /\ MarkJoined(id, ok)
    BY <1>4 DEF Changes
  <2>2. StatusTable = TableOf(nodes) /\ StatusTable' = TableOf(nodes')
    BY <1>4, TableIsDurable DEF Changes
  <2>3. Credentials' = Credentials
    BY <1>4, <1>s, CredentialSteps
  <2>4. StatusTable[id] = nodes[id].status
    BY <2>1, <2>2 DEF TableOf
  <2>5. ASSUME NEW s \in Statuses, nodes' = [nodes EXCEPT ![id].status = s]
        PROVE  StatusTable' = [StatusTable EXCEPT ![id] = s]
    BY <2>1, <2>2, <2>5, StatusChanges
  <2>6. nodes[id].mintedAt # 0 \/ cluster[id] # "none" => id \in Credentials
    BY CredentialsAreSecrets DEF MintedHaveSecret
  <2>7. CASE ApproveRecord(id, ok)
    <3>1. \A i \in Ids : nodes'[i].status = IF i = id THEN "approved" ELSE nodes[i].status
      BY <1>0, <2>7 DEF ApproveRecord, Records
    <3>2. StatusTable' = [StatusTable EXCEPT ![id] = "approved"]
      BY <2>1, <2>2, <3>1 DEF TableOf, Known
    <3> QED
      BY <2>3, <2>4, <2>7, <3>2
      DEF ApproveRecord, Lifecycle!Next, Lifecycle!Approve, Lifecycle!Become
  <2>8. CASE DenyRecord(id, ok)
    <3>1. StatusTable' = [StatusTable EXCEPT ![id] = "denied"] /\ StatusTable[id] = "pending"
      BY <2>4, <2>5, <2>8 DEF DenyRecord, Statuses
    <3> QED
      BY <2>3, <3>1 DEF Lifecycle!Next, Lifecycle!Deny, Lifecycle!Become
  <2>9. CASE ExpireRecord(id, ok)
    <3>1. StatusTable' = [StatusTable EXCEPT ![id] = "expired"] /\ StatusTable[id] = "approved"
          /\ id \in Credentials
      BY <2>4, <2>5, <2>6, <2>9 DEF ExpireRecord, Elapsed, Statuses
    <3> QED
      BY <2>3, <3>1 DEF Lifecycle!Next, Lifecycle!Expire, Lifecycle!Become
  <2>10. CASE cluster[id] # "none" /\ MarkJoined(id, ok)
    <3>1. StatusTable' = [StatusTable EXCEPT ![id] = "joined"] /\ StatusTable[id] = "approved"
          /\ id \in Credentials
      BY <2>4, <2>5, <2>6, <2>10 DEF MarkJoined, Statuses
    <3> QED
      BY <2>3, <3>1 DEF Lifecycle!Next, Lifecycle!Join, Lifecycle!Become
  <2>11. ASSUME NEW t \in Tokens, MarkMinted(id, t, ok)
         PROVE  FALSE
    <3>1. \A i \in Ids : nodes'[i].status = nodes[i].status
      BY <1>0, <2>11 DEF MarkMinted, Records
    <3>2. StatusTable' = StatusTable
      BY <2>2, <3>1 DEF TableOf, Known
    <3> QED
      BY <2>3, <3>2
  <2> QED
    BY <2>1, <2>7, <2>8, <2>9, <2>10, <2>11
<1>5. CASE Forgets \/ Loads
  <2>1. StatusTable' = StatusTable
    BY <1>5, TableIsDurable DEF Forgets, Loads
  <2> QED
    BY <2>1, <1>1, <1>s, CredentialSteps
<1> QED
  BY <1>1, <1>2, <1>3, <1>4, <1>5, <1>s, StoreSteps

(* Every step of the store is a step of the life cycle of a request, or the *)
(* restart of a panel whose file is behind its memory: a change that stands *)
(* though its save failed (Store.Approve, MarkMinted, ...) is the only way out. *)
THEOREM OnlyStaleRestartDeparts == Spec => LifecycleUnlessStaleRestart
<1>1. Inv /\ [Next]_vars =>
        [(up /\ ~up' => disk = nodes) => Lifecycle!Next]_<<StatusTable, Credentials>>
  BY LifecycleSteps
<1> QED
  BY <1>1, Invariant, PTL DEF Spec, LifecycleUnlessStaleRestart

-----------------------------------------------------------------------------
(* Without failing saves *)

FileCurrent == up => disk = nodes

(* Where saves succeed, the file has what the map has.                      *)
LEMMA SavesSucceed ==
  ASSUME "save" \notin FaultKinds, NEW ok \in BOOLEAN, Save(ok)
  PROVE  disk' = nodes'
BY DEF Save, Fault

LEMMA FileStaysCurrent ==
  ASSUME "save" \notin FaultKinds, Inv, FileCurrent, [Next]_vars
  PROVE  FileCurrent'
<1> USE DEF FileCurrent
<1>s. Setting
  BY DEF Inv, Setting
<1>1. CASE Registers
  BY <1>1, RegistersOne DEF Inv, Registers
<1>2. CASE Changes
  <2>1. \E ok \in BOOLEAN : Save(ok)
    BY <1>2 DEF Changes, ApproveRecord, DenyRecord, ExpireRecord, MarkMinted, MarkJoined
  <2> QED
    BY <2>1, SavesSucceed
<1>3. CASE StoreRests
  BY <1>3 DEF StoreRests
<1>4. CASE Forgets \/ Loads
  BY <1>4 DEF Forgets, Loads
<1> QED
  BY <1>1, <1>2, <1>3, <1>4, <1>s, StoreSteps

(* The store implements NodeLifecycle: what Durable and the Secrets show is *)
(* a behaviour of it, restarts of the panel included.                       *)
THEOREM StoreImplementsLifecycle ==
  ASSUME "save" \notin FaultKinds
  PROVE  Spec => ImplementsLifecycle
<1>1. Init => Lifecycle!Init /\ FileCurrent
  <2>1. Init => StatusTable = [id \in Ids |-> "unknown"]
    BY DEF Init, StatusTable, Durable, EmptyMap, NoRecord, Known
  <2>2. Init => Credentials = {}
    BY DEF Init, Credentials, Unminted
  <2> QED
    BY <2>1, <2>2 DEF Lifecycle!Init, Init, FileCurrent
<1>2. Inv /\ FileCurrent /\ [Next]_vars => FileCurrent'
  BY FileStaysCurrent
<1>3. Inv /\ FileCurrent /\ [Next]_vars => [Lifecycle!Next]_<<StatusTable, Credentials>>
  BY LifecycleSteps DEF FileCurrent
<1> QED
  BY <1>1, <1>2, <1>3, Invariant, PTL
  DEF Spec, ImplementsLifecycle, Lifecycle!Spec, Lifecycle!lifecycle

(* The Secrets of a request: they end with the last mint the record tells   *)
(* of, and they have ended when the record says expired.                    *)
SecretsEnd ==
  \A t \in Tokens, id \in Ids : secrets[t].node = id =>
    /\ secrets[t].expires <= now + TokenTTL
    /\ disk[id].mintedAt # 0 => secrets[t].expires <= disk[id].mintedAt + TokenTTL
    /\ disk[id].status = "expired" => secrets[t].expires < now

(* Who is about to mint has read the record before any token of it was      *)
(* marked, and before it expired.                                           *)
AboutToMint(h) ==
  h.pc = "mint" \/ (h.pc = "expire" /\ h.status = "approved" /\ h.token = NoToken)

MintersAreEarly ==
  \A p \in Procs : AboutToMint(proc[p]) =>
    /\ proc[p].began <= now
    /\ disk[proc[p].id].mintedAt = 0 \/ disk[proc[p].id].mintedAt >= proc[p].began
    /\ disk[proc[p].id].status = "expired" => proc[p].began < now

MarkedHaveToken ==
  \A id \in Ids : disk[id].token = NoToken => disk[id].mintedAt = 0

TokenInv ==
  Inv /\ FileCurrent /\ SecretsEnd /\ MintersAreEarly /\ MarkedHaveToken

(* What a step may do to what the file says of a request.                   *)
DiskStep(id) ==
  LET r == disk[id]  s == disk'[id] IN
  \/ /\ s.mintedAt = r.mintedAt /\ s.token = r.token
     /\ s.status = r.status \/ s.status # "expired"
  \/ s.mintedAt = 0 /\ s.token = NoToken /\ s.status # "expired"
  \/ s.mintedAt = now /\ s.token \in Tokens /\ s.status = r.status
  \/ /\ s.mintedAt = r.mintedAt /\ s.token = r.token
     /\ r.mintedAt # 0 /\ now - r.mintedAt > TokenTTL

(* Every step, where saves succeed, does one of these to the file.          *)
LEMMA DiskSteps ==
  ASSUME "save" \notin FaultKinds, TokenInv, [Next]_vars, NEW i \in Ids
  PROVE  DiskStep(i)
<1> USE DEF TokenInv
<1>s. Setting
  BY DEF Inv, Setting
<1>0. nodes \in [Ids -> Records] /\ disk \in [Ids -> Records]
  BY DEF Inv, TypeOK
<1>1. CASE disk' = disk
  BY <1>1 DEF DiskStep
<1>2. CASE Registers
  <2>1. disk = nodes
    BY <1>2 DEF Registers, FileCurrent
  <2> QED
    BY <1>0, <1>1, <1>2, <2>1, RegistersOne DEF Inv, DiskStep, Unused
<1>3. CASE Changes
  <2>1. PICK id \in Ids, ok \in BOOLEAN :
          /\ Known(nodes, id)
          /\ \/ ApproveRecord(id, ok) \/ DenyRecord(id, ok) \/ ExpireRecord(id, ok)
             \/ \E t \in Tokens : secrets[t].node = id /\ MarkMinted(id, t, ok)
             \/ cluster[id] # "none" /\ id \in labelled /\ MarkJoined(id, ok)
    BY <1>3 DEF Changes
  <2>2. Save(ok)
    BY <2>1 DEF ApproveRecord, DenyRecord, ExpireRecord, MarkMinted, MarkJoined
  <2>3. disk = nodes /\ disk' = nodes'
    BY <1>3, <2>2, SavesSucceed DEF Changes, FileCurrent
  <2>4. nodes[i] \in Records /\ nodes[id] \in Records
    BY <1>0
  <2>5. ASSUME NEW r, nodes' = [nodes EXCEPT ![id] = r], i # id
        PROVE  DiskStep(i)
    BY <1>0, <2>3, <2>5 DEF DiskStep
  <2>6. CASE ApproveRecord(id, ok)
    <3>1. nodes'[id].mintedAt = 0 /\ nodes'[id].token = NoToken /\ nodes'[id].status = "approved"
      BY <1>0, <2>4, <2>6 DEF ApproveRecord, Records
    <3>2. i # id => nodes'[i] = nodes[i]
      BY <1>0, <2>6 DEF ApproveRecord
    <3> QED
      BY <2>3, <3>1, <3>2 DEF DiskStep
  <2>7. ASSUME NEW s, nodes' = [nodes EXCEPT ![id].status = s]
        PROVE  /\ nodes'[id].mintedAt = nodes[id].mintedAt
               /\ nodes'[id].token = nodes[id].token /\ nodes'[id].status = s
               /\ i # id => nodes'[i] = nodes[i]
    BY <1>0, <2>4, <2>7 DEF Records
  <2>8. CASE DenyRecord(id, ok)
    BY <2>3, <2>7, <2>8 DEF DenyRecord, DiskStep
  <2>9. CASE ExpireRecord(id, ok)
    BY <2>3, <2>7, <2>9 DEF ExpireRecord, Elapsed, DiskStep
  <2>10. CASE MarkJoined(id, ok)
    BY <2>3, <2>7, <2>10 DEF MarkJoined, DiskStep
  <2>11. ASSUME NEW t \in Tokens, MarkMinted(id, t, ok)
         PROVE  DiskStep(i)
    <3>1. nodes'[id].mintedAt = now /\ nodes'[id].token = t
          /\ nodes'[id].status = nodes[id].status
      BY <1>0, <2>4, <2>11 DEF MarkMinted, Records
    <3>2. i # id => nodes'[i] = nodes[i]
      BY <1>0, <2>11 DEF MarkMinted
    <3> QED
      BY <2>3, <3>1, <3>2 DEF DiskStep
  <2> QED
    BY <2>1, <2>6, <2>8, <2>9, <2>10, <2>11
<1> QED
  BY <1>1, <1>2, <1>3, <1>s, StoreSteps DEF StoreRests, Forgets, Loads

(* The arithmetic of it, over what is an integer.                           *)
LEMMA TokenTypes ==
  ASSUME TypeOK
  PROVE  /\ now \in Nat /\ TokenTTL \in Nat /\ TokenTTL > 0
         /\ \A t \in Tokens : secrets[t].expires \in Nat
         /\ \A id \in Ids : disk[id].mintedAt \in Nat
         /\ \A p \in Procs : proc[p].began \in Nat
<1>1. now \in Nat /\ TokenTTL \in Nat /\ TokenTTL > 0
  BY TimeAssumption DEF TypeOK
<1>2. ASSUME NEW t \in Tokens
      PROVE  secrets[t].expires \in Nat
  <2>1. secrets[t] \in Secrets
    BY DEF TypeOK
  <2>2. secrets[t].expires \in 0..(MaxTime + TokenTTL)
    BY <2>1 DEF Secrets
  <2> QED
    BY <2>2, TimeAssumption
<1>3. \A id \in Ids : disk[id].mintedAt \in Nat
  BY TimeAssumption DEF TypeOK, Records
<1>4. \A p \in Procs : proc[p].began \in Nat
  BY TimeAssumption DEF TypeOK, Handlers
<1> QED
  BY <1>1, <1>2, <1>3, <1>4

(* A Secret ends within its lifetime, and before its request expires.       *)
LEMMA SecretsEndStep ==
  ASSUME "save" \notin FaultKinds, TokenInv, [Next]_vars
  PROVE  SecretsEnd'
<1> USE DEF TokenInv
<1>s. Setting /\ TypeOK /\ TypeOK'
  BY NextInv DEF Inv, Setting
<1> SUFFICES ASSUME NEW t \in Tokens, NEW id \in Ids, secrets'[t].node = id
             PROVE  /\ secrets'[t].expires <= now' + TokenTTL
                    /\ disk'[id].mintedAt # 0 =>
                         secrets'[t].expires <= disk'[id].mintedAt + TokenTTL
                    /\ disk'[id].status = "expired" => secrets'[t].expires < now'
  BY DEF SecretsEnd
<1>0. /\ now \in Nat /\ now' \in {now, now + 1} /\ TokenTTL \in Nat /\ TokenTTL > 0
      /\ disk[id].mintedAt \in Nat /\ secrets[t].expires \in Nat
  BY <1>s, TokenTypes, ClockRuns
<1>1. CASE secrets[t].node = id
  <2>1. secrets'[t].expires = secrets[t].expires
    BY <1>1, <1>s, SecretsStay, NamesAssumption
  <2>2. /\ secrets[t].expires <= now + TokenTTL
        /\ disk[id].mintedAt # 0 => secrets[t].expires <= disk[id].mintedAt + TokenTTL
        /\ disk[id].status = "expired" => secrets[t].expires < now
    BY <1>1 DEF SecretsEnd
  <2>3. DiskStep(id)
    BY DiskSteps
  <2> QED
    BY <1>0, <2>1, <2>2, <2>3 DEF DiskStep
<1>2. CASE secrets[t].node # id
  <2>1. PICK p \in Procs : SecretMinted(p, t) /\ StoreRests
    <3>1. secrets \in [Tokens -> Secrets]
      BY <1>s DEF TypeOK
    <3>2. CASE secrets' = secrets
      BY <1>2, <3>2
    <3>3. ASSUME NEW u \in Tokens, SecretGiven(u)
          PROVE  FALSE
      BY <3>1, <3>3, <1>2 DEF SecretGiven
    <3>4. ASSUME NEW p \in Procs, NEW u \in Tokens, SecretMinted(p, u)
          PROVE  u = t
      BY <3>1, <3>4, <1>2 DEF SecretMinted
    <3> QED
      BY <3>2, <3>3, <3>4, <1>s, SecretSteps
  <2>2. secrets'[t] = Secret(proc[p].id)
    BY <1>s, <2>1 DEF SecretMinted, TypeOK
  <2>3. proc[p].id = id /\ secrets'[t].expires = now + TokenTTL
    BY <2>2 DEF Secret
  <2>4. AboutToMint(proc[p]) /\ now = proc[p].began
    BY <2>1 DEF SecretMinted, AboutToMint
  <2>5. /\ disk[id].mintedAt = 0 \/ disk[id].mintedAt >= now
        /\ disk[id].status # "expired"
    BY <1>0, <2>3, <2>4 DEF MintersAreEarly
  <2>6. disk' = disk
    BY <2>1 DEF StoreRests
  <2>7. disk'[id] = disk[id]
    BY <2>6
  <2>8. /\ disk'[id].mintedAt = disk[id].mintedAt
        /\ disk'[id].status = disk[id].status
    BY <2>7
  <2>9. secrets'[t].expires <= now' + TokenTTL
    <3>1. now' = now \/ now' = now + 1
      BY <1>0
    <3>2. now \in Nat /\ now' \in Nat /\ TokenTTL \in Nat
      BY <1>0, <3>1
    <3>3. now <= now'
      BY <3>1, <3>2
    <3>4. \A a, b, c \in Nat : a <= b => a + c <= b + c
      OBVIOUS
    <3>5. now + TokenTTL <= now' + TokenTTL
      BY <3>2, <3>3, <3>4
    <3> QED
      BY <2>3, <3>5
  <2>10. ASSUME disk'[id].mintedAt # 0
         PROVE  secrets'[t].expires <= disk'[id].mintedAt + TokenTTL
    <3>1. disk[id].mintedAt # 0 /\ disk[id].mintedAt >= now
      BY <2>5, <2>8, <2>10
    <3>2. now + TokenTTL <= disk[id].mintedAt + TokenTTL
      BY <1>0, <3>1
    <3> QED
      BY <2>3, <2>8, <3>2
  <2>11. disk'[id].status # "expired"
    BY <2>5, <2>8
  <2> QED
    BY <2>9, <2>10, <2>11
<1> QED
  BY <1>1, <1>2

(* A handler about to mint is ahead of the request's clock.                 *)
LEMMA MintersEarlyStep ==
  ASSUME "save" \notin FaultKinds, TokenInv, [Next]_vars
  PROVE  MintersAreEarly' /\ MarkedHaveToken'
<1> USE DEF TokenInv
<1>s. Setting /\ TypeOK
  BY DEF Inv, Setting
<1>n. now \in Nat /\ now' \in {now, now + 1} /\ TokenTTL \in Nat /\ TokenTTL > 0
  BY <1>s, TokenTypes, ClockRuns
<1>1. MarkedHaveToken'
  <2> SUFFICES ASSUME NEW id \in Ids, disk'[id].token = NoToken
               PROVE  disk'[id].mintedAt = 0
    BY DEF MarkedHaveToken
  <2> QED
    BY DiskSteps, NamesAssumption DEF DiskStep, MarkedHaveToken
<1>2. ASSUME NEW p \in Procs, AboutToMint(proc'[p])
      PROVE  /\ proc'[p].began <= now'
             /\ disk'[proc'[p].id].mintedAt = 0 \/ disk'[proc'[p].id].mintedAt >= proc'[p].began
             /\ disk'[proc'[p].id].status = "expired" => proc'[p].began < now'
  <2> DEFINE h == proc[p]
  <2>0. h \in Handlers
    BY <1>s DEF TypeOK
  <2>1. ASSUME proc'[p].id = h.id, proc'[p].began = h.began, AboutToMint(h)
        PROVE  /\ h.began <= now'
               /\ disk'[h.id].mintedAt = 0 \/ disk'[h.id].mintedAt >= h.began
               /\ disk'[h.id].status = "expired" => h.began < now'
    <3>1. h.id \in Ids /\ h.began \in Nat
      BY <1>s, <2>1, TokenTypes DEF AboutToMint, HandlersHaveRequest, Setting
    <3>2. /\ h.began <= now
          /\ disk[h.id].mintedAt = 0 \/ disk[h.id].mintedAt >= h.began
          /\ disk[h.id].status = "expired" => h.began < now
      BY <2>1 DEF MintersAreEarly
    <3>3. disk[h.id].mintedAt \in Nat
      BY <1>s, <3>1, TokenTypes
    <3>4. DiskStep(h.id)
      BY <3>1, DiskSteps
    <3> HIDE DEF h
    <3> QED
      BY <1>n, <3>1, <3>2, <3>3, <3>4 DEF DiskStep
  <2>2. CASE proc'[p] = h
    BY <2>1, <2>2, <1>2
  <2>3. CASE ToMint(p)
    <3>1. AboutToMint(h) /\ proc'[p].id = h.id /\ proc'[p].began = h.began
      BY <2>0, <2>3 DEF ToMint, AboutToMint, Handlers
    <3> QED
      BY <2>1, <3>1
  <2>4. ASSUME NEW id \in Ids, StartsOn(p, "expire", id, nodes[id]), Known(nodes, id), nodes' = nodes
        PROVE  /\ proc'[p].began <= now' /\ disk'[proc'[p].id].mintedAt = 0
               /\ disk'[proc'[p].id].status # "expired"
    <3>1. /\ proc'[p].id = id /\ proc'[p].began = now /\ nodes[id].status = "approved"
          /\ nodes[id].token = NoToken
      BY <1>2, <2>4 DEF StartsOn, AboutToMint
    <3>2. disk = nodes
      BY <1>s, <2>4 DEF FileCurrent, DownIsEmpty, EmptyMap, NoRecord, Known, Setting
    <3>3. disk[id].mintedAt = 0
      BY <3>1, <3>2 DEF MarkedHaveToken
    <3>4. up'
      BY <1>s, <1>2, DownStaysEmpty DEF DownIsEmpty, Idle, AboutToMint
    <3>5. disk' = nodes'
      BY <3>4, FileStaysCurrent DEF FileCurrent
    <3> QED
      BY <1>n, <2>4, <3>1, <3>2, <3>3, <3>5
  <2>5. ASSUME NEW id \in Ids, NEW copy, StartsOn(p, "autoApprove", id, copy)
        PROVE  FALSE
    BY <1>2, <2>5 DEF StartsOn, AboutToMint
  <2>6. proc'[p] # Idle
    BY <1>2 DEF Idle, AboutToMint
  <2>7. ASSUME NEW t \in Tokens, ToMark(p, t)
        PROVE  FALSE
    BY <2>0, <1>2, <2>7 DEF ToMark, AboutToMint, Handlers
  <2> QED
    BY <1>s, <2>1, <2>2, <2>3, <2>4, <2>5, <2>6, <2>7, <1>2, HandlerSteps DEF HandlerStep
<1> QED
  BY <1>1, <1>2 DEF MintersAreEarly

(* Where saves succeed, a request that ExpireIfElapsed expired has no live  *)
(* token: the Secret's lifetime and the request's, taken from two readings of *)
(* the clock (MintToken, Store.ExpireIfElapsed), end in the right order.    *)
THEOREM ExpiredIsDead ==
  ASSUME "save" \notin FaultKinds
  PROVE  Spec => []ExpiredTokensAreDead
<1>1. Init => TokenInv
  <2> SUFFICES ASSUME Init PROVE TokenInv
    OBVIOUS
  <2>1. SecretsEnd
    BY NamesAssumption DEF Init, SecretsEnd, NoSecret
  <2>2. MintersAreEarly
    BY DEF Init, MintersAreEarly, AboutToMint, Idle
  <2>3. MarkedHaveToken /\ FileCurrent
    BY DEF Init, MarkedHaveToken, FileCurrent, EmptyMap, NoRecord
  <2> QED
    BY <2>1, <2>2, <2>3, InitInv DEF TokenInv
<1>2. TokenInv /\ [Next]_vars => TokenInv'
  BY NextInv, FileStaysCurrent, SecretsEndStep, MintersEarlyStep DEF TokenInv
<1>3. TokenInv => ExpiredTokensAreDead
  <2> SUFFICES ASSUME TokenInv, NEW id \in Ids, NEW t \in Tokens,
                      nodes[id].status = "expired", secrets[t].node = id
               PROVE  ~(now <= secrets[t].expires)
    BY DEF ExpiredTokensAreDead, Valid
  <2>1. disk = nodes
    BY DEF TokenInv, Inv, DownIsEmpty, FileCurrent, EmptyMap, NoRecord
  <2>2. secrets[t].expires < now
    BY <2>1 DEF TokenInv, SecretsEnd
  <2> QED
    BY <2>2, TokenTypes DEF TokenInv, Inv
<1> QED
  BY <1>1, <1>2, <1>3, PTL DEF Spec

-----------------------------------------------------------------------------
(* Nobody is let in without an approval *)

(* A request that was never approved has no Secret, no cluster node and no  *)
(* host label.                                                              *)
OnlyApprovedAreLetIn ==
  \A id \in Ids : Durable[id].status \notin Decided =>
    ~HasSecret(id) /\ cluster[id] = "none" /\ id \notin labelled

DecidedHaveSecret == \A id \in Ids : HasSecret(id) => Durable[id].status \in Decided

LabelledAreNodes == \A id \in labelled : cluster[id] # "none"

(* The restarts that bring the file back find it as the memory was.         *)
NothingForgotten == "save" \notin FaultKinds \/ "crash" \notin FaultKinds

LEMMA OnlyCrashForgets ==
  ASSUME [Next]_vars, up, ~up'
  PROVE  Crash
<1>1. up' # up
  OBVIOUS
<1>2. ASSUME NEW p \in Procs, NEW l \in Laptops, Register(p, l)
      PROVE  FALSE
  BY <1>1, <1>2 DEF Register
<1>3. ASSUME NEW p \in Procs, NEW id \in Ids, Poll(p, id)
      PROVE  FALSE
  BY <1>1, <1>3 DEF Poll
<1>4. ASSUME NEW p \in Procs, Continue(p)
      PROVE  FALSE
  BY <1>1, <1>4 DEF Continue, AutoApproval, Expire, Mint, Mark
<1>5. ASSUME NEW id \in Ids, Approve(id) \/ Deny(id) \/ AgentJoins(id) \/ NodeReady(id) \/ NodeUnready(id)
      PROVE  FALSE
  BY <1>1, <1>5 DEF Approve, Deny, AgentJoins, NodeReady, NodeUnready
<1>6. ~Watch
  BY <1>1 DEF Watch, WatcherTick, WatcherLooks, WatcherMisses, WatcherLabels, WatcherMarks
<1>7. ~Boot /\ ~Tick /\ ~UNCHANGED vars
  BY <1>1 DEF Boot, Tick, vars
<1> QED
  BY <1>2, <1>3, <1>4, <1>5, <1>6, <1>7 DEF Next

(* A decision is not undone, not even by a restart.                         *)
LEMMA DecisionsLast ==
  ASSUME NothingForgotten, Inv, "save" \notin FaultKinds => FileCurrent, [Next]_vars,
         NEW id \in Ids, Durable[id].status \in Decided
  PROVE  Durable'[id].status \in Decided
<1>s. Setting
  BY DEF Inv, Setting
<1>1. CASE up /\ up'
  <2>1. Known(nodes, id)
    BY <1>1 DEF Durable, Known, Decided
  <2> QED
    BY <1>s, <1>1, <2>1, RecordsPersist DEF Durable
<1>2. CASE up /\ ~up'
  <2>1. Crash /\ "crash" \in FaultKinds
    BY <1>2, OnlyCrashForgets DEF Crash, Fault
  <2>2. disk = nodes /\ disk' = disk
    BY <1>2, <2>1 DEF Crash, NothingForgotten, FileCurrent
  <2> QED
    BY <1>2, <2>2 DEF Durable
<1>3. CASE ~up
  BY <1>s, <1>3, StoreSteps DEF Durable, StoreRests, Registers, Changes, Forgets, Loads
<1> QED
  BY <1>1, <1>2, <1>3

LEMMA SecretsAreDecided ==
  ASSUME NothingForgotten, Inv, "save" \notin FaultKinds => FileCurrent, DecidedHaveSecret, [Next]_vars
  PROVE  DecidedHaveSecret'
<1>s. Setting /\ secrets \in [Tokens -> Secrets]
  BY DEF Inv, Setting, TypeOK
<1> SUFFICES ASSUME NEW id \in Ids, NEW t \in Tokens, secrets'[t].node = id
             PROVE  Durable'[id].status \in Decided
  BY DEF DecidedHaveSecret, HasSecret
<1> SUFFICES Durable[id].status \in Decided
  BY DecisionsLast
<1>1. CASE secrets[t].node = id
  BY <1>1 DEF DecidedHaveSecret, HasSecret
<1>2. CASE secrets[t].node # id
  <2>1. PICK p \in Procs : SecretMinted(p, t)
    <3>1. ASSUME NEW u \in Tokens, SecretGiven(u)
          PROVE  FALSE
      BY <1>s, <3>1, <1>2 DEF SecretGiven
    <3>2. ASSUME NEW p \in Procs, NEW u \in Tokens, SecretMinted(p, u)
          PROVE  u = t
      BY <1>s, <3>2, <1>2 DEF SecretMinted
    <3> QED
      BY <1>2, <3>1, <3>2, <1>s, SecretSteps
  <2>2. proc[p].id = id
    BY <1>s, <2>1 DEF SecretMinted, Secret
  <2>3. up /\ nodes[id].status \in Decided
    BY <1>s, <2>1, <2>2 DEF SecretMinted, Inv, MintersAreDecided, Minting, DownIsEmpty, Idle
  <2> QED
    BY <2>3 DEF Durable
<1> QED
  BY <1>1, <1>2

LEMMA LabelledStep ==
  ASSUME Setting, LabelledAreNodes, [Next]_vars
  PROVE  LabelledAreNodes'
<1>1. \A id \in Ids : cluster[id] # "none" => cluster'[id] # "none"
  BY ClusterSteps
<1>2. labelled \subseteq Ids
  BY DEF Setting, TypeOK
<1>3. CASE labelled' = labelled
  BY <1>1, <1>2, <1>3 DEF LabelledAreNodes
<1>4. CASE WatcherLabels
  BY <1>1, <1>2, <1>4 DEF LabelledAreNodes, WatcherLabels, Setting, WatcherFollows
<1>5. \/ labelled' = labelled
      \/ WatcherLabels
  BY DEF Next, vars, k8sVars, Register, Poll, Continue, AutoApproval, Expire, Mint, Mark, Approve,
         Deny, Watch, WatcherTick, WatcherLooks, WatcherMisses, WatcherMarks,
         Crash, Boot, Tick, AgentJoins, NodeReady, NodeUnready
<1> QED
  BY <1>3, <1>4, <1>5

(* No laptop gets a credential, becomes a node of the cluster or is         *)
(* labelled as a host unless its request was approved, and a denial is      *)
(* final: neither late polls, the watcher, the automatic approval nor a     *)
(* restart lets in what was denied (router.go 171-209, store.go 151-212).   *)
(* True as long as saves succeed, or as long as the panel does not crash:   *)
(* together they can turn an approval that was acted on back into a request *)
(* still to be decided.                                                     *)
THEOREM OnlyByApproval ==
  ASSUME NothingForgotten
  PROVE  Spec => []OnlyApprovedAreLetIn
<1> DEFINE LetIn == /\ Inv /\ DecidedHaveSecret /\ LabelledAreNodes
                    /\ "save" \notin FaultKinds => FileCurrent
<1>1. Init => LetIn
  <2> SUFFICES ASSUME Init PROVE LetIn
    OBVIOUS
  <2>1. DecidedHaveSecret
    BY NamesAssumption DEF Init, DecidedHaveSecret, HasSecret, NoSecret
  <2> QED
    BY <2>1, InitInv DEF Init, LabelledAreNodes, FileCurrent
<1>2. LetIn /\ [Next]_vars => LetIn'
  <2> SUFFICES ASSUME LetIn, [Next]_vars PROVE LetIn'
    OBVIOUS
  <2>1. DecidedHaveSecret'
    BY SecretsAreDecided
  <2>2. LabelledAreNodes'
    BY LabelledStep DEF Inv, Setting
  <2>3. "save" \notin FaultKinds => FileCurrent'
    BY FileStaysCurrent
  <2> QED
    BY <2>1, <2>2, <2>3, NextInv
<1>3. LetIn => OnlyApprovedAreLetIn
  <2> SUFFICES ASSUME LetIn, NEW id \in Ids, Durable[id].status \notin Decided
               PROVE  ~HasSecret(id) /\ cluster[id] = "none" /\ id \notin labelled
    BY DEF OnlyApprovedAreLetIn
  <2>1. ~HasSecret(id)
    BY DEF DecidedHaveSecret
  <2>2. cluster[id] = "none"
    BY <2>1 DEF Inv, MintedHaveSecret
  <2> QED
    BY <2>1, <2>2 DEF LabelledAreNodes
<1> HIDE DEF LetIn
<1> QED
  BY <1>1, <1>2, <1>3, PTL DEF Spec

-----------------------------------------------------------------------------
(* One token at a time *)

(* Two polls of one request run at once: a laptop's second poll overtakes   *)
(* its first, or two laptops share a fingerprint.                           *)
Polling(h) == h.pc \in {"expire", "mint", "mark"}

PollsOverlap ==
  \E p, q \in Procs :
    p # q /\ Polling(proc[p]) /\ Polling(proc[q]) /\ proc[p].id = proc[q].id

(* The good token of a request is the one its record tells of.              *)
GivenIsCurrent ==
  \A t \in Tokens, id \in Ids :
    Valid(t) /\ secrets[t].node = id => disk[id].token = t

GivenHasRequest == \A t \in Tokens : secrets[t].given => secrets[t].node \in Ids

(* Who is about to mint a token or to record it finds none in the record.   *)
WillRecord(h) == AboutToMint(h) \/ h.pc = "mark"

MintersAlone ==
  \A p \in Procs : WillRecord(proc[p]) => disk[proc[p].id].token = NoToken

SingleInv ==
  /\ TokenInv /\ DecidedHaveSecret
  /\ GivenIsCurrent /\ GivenHasRequest /\ MintersAlone

(* But for Mark, a step leaves the token of a record or takes it out where  *)
(* there is no good one, and it gives none away.                            *)
TokenRests(id) ==
  \/ disk'[id].token = disk[id].token
  \/ disk'[id].token = NoToken /\ disk[id].status \in {"absent", "pending", "expired"}

NoneGiven == \A t \in Tokens : secrets'[t].given => secrets[t].given

LEMMA OnlyMarkGives ==
  ASSUME TypeOK, [Next]_vars
  PROVE  (\E p \in Procs : Mark(p)) \/ NoneGiven
<1>0. secrets \in [Tokens -> Secrets]
  BY DEF TypeOK
<1>1. CASE secrets' = secrets
  BY <1>1 DEF NoneGiven
<1>2. ASSUME NEW p \in Procs, Mint(p)
      PROVE  NoneGiven
  <2>1. secrets' = secrets \/ \E t : secrets' = [secrets EXCEPT ![t] = Secret(proc[p].id)]
    BY <1>2 DEF Mint
  <2> QED
    BY <1>0, <1>1, <2>1 DEF NoneGiven, Secret
<1>3. \/ secrets' = secrets
      \/ \E p \in Procs : Mint(p)
      \/ \E p \in Procs : Mark(p)
  <2>1. ASSUME NEW p \in Procs, Continue(p)
        PROVE  secrets' = secrets \/ Mint(p) \/ Mark(p)
    BY <2>1 DEF Continue, AutoApproval, Expire, k8sVars
  <2>2. ASSUME NEW p \in Procs, NEW l \in Laptops, Register(p, l)
        PROVE  secrets' = secrets
    BY <2>2 DEF Register, k8sVars
  <2>3. ASSUME NEW p \in Procs, NEW id \in Ids, Poll(p, id)
        PROVE  secrets' = secrets
    BY <2>3 DEF Poll, k8sVars
  <2>4. ASSUME NEW id \in Ids, Approve(id) \/ Deny(id) \/ AgentJoins(id) \/ NodeReady(id) \/ NodeUnready(id)
        PROVE  secrets' = secrets
    BY <2>4 DEF Approve, Deny, AgentJoins, NodeReady, NodeUnready, k8sVars
  <2>5. CASE Watch \/ Crash \/ Boot \/ Tick \/ UNCHANGED vars
    BY <2>5 DEF Watch, WatcherTick, WatcherLooks, WatcherMisses, WatcherLabels, WatcherMarks,
                Crash, Boot, Tick, vars, k8sVars
  <2> QED
    BY <2>1, <2>2, <2>3, <2>4, <2>5 DEF Next
<1> QED
  BY <1>1, <1>2, <1>3

LEMMA TokensRest ==
  ASSUME "save" \notin FaultKinds, SingleInv, [Next]_vars, NEW i \in Ids
  PROVE  (\E p \in Procs : Mark(p)) \/ TokenRests(i)
<1> USE DEF SingleInv, TokenInv
<1>s. Setting
  BY DEF Inv, Setting
<1>0. nodes \in [Ids -> Records] /\ disk \in [Ids -> Records]
  BY DEF Inv, TypeOK
<1>1. CASE disk' = disk
  BY <1>1 DEF TokenRests
<1>2. ASSUME up, NEW id \in Ids, NEW ok \in BOOLEAN, Save(ok), NEW s \in Records,
             nodes' = [nodes EXCEPT ![id] = s],
             \/ s.token = nodes[id].token
             \/ s.token = NoToken /\ nodes[id].status \in {"absent", "pending", "expired"}
      PROVE  TokenRests(i)
  <2>1. disk = nodes /\ disk' = nodes'
    BY <1>2, SavesSucceed DEF FileCurrent
  <2> QED
    BY <1>0, <1>2, <2>1 DEF TokenRests
<1>3. ASSUME up, NEW id \in Ids, NEW ok \in BOOLEAN, ApproveRecord(id, ok)
      PROVE  TokenRests(i)
  <2> DEFINE s == [nodes[id] EXCEPT !.status = "approved", !.token = NoToken, !.mintedAt = 0]
  <2>1. nodes[id] \in Records /\ nodes' = [nodes EXCEPT ![id] = s] /\ Save(ok)
    BY <1>0, <1>3 DEF ApproveRecord
  <2>2. "approved" \in Statuses /\ 0 \in 0..MaxTime
    BY TimeAssumption DEF Statuses
  <2>3. s \in Records
    BY <2>1, <2>2, Zenon DEF Records
  <2>4. s.token = NoToken
    BY <2>1, SMT DEF Records
  <2>5. nodes[id].status \in {"pending", "expired"}
    BY <1>3 DEF ApproveRecord
  <2> HIDE DEF s
  <2> QED
    BY <1>2, <1>3, <2>1, <2>3, <2>4, <2>5
<1>4. ASSUME up, NEW id \in Ids, NEW ok \in BOOLEAN,
             DenyRecord(id, ok) \/ ExpireRecord(id, ok) \/ MarkJoined(id, ok)
      PROVE  TokenRests(i)
  <2>1. PICK status \in Statuses : nodes' = [nodes EXCEPT ![id].status = status] /\ Save(ok)
    BY <1>4 DEF DenyRecord, ExpireRecord, MarkJoined, Statuses
  <2> DEFINE s == [nodes[id] EXCEPT !.status = status]
  <2>2. nodes[id] \in Records /\ nodes' = [nodes EXCEPT ![id] = s]
    BY <1>0, <2>1
  <2>3. s \in Records /\ s.token = nodes[id].token
    BY <2>2 DEF Records
  <2> QED
    BY <1>2, <1>4, <2>1, <2>2, <2>3
<1>5. CASE Registers
  <2>1. up /\ disk = nodes
    BY <1>5 DEF Registers, FileCurrent
  <2>2. CASE disk' = disk
    BY <1>1, <2>2
  <2>3. ASSUME disk' = nodes', NEW id \in Unused, NEW r \in Records, r.token = NoToken,
               nodes' = [nodes EXCEPT ![id] = r]
        PROVE  TokenRests(i)
    BY <1>0, <2>1, <2>3 DEF TokenRests, Unused, Known
  <2> QED
    BY <1>5, <2>2, <2>3, RegistersOne DEF Inv
<1>6. CASE ~up \/ ~up'
  BY <1>s, <1>1, <1>6, StoreSteps DEF StoreRests, Registers, Changes, Forgets, Loads
<1>7. CASE \E p \in Procs : Continue(p)
  <2>1. PICK p \in Procs : Continue(p)
    BY <1>7
  <2>2. up /\ proc[p].id \in Ids
    BY <1>s, <2>1 DEF Continue, AutoApproval, Expire, Mint, Mark, Setting, DownIsEmpty,
                      HandlersHaveRequest, Idle
  <2>3. \/ Mark(p) \/ disk' = disk
        \/ \E ok \in BOOLEAN : ApproveRecord(proc[p].id, ok) \/ ExpireRecord(proc[p].id, ok)
    BY <2>1 DEF Continue, AutoApproval, Expire, Mint, storeVars
  <2> QED
    BY <1>1, <1>3, <1>4, <2>2, <2>3
<1>8. ASSUME NEW id \in Ids, Approve(id) \/ Deny(id)
      PROVE  TokenRests(i)
  BY <1>3, <1>4, <1>8 DEF Approve, Deny
<1>9. CASE WatcherMarks
  <2>1. up /\ watcher.id \in Ids
    BY <1>s, <1>9 DEF WatcherMarks, Setting, DownIsEmpty, WatcherFollows, Resting
  <2>2. disk' = disk \/ \E ok \in BOOLEAN : MarkJoined(watcher.id, ok)
    BY <1>9 DEF WatcherMarks, storeVars
  <2> QED
    BY <1>1, <1>4, <2>1, <2>2
<1>10. ASSUME NEW p \in Procs, NEW l \in Laptops, Register(p, l)
       PROVE  Registers \/ disk' = disk
  <2>1. CASE storeVars' = storeVars
    BY <2>1 DEF storeVars
  <2>2. ASSUME NEW id \in Draw(Unused), NEW ok \in BOOLEAN, RegisterNew(l, id, ok), byFingerprint[l] = NoId
        PROVE  Registers
    <3>1. id \in Unused
      BY <2>2 DEF Draw
    <3> QED
      BY <1>10, <2>2, <3>1 DEF Registers, Register, CanStart
  <2> QED
    BY <1>10, <2>1, <2>2 DEF Register
<1>11. ASSUME NEW p \in Procs, NEW id \in Ids, Poll(p, id)
       PROVE  disk' = disk
  BY <1>11 DEF Poll, storeVars
<1>12. ASSUME NEW id \in Ids, AgentJoins(id) \/ NodeReady(id) \/ NodeUnready(id)
       PROVE  disk' = disk
  BY <1>12 DEF AgentJoins, NodeReady, NodeUnready, storeVars
<1>13. CASE WatcherTick \/ WatcherLooks \/ WatcherMisses \/ WatcherLabels \/ Crash \/ Boot \/ Tick \/ UNCHANGED vars
  BY <1>1, <1>13 DEF WatcherTick, WatcherLooks, WatcherMisses, WatcherLabels, Crash, Boot, Tick,
                     storeVars, vars
<1> QED
  BY <1>1, <1>5, <1>7, <1>8, <1>9, <1>10, <1>11, <1>12, <1>13 DEF Next, Watch

(* What Mark does, where saves succeed.                                     *)
LEMMA MarkRecords ==
  ASSUME "save" \notin FaultKinds, SingleInv, NEW p \in Procs, Mark(p)
  PROVE  LET t == proc[p].token  id == proc[p].id IN
         /\ Polling(proc[p]) /\ WillRecord(proc[p]) /\ id \in Ids /\ t \in Tokens
         /\ secrets[t].node = id /\ disk'[id].token = t
         /\ \A i \in Ids : i # id => disk'[i] = disk[i]
         /\ \A u \in Tokens : u # t => secrets'[u] = secrets[u]
         /\ \A q \in Procs : q # p => proc'[q] = proc[q]
         /\ proc'[p] = Idle
<1>0. /\ nodes \in [Ids -> Records] /\ secrets \in [Tokens -> Secrets]
      /\ proc \in [Procs -> Handlers]
  BY DEF SingleInv, TokenInv, Inv, TypeOK
<1> DEFINE t == proc[p].token
           id == proc[p].id
<1>1. proc[p].pc = "mark"
  BY DEF Mark
<1>2. up /\ id \in Ids /\ t \in Tokens /\ secrets[t].node = id
  BY <1>1 DEF SingleInv, TokenInv, Inv, DownIsEmpty, Idle, HandlersHaveRequest, MarkersHaveSecret
<1>3. PICK ok \in BOOLEAN : MarkMinted(id, t, ok)
  BY DEF Mark
<1>4. disk = nodes /\ disk' = nodes'
  BY <1>2, <1>3, SavesSucceed DEF MarkMinted, SingleInv, TokenInv, FileCurrent
<1>5. nodes[id] \in Records
  BY <1>0, <1>2
<1>6. disk'[id].token = t /\ \A i \in Ids : i # id => disk'[i] = disk[i]
  BY <1>0, <1>2, <1>3, <1>4, <1>5 DEF MarkMinted, Records
<1>7. \A u \in Tokens : u # t => secrets'[u] = secrets[u]
  BY <1>0 DEF Mark
<1>8. proc'[p] = Idle /\ \A q \in Procs : q # p => proc'[q] = proc[q]
  BY <1>0 DEF Mark, Finish
<1> QED
  BY <1>1, <1>2, <1>6, <1>7, <1>8 DEF Polling, WillRecord

LEMMA GivenStays ==
  ASSUME "save" \notin FaultKinds, SingleInv, [Next]_vars
  PROVE  GivenIsCurrent' /\ GivenHasRequest'
<1>s. Setting /\ TypeOK /\ Inv /\ now \in Nat /\ now' \in {now, now + 1}
  <2>1. Setting /\ TypeOK /\ Inv
    BY DEF SingleInv, TokenInv, Inv, Setting
  <2> QED
    BY <2>1, TokenTypes, ClockRuns
<1>1. ASSUME NEW t \in Tokens, secrets[t].given
      PROVE  /\ secrets'[t].node = secrets[t].node /\ secrets[t].node \in Ids
             /\ Valid(t)' => Valid(t)
  <2>1. secrets[t].node \in Ids
    BY <1>1 DEF SingleInv, GivenHasRequest
  <2>2. /\ secrets'[t].node = secrets[t].node
        /\ secrets'[t].expires = secrets[t].expires
    BY <1>s, <2>1, SecretsStay, NamesAssumption
  <2>3. secrets[t].expires \in Nat
    BY <1>s, TokenTypes
  <2> QED
    BY <1>s, <1>1, <2>1, <2>2, <2>3 DEF Valid
<1>2. ASSUME NEW t \in Tokens, NEW id \in Ids, Valid(t), secrets[t].node = id, TokenRests(id)
      PROVE  disk'[id].token = t
  <2>1. disk[id].token = t
    BY <1>2 DEF SingleInv, GivenIsCurrent
  <2>2. Durable[id].status = disk[id].status
    BY <1>s DEF SingleInv, TokenInv, FileCurrent, Durable
  <2>3. disk[id].status \in Decided
    BY <1>2, <2>2 DEF SingleInv, DecidedHaveSecret, HasSecret
  <2>4. disk[id].status # "expired"
    <3>1. secrets[t].expires \in Nat
      BY <1>s, TokenTypes
    <3>2. disk[id].status = "expired" => secrets[t].expires < now
      BY <1>2 DEF SingleInv, TokenInv, SecretsEnd
    <3> QED
      BY <1>s, <1>2, <3>1, <3>2 DEF Valid
  <2> QED
    BY <1>2, <2>1, <2>3, <2>4 DEF TokenRests, Decided
<1>3. CASE (\A id \in Ids : TokenRests(id)) /\ NoneGiven
  BY <1>1, <1>2, <1>3 DEF GivenIsCurrent, GivenHasRequest, Valid, NoneGiven
<1>4. ASSUME NEW p \in Procs, Mark(p)
      PROVE  GivenIsCurrent' /\ GivenHasRequest'
  <2> DEFINE t == proc[p].token
             h == proc[p].id
  <2>1. /\ WillRecord(proc[p]) /\ h \in Ids /\ t \in Tokens
        /\ secrets[t].node = h /\ disk'[h].token = t
        /\ \A i \in Ids : i # h => disk'[i] = disk[i]
        /\ \A u \in Tokens : u # t => secrets'[u] = secrets[u]
    BY <1>4, MarkRecords
  <2>2. disk[h].token = NoToken
    BY <2>1 DEF SingleInv, MintersAlone
  <2>3. secrets'[t].node = h
    BY <1>s, <2>1, SecretsStay, NamesAssumption
  <2> HIDE DEF t, h
  <2>4. ASSUME NEW u \in Tokens, secrets'[u].given
        PROVE  /\ secrets'[u].node \in Ids
               /\ Valid(u)' => disk'[secrets'[u].node].token = u
    <3>1. CASE u = t
      BY <2>1, <2>3, <3>1
    <3>2. CASE u # t
      <4>1. secrets[u].given /\ secrets'[u] = secrets[u]
        BY <2>1, <2>4, <3>2
      <4>2. /\ secrets'[u].node = secrets[u].node /\ secrets[u].node \in Ids
            /\ Valid(u)' => Valid(u)
        BY <1>1, <4>1
      <4>3. Valid(u) => disk[secrets[u].node].token = u
        BY <4>2 DEF SingleInv, GivenIsCurrent
      <4>4. Valid(u) => secrets[u].node # h
        BY <2>2, <4>3, NamesAssumption
      <4> QED
        BY <2>1, <4>2, <4>3, <4>4
    <3> QED
      BY <3>1, <3>2
  <2> QED
    BY <2>4 DEF GivenIsCurrent, GivenHasRequest, Valid
<1> QED
  BY <1>s, <1>3, <1>4, OnlyMarkGives, TokensRest

LEMMA MintersStayAlone ==
  ASSUME "save" \notin FaultKinds, SingleInv, ~PollsOverlap, [Next]_vars
  PROVE  MintersAlone'
<1>s. Setting /\ TypeOK /\ Inv /\ FileCurrent
  BY DEF SingleInv, TokenInv, Inv, Setting
<1> SUFFICES ASSUME NEW p \in Procs, WillRecord(proc'[p])
             PROVE  disk'[proc'[p].id].token = NoToken
  BY DEF MintersAlone
<1>0. proc[p] \in Handlers
  BY <1>s DEF TypeOK
<1>1. ASSUME proc'[p].id = proc[p].id, WillRecord(proc[p])
      PROVE  disk'[proc'[p].id].token = NoToken
  <2>1. Polling(proc[p]) /\ proc[p].id \in Ids /\ disk[proc[p].id].token = NoToken
    BY <1>s, <1>1 DEF WillRecord, AboutToMint, Polling, SingleInv, MintersAlone, Inv,
                      HandlersHaveRequest
  <2>2. CASE TokenRests(proc[p].id)
    BY <1>1, <2>1, <2>2 DEF TokenRests
  <2>3. ASSUME NEW q \in Procs, Mark(q)
        PROVE  disk'[proc'[p].id].token = NoToken
    <3>1. /\ Polling(proc[q]) /\ proc'[q] = Idle
          /\ \A i \in Ids : i # proc[q].id => disk'[i] = disk[i]
      BY <2>3, MarkRecords
    <3>2. p # q
      BY <3>1 DEF WillRecord, AboutToMint, Idle
    <3>3. proc[p].id # proc[q].id
      BY <2>1, <3>1, <3>2 DEF PollsOverlap
    <3> QED
      BY <1>1, <2>1, <3>1, <3>3
  <2> QED
    BY <2>1, <2>2, <2>3, TokensRest
<1>2. CASE proc'[p] = proc[p]
  BY <1>1, <1>2
<1>3. CASE ToMint(p)
  <2>1. WillRecord(proc[p]) /\ proc'[p].id = proc[p].id
    BY <1>0, <1>3 DEF ToMint, WillRecord, AboutToMint, Handlers
  <2> QED
    BY <1>1, <2>1
<1>4. ASSUME NEW t \in Tokens, ToMark(p, t)
      PROVE  disk'[proc'[p].id].token = NoToken
  <2>1. WillRecord(proc[p]) /\ proc'[p].id = proc[p].id
    BY <1>0, <1>4 DEF ToMark, SecretMinted, WillRecord, AboutToMint, Handlers
  <2> QED
    BY <1>1, <2>1
<1>5. ASSUME NEW id \in Ids, StartsOn(p, "expire", id, nodes[id]), Known(nodes, id), nodes' = nodes
      PROVE  disk'[proc'[p].id].token = NoToken
  <2>1. proc'[p].id = id /\ nodes[id].token = NoToken
    BY <1>5 DEF StartsOn, WillRecord, AboutToMint
  <2>2. up'
    BY <1>s, DownStaysEmpty DEF DownIsEmpty, Idle, WillRecord, AboutToMint
  <2>3. disk' = nodes'
    BY <1>s, <2>2, FileStaysCurrent DEF FileCurrent
  <2> QED
    BY <1>5, <2>1, <2>3
<1>6. ASSUME NEW id \in Ids, NEW copy, StartsOn(p, "autoApprove", id, copy)
      PROVE  FALSE
  BY <1>6 DEF StartsOn, WillRecord, AboutToMint
<1>7. proc'[p] # Idle
  BY DEF Idle, WillRecord, AboutToMint
<1> QED
  BY <1>s, <1>2, <1>3, <1>4, <1>5, <1>6, <1>7, HandlerSteps DEF HandlerStep

(* What register.go:34-35 says and the code does not always do - a request  *)
(* has one good token at a time - holds for as long as no two polls of the  *)
(* request overlap: only a poll that reads the record between another's     *)
(* read and its MarkMinted (router.go 184-209) makes a second one.  A new   *)
(* approval does not, nor does a restart, an API call that fails after the  *)
(* Secret was created, or an automatic approval that comes late.            *)
THEOREM OneTokenAlone ==
  ASSUME "save" \notin FaultKinds
  PROVE  Spec /\ []~PollsOverlap => []OneTokenPerApproval
<1>1. Init => SingleInv
  <2> SUFFICES ASSUME Init PROVE SingleInv
    OBVIOUS
  <2>1. TokenInv
    <3>1. SecretsEnd
      BY NamesAssumption DEF Init, SecretsEnd, NoSecret
    <3>2. MintersAreEarly
      BY DEF Init, MintersAreEarly, AboutToMint, Idle
    <3>3. MarkedHaveToken /\ FileCurrent
      BY DEF Init, MarkedHaveToken, FileCurrent, EmptyMap, NoRecord
    <3> QED
      BY <3>1, <3>2, <3>3, InitInv DEF TokenInv
  <2>2. DecidedHaveSecret
    BY NamesAssumption DEF Init, DecidedHaveSecret, HasSecret, NoSecret
  <2>3. GivenIsCurrent /\ GivenHasRequest
    BY DEF Init, GivenIsCurrent, GivenHasRequest, Valid, NoSecret
  <2>4. MintersAlone
    BY DEF Init, MintersAlone, WillRecord, AboutToMint, Idle
  <2> QED
    BY <2>1, <2>2, <2>3, <2>4 DEF SingleInv
<1>2. SingleInv /\ ~PollsOverlap /\ [Next]_vars => SingleInv'
  <2> SUFFICES ASSUME SingleInv, ~PollsOverlap, [Next]_vars PROVE SingleInv'
    OBVIOUS
  <2>1. TokenInv'
    BY NextInv, FileStaysCurrent, SecretsEndStep, MintersEarlyStep DEF SingleInv, TokenInv
  <2>2. DecidedHaveSecret'
    BY SecretsAreDecided DEF SingleInv, TokenInv, NothingForgotten
  <2> QED
    BY <2>1, <2>2, GivenStays, MintersStayAlone DEF SingleInv
<1>3. SingleInv => OneTokenPerApproval
  BY DEF SingleInv, GivenIsCurrent, GivenHasRequest, OneTokenPerApproval, Valid
<1> QED
  BY <1>1, <1>2, <1>3, PTL DEF Spec

-----------------------------------------------------------------------------
(* A token is sent once *)

(* A response that carries a token carries it for the request it was minted *)
(* for, and no response has carried it before.                              *)
TokensAreSentOnce ==
  [][\A t \in Tokens : answer'.token = t =>
       /\ ~secrets[t].given /\ secrets'[t].given
       /\ answer'.id \in Ids /\ secrets[t].node = answer'.id]_vars

(* No two handlers are about to send the same token, nor one that was sent. *)
MarkersAreFresh ==
  \A p, q \in Procs : proc[p].pc = "mark" /\ proc[q].pc = "mark" =>
    /\ ~secrets[proc[p].token].given
    /\ proc[p].token = proc[q].token => p = q

NoMarkerAdded == \A q \in Procs : proc'[q].pc = "mark" => proc'[q] = proc[q]

Minted(p, t) ==
  /\ proc[p].pc = "mint" /\ t \in Unminted /\ secrets' = [secrets EXCEPT ![t] = Secret(proc[p].id)]
  /\ proc'[p].token = t /\ \A q \in Procs : q # p => proc'[q] = proc[q]

LEMMA MarkerSteps ==
  ASSUME Setting, [Next]_vars
  PROVE  \/ NoMarkerAdded /\ answer'.token = NoToken
         \/ \E p \in Procs, t \in Tokens : Minted(p, t) /\ answer'.token = NoToken
         \/ \E p \in Procs : Mark(p)
         \/ UNCHANGED vars
<1> DEFINE Quiet == NoMarkerAdded /\ answer'.token = NoToken
<1>0. TypeOK /\ proc \in [Procs -> Handlers]
  BY DEF Setting, TypeOK
<1>k. proc' = proc => NoMarkerAdded
  BY DEF NoMarkerAdded
<1>a. /\ Silent => answer'.token = NoToken
      /\ \A p, kind, id, status : Respond(p, kind, id, status, NoToken) => answer'.token = NoToken
  BY DEF Silent, NoAnswer, Respond
<1>f. \A p \in Procs : Finish(p) => NoMarkerAdded
  BY <1>0 DEF Finish, NoMarkerAdded, Idle
<1>s. \A p \in Procs : \A pc, id, copy : pc # "mark" /\ Start(p, pc, id, copy) => NoMarkerAdded
  BY <1>0 DEF Start, NoMarkerAdded
<1>1. ASSUME NEW p \in Procs, NEW l \in Laptops, Register(p, l)
      PROVE  Quiet
  BY <1>1, <1>k, <1>a, <1>s DEF Register
<1>2. ASSUME NEW p \in Procs, NEW id \in Ids, Poll(p, id)
      PROVE  Quiet
  BY <1>2, <1>k, <1>a, <1>s DEF Poll
<1>3. ASSUME NEW p \in Procs, AutoApproval(p)
      PROVE  Quiet
  BY <1>3, <1>a, <1>f DEF AutoApproval
<1>4. ASSUME NEW p \in Procs, Expire(p)
      PROVE  Quiet
  <2>1. PICK status : AnswerPoll(p, status)
    BY <1>4 DEF Expire
  <2>2. CASE Silent /\ proc' = [proc EXCEPT ![p].pc = "mint"]
    <3>1. proc'[p].pc = "mint" /\ \A q \in Procs : q # p => proc'[q] = proc[q]
      BY <1>0, <2>2 DEF Handlers
    <3> QED
      BY <1>a, <2>2, <3>1 DEF NoMarkerAdded
  <2>3. CASE /\ Finish(p)
             /\ \/ Respond(p, "ok", proc[p].id, status, NoToken)
                \/ Respond(p, "error", proc[p].id, "none", NoToken)
    BY <1>a, <1>f, <2>3
  <2> QED
    BY <2>1, <2>2, <2>3 DEF AnswerPoll
<1>5. ASSUME NEW p \in Procs, Mint(p)
      PROVE  Quiet \/ \E t \in Tokens : Minted(p, t) /\ answer'.token = NoToken
  <2>1. ASSUME NEW t \in Draw(Unminted), secrets' = [secrets EXCEPT ![t] = Secret(proc[p].id)],
               proc' = [proc EXCEPT ![p].pc = "mark", ![p].token = t], Silent
        PROVE  t \in Tokens /\ Minted(p, t) /\ answer'.token = NoToken
    <3>1. t \in Unminted /\ t \in Tokens
      BY <2>1 DEF Draw, Unminted
    <3>2. proc'[p].token = t /\ \A q \in Procs : q # p => proc'[q] = proc[q]
      BY <1>0, <2>1 DEF Handlers
    <3> QED
      BY <1>5, <1>a, <2>1, <3>1, <3>2 DEF Minted, Mint
  <2> QED
    BY <1>5, <1>a, <1>f, <2>1 DEF Mint
<1>6. ASSUME NEW id \in Ids, Approve(id) \/ Deny(id) \/ AgentJoins(id) \/ NodeReady(id) \/ NodeUnready(id)
      PROVE  Quiet
  BY <1>6, <1>k, <1>a DEF Approve, Deny, AgentJoins, NodeReady, NodeUnready
<1>7. CASE Watch \/ Boot \/ Tick
  BY <1>7, <1>k, <1>a DEF Watch, WatcherTick, WatcherLooks, WatcherMisses, WatcherLabels,
                          WatcherMarks, Boot, Tick
<1>8. CASE Crash
  BY <1>8, <1>a DEF Crash, NoMarkerAdded, Idle
<1> QED
  BY <1>1, <1>2, <1>3, <1>4, <1>5, <1>6, <1>7, <1>8 DEF Next, Continue

LEMMA MarkGives ==
  ASSUME Setting, NEW p \in Procs, Mark(p)
  PROVE  LET t == proc[p].token  id == proc[p].id IN
         /\ proc[p].pc = "mark" /\ id \in Ids /\ t \in Tokens /\ secrets[t].node = id
         /\ \A u \in Tokens : u # t => secrets'[u] = secrets[u]
         /\ \A q \in Procs : q # p => proc'[q] = proc[q]
         /\ proc'[p] = Idle
         /\ \/ answer'.token = NoToken
            \/ answer'.token = t /\ answer'.id = id /\ secrets'[t].given
<1>0. secrets \in [Tokens -> Secrets] /\ proc \in [Procs -> Handlers]
  BY DEF Setting, TypeOK
<1>1. /\ proc[p].pc = "mark" /\ proc[p].id \in Ids /\ proc[p].token \in Tokens
      /\ secrets[proc[p].token].node = proc[p].id
  BY DEF Mark, Setting, HandlersHaveRequest, MarkersHaveSecret
<1>2. /\ proc'[p] = Idle
      /\ \A q \in Procs : q # p => proc'[q] = proc[q]
      /\ \A u \in Tokens : u # proc[p].token => secrets'[u] = secrets[u]
  BY <1>0 DEF Mark, Finish
<1>3. \/ answer'.token = NoToken
      \/ answer'.token = proc[p].token /\ answer'.id = proc[p].id /\ secrets'[proc[p].token].given
  <2>1. CASE Respond(p, "error", proc[p].id, "none", NoToken)
    BY <2>1 DEF Respond
  <2>2. CASE Respond(p, "ok", proc[p].id, "approved", proc[p].token)
             /\ secrets' = [secrets EXCEPT ![proc[p].token].given = TRUE]
    <3>1. secrets[proc[p].token] \in Secrets
      BY <1>0, <1>1
    <3>2. [secrets[proc[p].token] EXCEPT !.given = TRUE].given = TRUE
      BY <3>1 DEF Secrets
    <3>3. secrets'[proc[p].token] = [secrets[proc[p].token] EXCEPT !.given = TRUE]
      BY <1>0, <1>1, <2>2
    <3> QED
      BY <2>2, <3>2, <3>3 DEF Respond
  <2> QED
    BY <2>1, <2>2 DEF Mark
<1> QED
  BY <1>1, <1>2, <1>3

LEMMA MarkersStayFresh ==
  ASSUME Setting, MarkersAreFresh, [Next]_vars
  PROVE  MarkersAreFresh'
<1>0. TypeOK /\ secrets \in [Tokens -> Secrets] /\ proc \in [Procs -> Handlers]
  BY DEF Setting, TypeOK
<1>m. \A p \in Procs : proc[p].pc = "mark" =>
        proc[p].token \in Tokens /\ secrets[proc[p].token].node \in Ids
  BY DEF Setting, MarkersHaveSecret, HandlersHaveRequest
<1>1. CASE NoMarkerAdded /\ NoneGiven
  BY <1>1, <1>m DEF NoMarkerAdded, NoneGiven, MarkersAreFresh
<1>2. ASSUME NEW p \in Procs, Mark(p)
      PROVE  MarkersAreFresh'
  <2>1. /\ proc[p].pc = "mark"
        /\ \A u \in Tokens : u # proc[p].token => secrets'[u] = secrets[u]
        /\ \A q \in Procs : q # p => proc'[q] = proc[q]
        /\ proc'[p].pc # "mark"
    BY <1>2, MarkGives DEF Idle
  <2> QED
    BY <1>m, <2>1 DEF MarkersAreFresh
<1>3. ASSUME NEW p \in Procs, NEW t \in Tokens, Minted(p, t)
      PROVE  MarkersAreFresh'
  <2>1. \A q \in Procs : proc[q].pc = "mark" => proc[q].token # t
    BY <1>m, <1>3, NamesAssumption DEF Minted, Unminted, NoSecret
  <2>2. ~secrets'[t].given /\ \A u \in Tokens : u # t => secrets'[u] = secrets[u]
    BY <1>0, <1>3 DEF Minted, Secret
  <2> QED
    BY <1>m, <1>3, <2>1, <2>2 DEF Minted, MarkersAreFresh
<1>4. CASE UNCHANGED vars
  BY <1>4 DEF vars, MarkersAreFresh
<1> QED
  BY <1>0, <1>1, <1>2, <1>3, <1>4, MarkerSteps, OnlyMarkGives

(* Every token is sent in one response only, and to the request it was      *)
(* minted for (register.go:34-35, read of the token), whatever polls        *)
(* overlap, whichever save fails and wherever the panel restarts: MintToken *)
(* draws it for one handler, which sends it as its last act (router.go      *)
(* 200-217).                                                                *)
THEOREM SentOnce == Spec => TokensAreSentOnce
<1> DEFINE Once == \A t \in Tokens : answer'.token = t =>
              /\ ~secrets[t].given /\ secrets'[t].given
              /\ answer'.id \in Ids /\ secrets[t].node = answer'.id
<1>1. Init => MarkersAreFresh
  BY DEF Init, MarkersAreFresh, Idle
<1>2. Inv /\ MarkersAreFresh /\ [Next]_vars => MarkersAreFresh'
  BY MarkersStayFresh DEF Inv, Setting
<1>3. ASSUME Inv, MarkersAreFresh, [Next]_vars
      PROVE  [Once]_vars
  <2>0. Setting
    BY <1>3 DEF Inv, Setting
  <2>1. CASE answer'.token = NoToken
    BY <2>1, NamesAssumption
  <2>2. ASSUME NEW p \in Procs, Mark(p)
        PROVE  Once
    <3>1. /\ proc[p].pc = "mark" /\ proc[p].id \in Ids /\ secrets[proc[p].token].node = proc[p].id
          /\ \/ answer'.token = NoToken
             \/ /\ answer'.token = proc[p].token /\ answer'.id = proc[p].id
                /\ secrets'[proc[p].token].given
      BY <2>0, <2>2, MarkGives
    <3>2. ~secrets[proc[p].token].given
      BY <1>3, <3>1 DEF MarkersAreFresh
    <3> QED
      BY <3>1, <3>2, NamesAssumption
  <2> QED
    BY <1>3, <2>0, <2>1, <2>2, MarkerSteps
<1> QED
  BY <1>1, <1>2, <1>3, Invariant, PTL DEF Spec, TokensAreSentOnce

-----------------------------------------------------------------------------
(* A node request is short *)

(* How many steps of its own a handler has left, at most.                   *)
StepsLeft(h) ==
  CASE h.pc = "expire" -> 3
    [] h.pc = "mint"   -> 2
    [] h.pc \in {"mark", "autoApprove"} -> 1
    [] OTHER           -> 0

(* A handler rests, begins, goes on with the same request, or ends.         *)
Advances(p) ==
  \/ proc'[p] = proc[p] \/ proc'[p] = Idle
  \/ proc[p].pc = "idle" /\ proc'[p].began = now
  \/ /\ StepsLeft(proc'[p]) < StepsLeft(proc[p])
     /\ proc'[p].id = proc[p].id /\ proc'[p].began = proc[p].began

GoesOn(p) == Continue(p) => proc'[p] # proc[p]

(* No handler that runs stays at its call or goes back.                     *)
NodeRequestsAdvance == [][\A p \in Procs : Advances(p) /\ GoesOn(p)]_vars

LEMMA NodeHandlerMoves ==
  ASSUME TypeOK, NEW p \in Procs, Continue(p)
  PROVE  proc'[p] # proc[p]
<1>0. proc \in [Procs -> Handlers] /\ proc[p].pc # "idle"
  BY DEF TypeOK, Continue, AutoApproval, Expire, Mint, Mark
<1>1. ASSUME Finish(p)
      PROVE  proc'[p] # proc[p]
  BY <1>0, <1>1 DEF Finish, Idle
<1>2. ASSUME NEW pc, pc # proc[p].pc, proc' = [proc EXCEPT ![p].pc = pc]
      PROVE  proc'[p] # proc[p]
  <2>1. proc'[p].pc = pc
    BY <1>0, <1>2 DEF Handlers
  <2> QED
    BY <1>2, <2>1
<1>3. ASSUME NEW pc, NEW t, pc # proc[p].pc,
             proc' = [proc EXCEPT ![p].pc = pc, ![p].token = t]
      PROVE  proc'[p] # proc[p]
  <2>1. proc'[p].pc = pc
    BY <1>0, <1>3 DEF Handlers
  <2> QED
    BY <1>3, <2>1
<1>4. CASE AutoApproval(p) \/ Mark(p)
  BY <1>1, <1>4 DEF AutoApproval, Mark
<1>5. CASE Expire(p)
  BY <1>1, <1>2, <1>5 DEF Expire, AnswerPoll
<1>6. CASE Mint(p)
  BY <1>1, <1>3, <1>6 DEF Mint
<1> QED
  BY <1>4, <1>5, <1>6 DEF Continue

(* A poll and a registration end after three steps of their own at the      *)
(* most, whatever fails: no handler of /api/nodes waits or retries          *)
(* (router.go 150-223), so that what must happen in the end rests on the    *)
(* scheduler and on whoever polls, approves and joins.                      *)
THEOREM NodeRequestsAreShort == Spec => NodeRequestsAdvance
<1>1. ASSUME Inv, [Next]_vars
      PROVE  \A p \in Procs : Advances(p)
  <2> SUFFICES ASSUME NEW p \in Procs, proc'[p] # proc[p], proc'[p] # Idle, proc[p].pc # "idle"
               PROVE  /\ StepsLeft(proc'[p]) < StepsLeft(proc[p])
                      /\ proc'[p].id = proc[p].id /\ proc'[p].began = proc[p].began
    <3>1. ASSUME NEW p \in Procs, proc[p].pc = "idle", proc'[p] # proc[p], proc'[p] # Idle
          PROVE  proc'[p].began = now
      <4>1. HandlerStep(p)
        BY <1>1, HandlerSteps DEF Inv, Setting
      <4>2. ~ToMint(p) /\ \A t \in Tokens : ~ToMark(p, t)
        BY <3>1 DEF ToMint, ToMark, SecretMinted
      <4>3. \A pc, id, copy : StartsOn(p, pc, id, copy) => proc'[p].began = now
        BY DEF StartsOn
      <4> QED
        BY <3>1, <4>1, <4>2, <4>3 DEF HandlerStep
    <3> QED
      BY <3>1 DEF Advances
  <2>0. proc[p] \in Handlers
    BY <1>1 DEF Inv, TypeOK
  <2>1. HandlerStep(p)
    BY <1>1, HandlerSteps DEF Inv, Setting
  <2>2. CASE ToMint(p)
    <3>1. /\ proc[p].pc = "expire" /\ proc'[p].pc = "mint"
          /\ proc'[p].id = proc[p].id /\ proc'[p].began = proc[p].began
      BY <2>0, <2>2 DEF ToMint, Handlers
    <3> QED
      BY <3>1 DEF StepsLeft
  <2>3. ASSUME NEW t \in Tokens, ToMark(p, t)
        PROVE  /\ StepsLeft(proc'[p]) < StepsLeft(proc[p])
               /\ proc'[p].id = proc[p].id /\ proc'[p].began = proc[p].began
    <3>1. /\ proc[p].pc = "mint" /\ proc'[p].pc = "mark"
          /\ proc'[p].id = proc[p].id /\ proc'[p].began = proc[p].began
      BY <2>0, <2>3 DEF ToMark, SecretMinted, Handlers
    <3> QED
      BY <3>1 DEF StepsLeft
  <2> QED
    BY <2>1, <2>2, <2>3 DEF HandlerStep, StartsOn
<1>2. ASSUME Inv, [Next]_vars
      PROVE  \A p \in Procs : GoesOn(p)
  BY <1>2, NodeHandlerMoves DEF GoesOn, Inv
<1>3. Inv /\ [Next]_vars => [\A p \in Procs : Advances(p) /\ GoesOn(p)]_vars
  BY <1>1, <1>2
<1> QED
  BY <1>3, Invariant, PTL DEF Spec, NodeRequestsAdvance

-----------------------------------------------------------------------------
(* What the life cycle is worth *)

(* A credential is of a request that was approved, and stays so.            *)
CredentialsAreOfApproved == \A id \in Credentials : StatusTable[id] \in Decided

(* What a step may do to a request that a laptop has a credential for, or   *)
(* has none for (own).                                                      *)
Keeps(own, old, new) ==
  /\ old \in {"denied", "joined"} => new = old
  /\ old \in Decided => new \in Decided
  /\ old # "unknown" => new # "unknown"
  /\ new = "joined" /\ old # "joined" => old = "approved" /\ own

RequestsFollow ==
  [][\A id \in Ids : Keeps(id \in Credentials, StatusTable[id], StatusTable'[id])
    ]_<<StatusTable, Credentials>>

(* What the refinement is for: a store that implements NodeLifecycle gives  *)
(* credentials for approved requests only, never reopens a denial or takes  *)
(* back an approval or a host, and makes nobody a host who had none.        *)
THEOREM LifecyclePromise ==
  ImplementsLifecycle => []CredentialsAreOfApproved /\ RequestsFollow
<1> DEFINE Typed == /\ StatusTable \in [Ids -> Statuses \cup {"unknown"}]
                    /\ Credentials \subseteq Ids
           Good == Typed /\ CredentialsAreOfApproved
           Follow == \A id \in Ids :
                       Keeps(id \in Credentials, StatusTable[id], StatusTable'[id])
<1>1. Lifecycle!Init => Good
  BY DEF Lifecycle!Init, CredentialsAreOfApproved
<1>2. ASSUME Good, [Lifecycle!Next]_<<StatusTable, Credentials>>
      PROVE  Good' /\ [Follow]_<<StatusTable, Credentials>>
  <2>1. CASE UNCHANGED <<StatusTable, Credentials>>
    BY <1>2, <2>1 DEF CredentialsAreOfApproved
  <2>2. ASSUME NEW id \in Ids, NEW from, NEW to, Lifecycle!Become(id, from, to),
               to \in Statuses, Keeps(id \in Credentials, StatusTable[id], to)
        PROVE  Good' /\ Follow
    <3>1. /\ Typed' /\ Credentials' = Credentials /\ StatusTable'[id] = to
          /\ \A i \in Ids : i # id => StatusTable'[i] = StatusTable[i]
      BY <1>2, <2>2 DEF Lifecycle!Become
    <3>2. CredentialsAreOfApproved'
      BY <1>2, <2>2, <3>1 DEF CredentialsAreOfApproved, Keeps
    <3>3. Follow
      BY <2>2, <3>1 DEF Keeps
    <3> QED
      BY <3>1, <3>2, <3>3
  <2>3. ASSUME NEW id \in Ids, Lifecycle!Give(id)
        PROVE  Good' /\ Follow
    <3>1. /\ StatusTable' = StatusTable /\ Credentials' = Credentials \cup {id}
          /\ StatusTable[id] \in Decided
      BY <2>3 DEF Lifecycle!Give, Decided
    <3> QED
      BY <1>2, <3>1 DEF CredentialsAreOfApproved, Keeps
  <2>4. ASSUME NEW id \in Ids,
               Lifecycle!Request(id) \/ Lifecycle!Approve(id) \/ Lifecycle!Deny(id)
                 \/ Lifecycle!Expire(id) \/ Lifecycle!Join(id)
        PROVE  \E from, to : /\ Lifecycle!Become(id, from, to) /\ to \in Statuses
                             /\ Keeps(id \in Credentials, StatusTable[id], to)
    <3>1. CASE Lifecycle!Request(id)
      <4>1. Lifecycle!Become(id, {"unknown"}, "pending")
        BY <3>1 DEF Lifecycle!Request
      <4>2. Keeps(id \in Credentials, StatusTable[id], "pending") /\ "pending" \in Statuses
        BY <4>1 DEF Lifecycle!Become, Keeps, Decided, Statuses
      <4> QED
        BY <4>1, <4>2
    <3>2. CASE Lifecycle!Approve(id)
      <4>1. Lifecycle!Become(id, {"pending", "expired"}, "approved")
        BY <3>2 DEF Lifecycle!Approve
      <4>2. Keeps(id \in Credentials, StatusTable[id], "approved") /\ "approved" \in Statuses
        BY <4>1 DEF Lifecycle!Become, Keeps, Decided, Statuses
      <4> QED
        BY <4>1, <4>2
    <3>3. CASE Lifecycle!Deny(id)
      <4>1. Lifecycle!Become(id, {"pending"}, "denied")
        BY <3>3 DEF Lifecycle!Deny
      <4>2. Keeps(id \in Credentials, StatusTable[id], "denied") /\ "denied" \in Statuses
        BY <4>1 DEF Lifecycle!Become, Keeps, Decided, Statuses
      <4> QED
        BY <4>1, <4>2
    <3>4. CASE Lifecycle!Expire(id)
      BY <3>4 DEF Lifecycle!Expire, Lifecycle!Become, Statuses, Keeps, Decided
    <3>5. CASE Lifecycle!Join(id)
      BY <3>5 DEF Lifecycle!Join, Lifecycle!Become, Statuses, Keeps, Decided
    <3> QED
      BY <2>4, <3>1, <3>2, <3>3, <3>4, <3>5
  <2> QED
    BY <1>2, <2>1, <2>2, <2>3, <2>4 DEF Lifecycle!Next
<1>3. Good => CredentialsAreOfApproved
  OBVIOUS
<1> HIDE DEF Good, Follow
<1>4. ImplementsLifecycle =>
        []CredentialsAreOfApproved /\ [][Follow]_<<StatusTable, Credentials>>
  BY <1>1, <1>2, <1>3, PTL DEF ImplementsLifecycle, Lifecycle!Spec, Lifecycle!lifecycle
<1> QED
  BY <1>4 DEF RequestsFollow, Follow
=============================================================================
