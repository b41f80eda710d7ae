--------------------------- MODULE NodeOnboarding ---------------------------
(***************************************************************************)
(* The server side of host onboarding: the store of join requests          *)
(* (internal/nodes/store.go), the handlers of /api/nodes                   *)
(* (internal/httpapi/router.go, 133-283), the bootstrap tokens they mint   *)
(* (internal/nodes/tokens.go) and the watcher that labels joined laptops   *)
(* (internal/nodes/watcher.go).                                            *)
(*                                                                         *)
(* The store has one lock and one file, written to a temporary file and    *)
(* renamed; a locked section is one step.  A poll takes the lock up to     *)
(* three times, around a call to the Kubernetes API, and works on the copy *)
(* of the record it read first; the watcher works on a copy of the list.   *)
(*                                                                         *)
(* Kubernetes is external: the bootstrap-token Secrets with their expiry,  *)
(* the cluster nodes with their Ready condition, and the host label.       *)
(***************************************************************************)
EXTENDS Naturals, FiniteSets

CONSTANTS
  Laptops,      (* fingerprints: a laptop with the hardware it reports      *)
  Ids,          (* join request ids, drawn by newID                         *)
  Tokens,       (* bootstrap tokens, drawn by randToken                     *)
  Procs,        (* concurrently running HTTP request handlers               *)
  NoLaptop, NoId, NoToken,
  TokenTTL,     (* life of a token, in ticks of the clock                   *)
  MaxTime,      (* bound on the clock                                       *)
  AllDraws,     (* explore every random draw, not one: a bound of the model *)
  Settings,     (* environments the panel may run in, see Environments      *)
  FaultKinds,   (* what may go wrong: a subset of AllFaults                 *)
  MaxFaults     (* bound on how often something does                        *)

ASSUME NamesAssumption ==
  NoLaptop \notin Laptops /\ NoId \notin Ids /\ NoToken \notin Tokens

ASSUME TimeAssumption == TokenTTL \in Nat \ {0} /\ MaxTime \in Nat \ {0}

(* A save that fails, a failing call to the Kubernetes API, a crash of the  *)
(* control panel, a cluster node that stops being ready, a call a client    *)
(* gives up on (in HostOnboarding, which models the clients).               *)
AllFaults == {"save", "api", "crash", "node", "lost"}

ASSUME FaultsAssumption == FaultKinds \subseteq AllFaults /\ MaxFaults \in Nat

(* AUTO_APPROVE is true; K3S_JOIN_URL is set; the panel runs in a cluster:  *)
(* without one it has neither a minter nor a watcher (main.go, 47-78).      *)
Environments == [autoApprove : BOOLEAN, joinURL : BOOLEAN, inCluster : BOOLEAN]

ASSUME SettingsAssumption == Settings \subseteq Environments /\ AllDraws \in BOOLEAN

Statuses == {"pending", "approved", "denied", "joined", "expired"}

(* "absent" stands for an id that is no key; mintedAt 0 is the zero time.   *)
Records ==
  [laptop : Laptops \cup {NoLaptop}, status : Statuses \cup {"absent"},
   token : Tokens \cup {NoToken}, mintedAt : 0..MaxTime]

NoRecord == [laptop |-> NoLaptop, status |-> "absent", token |-> NoToken,
             mintedAt |-> 0]
EmptyMap == [id \in Ids |-> NoRecord]
Secrets == [node : Ids \cup {NoId}, expires : 0..(MaxTime + TokenTTL),
            given : BOOLEAN]

NoSecret == [node |-> NoId, expires |-> 0, given |-> FALSE]

VARIABLES
  nodes,          (* Store.nodes                                            *)
  byFingerprint,  (* Store.byFingerprint                                    *)
  disk,           (* nodes.json                                             *)
  secrets,        (* per token: the request it was minted for, its expiry,  *)
                  (* and whether a response has carried it to the laptop    *)
  cluster,        (* the cluster node of each request: none, unready, ready *)
  labelled,       (* the requests whose cluster node has the host label     *)
  proc,           (* the request handlers                                   *)
  answer,         (* the response the last step sent, if it sent one        *)
  watcher,        (* the watcher's tick: what it has yet to look at, and    *)
                  (* the record it is labelling or marking                  *)
  up,             (* the control panel runs                                 *)
  env,            (* its environment                                        *)
  now,            (* the clock                                              *)
  faults          (* how often something has gone wrong, to bound it        *)

storeVars == <<nodes, byFingerprint, disk>>
k8sVars   == <<secrets, cluster, labelled>>
httpVars  == <<proc, answer>>
vars == <<nodes, byFingerprint, disk, secrets, cluster, labelled, proc, answer,
          watcher, up, env, now, faults>>

Fault(kind) ==
  /\ kind \in FaultKinds /\ faults < MaxFaults
  /\ faults' = faults + 1

NoFault == UNCHANGED faults

-----------------------------------------------------------------------------
(* The store.  Each operator is the locked section of the method it is      *)
(* named after; ok tells whether its save succeeded.                        *)

Known(map, id) == map[id].status # "absent"

(* saveLocked: a failed write or rename leaves the old file in place.       *)
Save(ok) ==
  /\ IF ok THEN NoFault ELSE Fault("save")
  /\ disk' = IF ok THEN nodes' ELSE disk

(* Mutant: the index entry is not rolled back.                              *)
RegisterNew_KeepsEntry(l, id, ok) ==
  /\ nodes' = IF ok THEN [nodes EXCEPT ![id] =
                            [laptop |-> l, status |-> "pending",
                             token |-> NoToken, mintedAt |-> 0]]
              ELSE nodes
  /\ byFingerprint' = [byFingerprint EXCEPT ![l] = id]
  /\ Save(ok)

(* Register of a fingerprint that is not known: rolled back if not saved.   *)
RegisterNew(l, id, ok) ==
  /\ nodes' = IF ok THEN [nodes EXCEPT ![id] =
                            [laptop |-> l, status |-> "pending",
                             token |-> NoToken, mintedAt |-> 0]]
              ELSE nodes
  /\ byFingerprint' = IF ok THEN [byFingerprint EXCEPT ![l] = id]
                      ELSE byFingerprint
  /\ Save(ok)

(* Mutant: a renewed approval keeps the token of the one before.            *)
ApproveRecord_KeepsToken(id, ok) ==
  /\ nodes[id].status \in {"pending", "expired"}
  /\ nodes' = [nodes EXCEPT ![id].status = "approved"]
  /\ Save(ok) /\ UNCHANGED byFingerprint

ApproveRecord(id, ok) ==
  /\ nodes[id].status \in {"pending", "expired"}
  /\ nodes' = [nodes EXCEPT ![id].status = "approved", ![id].token = NoToken,
                            ![id].mintedAt = 0]
  /\ Save(ok) /\ UNCHANGED byFingerprint

(* Mutant: an approved request can still be denied.                         *)
DenyRecord_Late(id, ok) ==
  /\ nodes[id].status \in {"pending", "approved"}
  /\ nodes' = [nodes EXCEPT ![id].status = "denied"]
  /\ Save(ok) /\ UNCHANGED byFingerprint

DenyRecord(id, ok) ==
  /\ nodes[id].status = "pending"
  /\ nodes' = [nodes EXCEPT ![id].status = "denied"]
  /\ Save(ok) /\ UNCHANGED byFingerprint

(* Mutant: the expiry is stored for the time of the mint.                   *)
MarkMinted_StoresExpiry(id, t, ok) ==
  /\ nodes' = [nodes EXCEPT ![id].token = t, ![id].mintedAt = now + TokenTTL]
  /\ Save(ok) /\ UNCHANGED byFingerprint

(* MarkMinted does not look at the status.                                  *)
MarkMinted(id, t, ok) ==
  /\ nodes' = [nodes EXCEPT ![id].token = t, ![id].mintedAt = now]
  /\ Save(ok) /\ UNCHANGED byFingerprint

(* Mutant: the status is not checked.                                       *)
MarkJoined_Unchecked(id, ok) ==
  /\ nodes' = [nodes EXCEPT ![id].status = "joined"]
  /\ Save(ok) /\ UNCHANGED byFingerprint

MarkJoined(id, ok) ==
  /\ nodes[id].status = "approved"
  /\ nodes' = [nodes EXCEPT ![id].status = "joined"]
  /\ Save(ok) /\ UNCHANGED byFingerprint

(* Mutant: the record expires while its token is still good.                *)
Elapsed_Early(id) ==
  /\ nodes[id].status = "approved" /\ nodes[id].mintedAt # 0
  /\ now - nodes[id].mintedAt >= TokenTTL - 1

Elapsed(id) ==
  /\ nodes[id].status = "approved" /\ nodes[id].mintedAt # 0
  /\ now - nodes[id].mintedAt > TokenTTL

ExpireRecord(id, ok) ==
  /\ Elapsed(id)
  /\ nodes' = [nodes EXCEPT ![id].status = "expired"]
  /\ Save(ok) /\ UNCHANGED byFingerprint

-----------------------------------------------------------------------------
(* Request handlers *)

(* A handler's copy of the record: its status and its token, which becomes  *)
(* the one it mints; and when the request began.                            *)
Idle == [pc |-> "idle", id |-> NoId, status |-> "none", token |-> NoToken,
         began |-> 0]

Handlers ==
  [pc : {"idle", "autoApprove", "expire", "mint", "mark"}, id : Ids \cup {NoId},
   status : Statuses \cup {"none"}, token : Tokens \cup {NoToken},
   began : 0..MaxTime]

(* What a response tells: the id of a registration, the status, the token.  *)
NoAnswer == [to |-> "nobody", kind |-> "none", id |-> NoId, status |-> "none",
             token |-> NoToken]

Respond(p, kind, id, status, token) ==
  answer' = [to |-> p, kind |-> kind, id |-> id, status |-> status, token |-> token]

Silent == answer' = NoAnswer

CanStart(p) == up /\ proc[p].pc = "idle"
Start(p, pc, id, copy) ==
  proc' = [proc EXCEPT ![p] = [pc |-> pc, id |-> id, status |-> copy.status,
                               token |-> copy.token, began |-> now]]
Finish(p) == proc' = [proc EXCEPT ![p] = Idle]

(* A random draw from what is unused: it does not matter which.             *)
Draw(S) == IF AllDraws \/ S = {} THEN S ELSE {CHOOSE x \in S : TRUE}

Unused   == {id \in Ids : ~Known(nodes, id) /\ ~Known(disk, id)}
Unminted == {t \in Tokens : secrets[t] = NoSecret}

(* POST /api/nodes/register.  A known fingerprint gets its record back; a   *)
(* new one is saved, and approved in a second locked section if the panel   *)
(* is set to approve by itself.                                             *)
Register(p, l) ==
  /\ CanStart(p)
  /\ \/ LET id == byFingerprint[l] IN
        /\ id # NoId
        /\ Respond(p, "ok", id, nodes[id].status, NoToken)
        /\ NoFault /\ UNCHANGED <<storeVars, proc>>
     \/ /\ byFingerprint[l] = NoId
        /\ \E id \in Draw(Unused), ok \in BOOLEAN :
             /\ RegisterNew(l, id, ok)
             /\ IF ~ok
                THEN Respond(p, "error", NoId, "none", NoToken) /\ UNCHANGED proc
                ELSE IF env.autoApprove
                THEN Silent /\ Start(p, "autoApprove", id, nodes'[id])
                ELSE Respond(p, "ok", id, "pending", NoToken) /\ UNCHANGED proc
  /\ UNCHANGED <<k8sVars, watcher, up, env, now>>

(* The automatic approval.  If an operator was faster, Approve returns an   *)
(* empty Node, and the laptop is answered with an empty id.                 *)
AutoApproval(p) ==
  LET id == proc[p].id IN
  /\ proc[p].pc = "autoApprove"
  /\ \/ \E ok \in BOOLEAN :
          ApproveRecord(id, ok) /\ Respond(p, "ok", id, "approved", NoToken)
     \/ /\ nodes[id].status \notin {"pending", "expired"}
        /\ Respond(p, "ok", NoId, "none", NoToken)
        /\ NoFault /\ UNCHANGED storeVars
  /\ Finish(p) /\ UNCHANGED <<k8sVars, watcher, up, env, now>>

(* GET /api/nodes/{id}: Get, the copy the handler works on.                 *)
Poll(p, id) ==
  /\ CanStart(p)
  /\ IF Known(nodes, id)
     THEN Silent /\ Start(p, "expire", id, nodes[id])
     ELSE Respond(p, "error", id, "none", NoToken) /\ UNCHANGED proc
  /\ NoFault /\ UNCHANGED <<storeVars, k8sVars, watcher, up, env, now>>

(* The switch on the copy's status: only an approved copy without a token   *)
(* goes on to mint one, and only where there is a minter.                   *)
AnswerPoll(p, status) ==
  IF status = "approved" /\ ~env.inCluster
  THEN Respond(p, "error", proc[p].id, "none", NoToken) /\ Finish(p)
  ELSE IF status = "approved" /\ proc[p].token = NoToken
  THEN Silent /\ proc' = [proc EXCEPT ![p].pc = "mint"]
  ELSE Respond(p, "ok", proc[p].id, status, NoToken) /\ Finish(p)

(* ExpireIfElapsed; the copy is updated if that changed and was saved.      *)
Expire(p) ==
  LET id == proc[p].id IN
  /\ proc[p].pc = "expire"
  /\ \/ \E ok \in BOOLEAN :
          /\ ExpireRecord(id, ok)
          /\ AnswerPoll(p, IF ok THEN "expired" ELSE proc[p].status)
     \/ /\ ~Elapsed(id) /\ AnswerPoll(p, proc[p].status)
        /\ NoFault /\ UNCHANGED storeVars
  /\ UNCHANGED <<k8sVars, watcher, up, env, now>>

(* MintToken creates the Secret and then reads the cluster CA; a failure    *)
(* may come before or after the Secret was created.  A request is given up  *)
(* by its client, and its context with it, long before a tick is over; that *)
(* Tokens may run out is a bound of the model.                              *)
Secret(id) == [node |-> id, expires |-> now + TokenTTL, given |-> FALSE]

Mint(p) ==
  LET id == proc[p].id IN
  /\ proc[p].pc = "mint"
  /\ \/ /\ now = proc[p].began
        /\ \E t \in Draw(Unminted) :
             /\ secrets' = [secrets EXCEPT ![t] = Secret(id)]
             /\ \/ /\ proc' = [proc EXCEPT ![p].pc = "mark", ![p].token = t]
                   /\ Silent /\ NoFault
                \/ /\ Fault("api") /\ Finish(p)
                   /\ Respond(p, "error", id, "none", NoToken)
     \/ /\ \/ Fault("api")
           \/ (now # proc[p].began \/ Unminted = {}) /\ NoFault
        /\ Finish(p) /\ Respond(p, "error", id, "none", NoToken)
        /\ UNCHANGED secrets
  /\ UNCHANGED <<storeVars, cluster, labelled, watcher, up, env, now>>

(* MarkMinted, whose error is only logged, and the response: without a join *)
(* URL the token is withheld, with it it is in this response and no other.  *)
Mark(p) ==
  LET h == proc[p] IN
  /\ h.pc = "mark"
  /\ \E ok \in BOOLEAN : MarkMinted(h.id, h.token, ok)
  /\ IF env.joinURL
     THEN /\ Respond(p, "ok", h.id, "approved", h.token)
          /\ secrets' = [secrets EXCEPT ![h.token].given = TRUE]
     ELSE Respond(p, "error", h.id, "none", NoToken) /\ UNCHANGED secrets
  /\ Finish(p) /\ UNCHANGED <<cluster, labelled, watcher, up, env, now>>

(* POST /api/nodes/{id}/approve and .../deny: one locked section each; a    *)
(* request in another status is refused.                                    *)
Approve(id) ==
  /\ up /\ \E ok \in BOOLEAN : ApproveRecord(id, ok)
  /\ Silent /\ UNCHANGED <<k8sVars, proc, watcher, up, env, now>>

Deny(id) ==
  /\ up /\ \E ok \in BOOLEAN : DenyRecord(id, ok)
  /\ Silent /\ UNCHANGED <<k8sVars, proc, watcher, up, env, now>>

Continue(p) == AutoApproval(p) \/ Expire(p) \/ Mint(p) \/ Mark(p)

-----------------------------------------------------------------------------
(* The watcher *)

Resting == [pc |-> "rest", id |-> NoId, list |-> {}]

Watchers == [pc : {"rest", "look", "label", "mark"}, id : Ids \cup {NoId},
             list : SUBSET Ids]

(* RunOnce goes over the approved records of its copy of the list, in map   *)
(* order.                                                                   *)
WatcherTick ==
  /\ up /\ env.inCluster /\ watcher.pc = "rest"
  /\ LET list == {id \in Ids : nodes[id].status = "approved"} IN
     /\ list # {}
     /\ watcher' = [pc |-> "look", id |-> NoId, list |-> list]
  /\ Silent /\ NoFault /\ UNCHANGED <<storeVars, k8sVars, proc, up, env, now>>

(* Mutants: the label is left to the agent; a node that is not there yet    *)
(* ends the tick.                                                           *)
WatcherLooks_SkipsLabel ==
  /\ watcher.pc = "look"
  /\ \E id \in watcher.list :
       LET rest == watcher.list \ {id} IN
       watcher' = IF cluster[id] = "ready"
                  THEN [pc |-> "mark", id |-> id, list |-> rest]
                  ELSE IF rest = {} THEN Resting
                  ELSE [pc |-> "look", id |-> NoId, list |-> rest]
  /\ Silent /\ NoFault /\ UNCHANGED <<storeVars, k8sVars, proc, up, env, now>>
WatcherLooks_Aborts ==
  /\ watcher.pc = "look"
  /\ \E id \in watcher.list :
       watcher' = IF cluster[id] = "ready"
                  THEN [pc |-> "label", id |-> id, list |-> watcher.list \ {id}]
                  ELSE Resting
  /\ Silent /\ NoFault /\ UNCHANGED <<storeVars, k8sVars, proc, up, env, now>>

(* Its next record: a node that is missing or not ready, or an API error,   *)
(* is left for the next tick.                                               *)
WatcherLooks ==
  /\ watcher.pc = "look"
  /\ \E id \in watcher.list :
       LET rest == watcher.list \ {id} IN
       watcher' = IF cluster[id] = "ready"
                  THEN [pc |-> "label", id |-> id, list |-> rest]
                  ELSE IF rest = {} THEN Resting
                  ELSE [pc |-> "look", id |-> NoId, list |-> rest]
  /\ Silent /\ NoFault /\ UNCHANGED <<storeVars, k8sVars, proc, up, env, now>>

WatcherMisses ==
  /\ watcher.pc = "look" /\ Fault("api")
  /\ \E id \in watcher.list :
       watcher' = IF watcher.list = {id} THEN Resting
                  ELSE [watcher EXCEPT !.list = @ \ {id}]
  /\ Silent /\ UNCHANGED <<storeVars, k8sVars, proc, up, env, now>>

(* The patch; an error ends the whole tick.                                 *)
WatcherLabels ==
  /\ watcher.pc = "label"
  /\ \/ /\ labelled' = labelled \cup {watcher.id} /\ NoFault
        /\ watcher' = [watcher EXCEPT !.pc = "mark"]
     \/ Fault("api") /\ watcher' = Resting /\ UNCHANGED labelled
  /\ Silent /\ UNCHANGED <<storeVars, secrets, cluster, proc, up, env, now>>

(* MarkJoined; an error, also one of the save, ends the tick.               *)
WatcherMarks ==
  LET Done == IF watcher.list = {} THEN Resting
              ELSE [pc |-> "look", id |-> NoId, list |-> watcher.list]
  IN
  /\ watcher.pc = "mark"
  /\ \/ MarkJoined(watcher.id, TRUE) /\ watcher' = Done
     \/ MarkJoined(watcher.id, FALSE) /\ watcher' = Resting
     \/ /\ nodes[watcher.id].status # "approved" /\ watcher' = Resting
        /\ NoFault /\ UNCHANGED storeVars
  /\ Silent /\ UNCHANGED <<k8sVars, proc, up, env, now>>

Watch == WatcherTick \/ WatcherLooks \/ WatcherMisses \/ WatcherLabels \/ WatcherMarks

-----------------------------------------------------------------------------
(* The process, the clock, and the cluster *)

(* byFingerprint after NewStore has loaded the file.                        *)
FingerprintsOf(map) ==
  [l \in Laptops |->
     IF \E id \in Ids : Known(map, id) /\ map[id].laptop = l
     THEN CHOOSE id \in Ids : Known(map, id) /\ map[id].laptop = l
     ELSE NoId]

Crash ==
  /\ up /\ Fault("crash") /\ up' = FALSE
  /\ nodes' = EmptyMap /\ byFingerprint' = [l \in Laptops |-> NoId]
  /\ proc' = [p \in Procs |-> Idle] /\ watcher' = Resting
  /\ Silent /\ UNCHANGED <<disk, k8sVars, env, now>>

Boot ==
  /\ ~up /\ up' = TRUE
  /\ nodes' = disk /\ byFingerprint' = FingerprintsOf(disk)
  /\ Silent /\ NoFault /\ UNCHANGED <<disk, k8sVars, proc, watcher, env, now>>

Tick ==
  /\ now < MaxTime /\ now' = now + 1
  /\ Silent /\ NoFault /\ UNCHANGED <<storeVars, k8sVars, proc, watcher, up, env>>

(* A token that was sent to a laptop and has not expired admits its node.   *)
Valid(t) == secrets[t].given /\ now <= secrets[t].expires

AgentJoins(id) ==
  /\ cluster[id] = "none"
  /\ \E t \in Tokens : Valid(t) /\ secrets[t].node = id
  /\ cluster' = [cluster EXCEPT ![id] = "unready"]
  /\ Silent /\ NoFault
  /\ UNCHANGED <<storeVars, secrets, labelled, proc, watcher, up, env, now>>

NodeReady(id) ==
  /\ cluster[id] = "unready"
  /\ cluster' = [cluster EXCEPT ![id] = "ready"]
  /\ Silent /\ NoFault
  /\ UNCHANGED <<storeVars, secrets, labelled, proc, watcher, up, env, now>>

NodeUnready(id) ==
  /\ Fault("node") /\ cluster[id] = "ready"
  /\ cluster' = [cluster EXCEPT ![id] = "unready"]
  /\ Silent /\ UNCHANGED <<storeVars, secrets, labelled, proc, watcher, up, env, now>>

-----------------------------------------------------------------------------

Init ==
  /\ nodes = EmptyMap /\ byFingerprint = [l \in Laptops |-> NoId]
  /\ disk = EmptyMap
  /\ secrets = [t \in Tokens |-> NoSecret]
  /\ cluster = [id \in Ids |-> "none"] /\ labelled = {}
  /\ proc = [p \in Procs |-> Idle] /\ answer = NoAnswer
  /\ watcher = Resting /\ up = FALSE /\ now = 1 /\ faults = 0
  /\ env \in Settings

Next ==
  \/ \E p \in Procs, l \in Laptops : Register(p, l)
  \/ \E p \in Procs, id \in Ids : Poll(p, id)
  \/ \E p \in Procs : Continue(p)
  \/ \E id \in Ids : Approve(id) \/ Deny(id)
  \/ Watch \/ Crash \/ Boot \/ Tick
  \/ \E id \in Ids : AgentJoins(id) \/ NodeReady(id) \/ NodeUnready(id)

Spec == Init /\ [][Next]_vars

(* Go runs every handler it has started and the watcher's ticker; the panel *)
(* is restarted; an agent that was let in becomes a node and gets ready;    *)
(* time passes.  Nobody has to poll, register, approve or join: a laptop    *)
(* stops asking as soon as it has an answer, at its deadline or when its    *)
(* user quits (register.go, 92-129).                                        *)
Fairness ==
  /\ \A p \in Procs : WF_vars(Continue(p))
  /\ WF_vars(Watch) /\ WF_vars(Boot) /\ WF_vars(Tick)
  /\ \A id \in Ids : WF_vars(NodeReady(id))

FairSpec == Spec /\ Fairness

-----------------------------------------------------------------------------
(* Properties *)

(* The type invariant.                                                      *)
TypeOK ==
  /\ nodes \in [Ids -> Records] /\ disk \in [Ids -> Records]
  /\ byFingerprint \in [Laptops -> Ids \cup {NoId}]
  /\ secrets \in [Tokens -> Secrets]
  /\ cluster \in [Ids -> {"none", "unready", "ready"}] /\ labelled \subseteq Ids
  /\ proc \in [Procs -> Handlers] /\ watcher \in Watchers
  /\ up \in BOOLEAN /\ env \in Environments /\ now \in 1..MaxTime /\ faults \in 0..MaxFaults

(* A laptop has one join request, however often it registers, whatever save *)
(* fails and wherever the panel is restarted: the index names the records   *)
(* and nothing else, and the file holds no two of one laptop.               *)
OneRequestPerLaptop ==
  /\ up => \A id \in Ids, l \in Laptops :
             Known(nodes, id) /\ nodes[id].laptop = l <=> byFingerprint[l] = id
  /\ \A i, j \in Ids :
       Known(disk, i) /\ Known(disk, j) /\ disk[i].laptop = disk[j].laptop => i = j

(* The store never says joined, in memory or in the file, of a laptop whose *)
(* node the watcher has not labelled as a host.                             *)
JoinedIsLabelled ==
  \A id \in Ids :
    nodes[id].status = "joined" \/ disk[id].status = "joined" => id \in labelled

(* An expired request can be approved anew without a second way in: every   *)
(* token that was sent for it is dead (TokenTTL, ExpireIfElapsed 215-227).  *)
(* True as long as no save fails: a restart can bring back an older record. *)
ExpiredTokensAreDead ==
  \A id \in Ids, t \in Tokens :
    nodes[id].status = "expired" /\ secrets[t].node = id => ~Valid(t)

(* The store implements the life cycle of a join request; what counts is    *)
(* the memory while the panel is up and the file while it is down.  A       *)
(* credential is a Secret that was created for the request.                 *)
Durable == IF up THEN nodes ELSE disk

StatusTable ==
  [id \in Ids |-> IF Known(Durable, id) THEN Durable[id].status ELSE "unknown"]

Credentials == {secrets[t].node : t \in Tokens \ Unminted}

Lifecycle ==
  INSTANCE NodeLifecycle WITH status <- StatusTable, credential <- Credentials

(* As long as no save fails.                                                *)
ImplementsLifecycle == Lifecycle!Spec

(* Otherwise only a crash that finds the file behind the memory departs     *)
(* from it: no late poll, approval, denial or tick of the watcher does.     *)
LifecycleUnlessStaleRestart ==
  [][(up /\ ~up' => disk = nodes) => Lifecycle!Next]_<<StatusTable, Credentials>>

(* The watcher gets to every laptop: as long as a request is approved and   *)
(* its node is ready it is not passed over for good, whatever else is on    *)
(* the list (the continues of RunOnce, 53-58).                              *)
ReadyNodeIsMarked ==
  \A id \in Ids :
    nodes[id].status = "approved" /\ cluster[id] = "ready"
      ~> nodes[id].status # "approved" \/ cluster[id] # "ready"

(* A token is in one answer only, and once it is lost or has run out, a     *)
(* request that is approved is of no use.  It is not the end of it: a       *)
(* laptop whose user starts the program again and again, and whose request  *)
(* is approved anew each time it expires, is given another token or has     *)
(* joined (Approve resets the mint, store.go 149-165; the expiry needs a    *)
(* poll, router.go 190).  The model runs out of Tokens, and a record that   *)
(* was minted in its last ticks does not expire any more.                   *)
KeepsAsking(id)   == []<><<\E p \in Procs : Poll(p, id)>>_vars
KeepsApproving(id) == nodes[id].status = "expired" ~> nodes[id].status = "approved"

HoldsToken(id)    == \E t \in Tokens : secrets[t].node = id /\ Valid(t)
OutOfBounds(id)   == Unminted = {} \/ nodes[id].mintedAt + TokenTTL >= MaxTime

LostTokenIsReplaced ==
  \A id \in Ids :
    KeepsAsking(id) /\ KeepsApproving(id)
      => (nodes[id].status = "approved" /\ ~HoldsToken(id)
            ~> HoldsToken(id) \/ nodes[id].status = "joined" \/ OutOfBounds(id))

-----------------------------------------------------------------------------
(* What the comments say and the code does not do *)

(* Token fields appear exactly once, on the first poll after approval       *)
(* (register.go:34-35): a request has never two good tokens at a time.      *)
OneTokenPerApproval ==
  \A t, u \in Tokens :
    Valid(t) /\ Valid(u) /\ secrets[t].node = secrets[u].node => t = u

(* The watcher labels a node as soon as it goes Ready                       *)
(* (install_linux.go:86-87).                                                *)
ReadyNodeIsLabelled ==
  \A id \in Ids : cluster[id] = "ready" ~> id \in labelled

=============================================================================
