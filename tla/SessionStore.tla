---------------------------- MODULE SessionStore ----------------------------
(***************************************************************************)
(* The session store of the control panel (internal/sessions/store.go),    *)
(* the Kubernetes provisioner it calls (internal/sessions/kubernetes.go)   *)
(* and the boot sequence that loads and reconciles it (cmd/server/main.go).*)
(*                                                                         *)
(* The store keeps two maps under one lock, sessions and byUser, and one   *)
(* JSON file.  A locked section is one step.  Every call to the Kubernetes *)
(* API happens outside the lock and is a step of its own, so two request   *)
(* handlers interleave between any two calls; the handler of a request is  *)
(* a process of Procs with a program counter.                              *)
(*                                                                         *)
(* Kubernetes itself is external: of a session it knows which of the PVC,  *)
(* the Deployment and the Service exist and whether the Deployment has an  *)
(* available replica.                                                      *)
(***************************************************************************)
EXTENDS Naturals, FiniteSets

CONSTANTS
  Users,        (* authenticated usernames                                 *)
  Ids,          (* session ids newID may draw; each is drawn at most once  *)
  Procs,        (* concurrently running HTTP request handlers              *)
  FirstDomain,  (* lowest ROS domain handed out: 100 in the code           *)
  LastDomain,   (* highest ROS domain handed out: 232 in the code          *)
  NoUser, NoId, (* Go's "no entry" for a user and for a session id         *)
  FaultKinds,   (* what may go wrong: a subset of AllFaults                *)
  MaxFaults,    (* bound on how often something does                       *)
  ApiStatuses   (* statuses other code sets through Store.SetStatus        *)

ASSUME DomainsAssumption ==
  FirstDomain \in Nat \ {0} /\ LastDomain \in Nat /\ FirstDomain <= LastDomain

ASSUME NamesAssumption == NoUser \notin Users /\ NoId \notin Ids

(* A save refused or torn (see Save), a failing call to the Kubernetes API, *)
(* a crash of the control panel, a pod that stops being available.          *)
SaveFaults == {"refused", "torn"}
AllFaults  == SaveFaults \cup {"api", "crash", "pod"}

ASSUME FaultsAssumption ==
  /\ FaultKinds \subseteq AllFaults /\ MaxFaults \in Nat
  /\ ApiStatuses \subseteq {"stopping", "stopped", "error"}

(* Mutant: the loop of nextDomainIDLocked starts one too low.               *)
Domains_FromBelow == (FirstDomain - 1)..LastDomain

Domains == FirstDomain..LastDomain

ActiveStatuses   == {"provisioning", "ready", "stopping"}
TerminalStatuses == {"stopped", "error"}

(* "absent" stands for an id that is no key of the map.                    *)
Sessions ==
  [user : Users \cup {NoUser}, domain : {0} \cup FirstDomain..LastDomain,
   status : ActiveStatuses \cup TerminalStatuses \cup {"absent"}]

NoSession == [user |-> NoUser, domain |-> 0, status |-> "absent"]
EmptyMap  == [id \in Ids |-> NoSession]

Kinds       == {"pvc", "deployment", "service"}
ApplyOrder  == <<"pvc", "deployment", "service">>
DeleteOrder == <<"deployment", "service", "pvc">>

VARIABLES
  sessions,   (* Store.sessions                                            *)
  byUser,     (* Store.byUser                                              *)
  disk,       (* the last map written whole to sessions.json               *)
  intact,     (* sessions.json is that map, not a truncated file           *)
  cluster,    (* per session: the resources that exist in Kubernetes       *)
  available,  (* the sessions whose Deployment has an available replica    *)
  proc,       (* the request handlers                                      *)
  answer,     (* the response the last step sent, if it sent one           *)
  server,     (* the control panel: "down", "reconciling" or "serving"     *)
  todo,       (* Reconcile's snapshot: the sessions it has yet to look at  *)
  faults      (* how often something has gone wrong, to bound it           *)

storeVars == <<sessions, byUser, disk, intact>>
k8sVars   == <<cluster, available>>
bootVars  == <<server, todo>>
vars == <<sessions, byUser, disk, intact, cluster, available, proc, answer,
          server, todo, faults>>

Fault(kind) ==
  /\ kind \in FaultKinds /\ faults < MaxFaults
  /\ faults' = faults + 1

NoFault == UNCHANGED faults

-----------------------------------------------------------------------------
(* Reading the maps *)

Present(map, id) == map[id].status # "absent"
Active(map, id)  == map[id].status \in ActiveStatuses

(* Mutant: only ready sessions keep their domain.                           *)
UsedDomains_OfReady(map) ==
  {map[id].domain : id \in {i \in Ids : map[i].status = "ready"}}

UsedDomains(map) == {map[id].domain : id \in {i \in Ids : Active(map, i)}}

(* nextDomainIDLocked: the lowest domain no active session in the map holds.*)
NextDomain(map, d) ==
  /\ d \in Domains \ UsedDomains(map)
  /\ \A e \in Domains \ UsedDomains(map) : d <= e

(* Mutant: a session that is still provisioning does not count.             *)
HasActive_OnlyReady(u) == byUser[u] # NoId /\ sessions[byUser[u]].status = "ready"

HasActive(u) == byUser[u] # NoId /\ Active(sessions, byUser[u])

(* Mutants: a ready session can no longer fail; it can no longer be stopped.*)
ValidTransition_ReadyNeverFails(from, to) ==
  \/ from = "provisioning" /\ to \in {"ready", "error", "stopping", "stopped"}
  \/ from = "ready"        /\ to \in {"stopping", "stopped"}
  \/ from = "stopping"     /\ to \in {"stopped", "error"}
ValidTransition_ReadyNeverStops(from, to) ==
  \/ from = "provisioning" /\ to \in {"ready", "error", "stopping", "stopped"}
  \/ from = "ready"        /\ to \in {"stopping", "error"}
  \/ from = "stopping"     /\ to \in {"stopped", "error"}

ValidTransition(from, to) ==
  \/ from = "provisioning" /\ to \in {"ready", "error", "stopping", "stopped"}
  \/ from = "ready"        /\ to \in {"stopping", "error", "stopped"}
  \/ from = "stopping"     /\ to \in {"stopped", "error"}

-----------------------------------------------------------------------------
(* saveLocked: os.WriteFile truncates the file and then writes the map.  A  *)
(* "refused" save fails before the truncation and leaves the file alone; a  *)
(* "torn" one stops after it, by an I/O error or, when a crash follows,     *)
(* because the process died in the middle of the write.                     *)

SaveOutcomes == {"saved"} \cup SaveFaults

(* Mutant: sessions that have ended are not written.                        *)
Save_ActiveOnly(map, outcome) ==
  /\ IF outcome = "saved" THEN NoFault ELSE Fault(outcome)
  /\ disk' = IF outcome = "saved"
             THEN [id \in Ids |-> IF Active(map, id) THEN map[id] ELSE NoSession]
             ELSE disk
  /\ intact' = IF outcome = "refused" THEN intact ELSE outcome = "saved"

Save(map, outcome) ==
  /\ IF outcome = "saved" THEN NoFault ELSE Fault(outcome)
  /\ disk' = IF outcome = "saved" THEN map ELSE disk
  /\ intact' = IF outcome = "refused" THEN intact ELSE outcome = "saved"

WithStatus(map, id, s) == [map EXCEPT ![id].status = s]

(* Mutant: the transition is not checked.                                   *)
SetStatus_Unchecked(id, s, outcome) ==
  /\ sessions' = WithStatus(sessions, id, s)
  /\ Save(sessions', outcome)
  /\ UNCHANGED byUser

(* The locked body of setStatus once the transition is legal: the mutation  *)
(* stands whatever becomes of the save.                                     *)
SetStatus(id, s, outcome) ==
  /\ ValidTransition(sessions[id].status, s)
  /\ sessions' = WithStatus(sessions, id, s)
  /\ Save(sessions', outcome)
  /\ UNCHANGED byUser

(* The state in which setStatus returns ErrInvalidStatus.                   *)
SetStatusInvalid(id, s) ==
  /\ ~ValidTransition(sessions[id].status, s)
  /\ NoFault /\ UNCHANGED storeVars

-----------------------------------------------------------------------------
(* Request handlers *)

Replies == {"accepted", "conflict", "ok", "notFound", "forbidden",
            "invalid",   (* ErrInvalidStatus, a 500 *)
            "failed"}    (* any other 500           *)

Idle == [pc |-> "idle", op |-> "none", user |-> NoUser, id |-> NoId, step |-> 0]

Handlers ==
  [pc : {"idle", "apply", "undoPVC", "undoDeployment", "fail", "probe",
         "promote", "delete", "stop"},
   op : {"none", "create", "get", "current", "delete"},
   user : Users \cup {NoUser}, id : Ids \cup {NoId}, step : 0..3]

NoAnswer == [op |-> "none", id |-> NoId, reply |-> "none"]

Answers == [op : {"none", "create", "get", "current", "delete", "list"},
            id : Ids \cup {NoId}, reply : Replies \cup {"none"}]

Respond(op, id, reply) == answer' = [op |-> op, id |-> id, reply |-> reply]
Silent == answer' = NoAnswer

(* Handler p ends: at once, or after the steps it has run.                  *)
Reply(op, id, reply) == Respond(op, id, reply) /\ UNCHANGED proc

Finish(p, reply) ==
  Respond(proc[p].op, proc[p].id, reply) /\ proc' = [proc EXCEPT ![p] = Idle]

Goto(p, pc, step) ==
  Silent /\ proc' = [proc EXCEPT ![p].pc = pc, ![p].step = step]

Start(p, op, u, id, pc) ==
  Silent /\ proc' = [proc EXCEPT ![p] =
             [pc |-> pc, op |-> op, user |-> u, id |-> id, step |-> 1]]

CanStart(p) == server = "serving" /\ proc[p].pc = "idle"

(* newID fails; in the model, when the bound Ids is used up.                *)
NoNewId == \A id \in Ids : Present(sessions, id) \/ Present(disk, id)

(* POST /api/sessions, refused: ErrSessionExists, no id, no domain is left. *)
CreateRefused(p, u) ==
  /\ CanStart(p)
  /\ \/ HasActive(u) /\ Reply("create", NoId, "conflict")
     \/ /\ ~HasActive(u)
        /\ NoNewId \/ Domains \subseteq UsedDomains(sessions)
        /\ Reply("create", NoId, "failed")
  /\ NoFault /\ UNCHANGED <<storeVars, k8sVars, bootVars>>

(* POST /api/sessions: the locked section of Create.  The record is in both *)
(* maps before the save; a failed save takes it out of both again.          *)
Create(p, u, id) ==
  /\ CanStart(p)
  /\ ~HasActive(u)
  /\ ~Present(sessions, id) /\ ~Present(disk, id)
  /\ \E d \in Domains, outcome \in SaveOutcomes :
       LET map == [sessions EXCEPT ![id] =
                     [user |-> u, domain |-> d, status |-> "provisioning"]]
       IN /\ NextDomain(sessions, d)
          /\ Save(map, outcome)
          /\ IF outcome = "saved"
             THEN /\ sessions' = map
                  /\ byUser' = [byUser EXCEPT ![u] = id]
                  /\ Start(p, "create", u, id, "apply")
             ELSE /\ UNCHANGED <<sessions, byUser>>
                  /\ Reply("create", id, "failed")
  /\ UNCHANGED <<k8sVars, bootVars>>

(* Apply creates the next resource of the session, outside the lock.        *)
ApplyCreates(p) ==
  LET h == proc[p] IN
  /\ h.pc = "apply"
  /\ cluster' = [cluster EXCEPT ![h.id] = @ \cup {ApplyOrder[h.step]}]
  /\ IF h.step = 3 THEN Finish(p, "accepted") ELSE Goto(p, "apply", h.step + 1)
  /\ NoFault /\ UNCHANGED <<storeVars, available, bootVars>>

(* The create call fails; a call that timed out may still have taken effect.*)
ApplyFails(p) ==
  LET h == proc[p] IN
  /\ h.pc = "apply" /\ Fault("api")
  /\ \E effect \in SUBSET {ApplyOrder[h.step]} :
       cluster' = [cluster EXCEPT ![h.id] = @ \cup effect]
  /\ Goto(p, IF h.step = 1 THEN "fail" ELSE "undoPVC", h.step)
  /\ UNCHANGED <<storeVars, available, bootVars>>

(* One API delete: the resource is gone, or the call failed and it may not  *)
(* be.  A resource that is not there counts as deleted.                     *)
Remove(id, kind, gone) ==
  /\ cluster' = [cluster EXCEPT ![id] = IF gone THEN @ \ {kind} ELSE @]
  /\ available' = IF gone /\ kind = "deployment"
                  THEN available \ {id} ELSE available

(* Apply deletes what it had created, ignoring errors, PVC first.           *)
Undo(p) ==
  LET h == proc[p] IN
  /\ h.pc \in {"undoPVC", "undoDeployment"}
  /\ \E gone \in BOOLEAN :
       /\ Remove(h.id, IF h.pc = "undoPVC" THEN "pvc" ELSE "deployment", gone)
       /\ IF gone THEN NoFault ELSE Fault("api")
  /\ Goto(p, IF h.pc = "undoPVC" /\ h.step = 3 THEN "undoDeployment"
             ELSE "fail", h.step)
  /\ UNCHANGED <<storeVars, bootVars>>

(* Create's setStatus(Error) after a failed Apply; its result is ignored.   *)
FailCreate(p) ==
  LET h == proc[p] IN
  /\ h.pc = "fail"
  /\ \/ \E outcome \in SaveOutcomes : SetStatus(h.id, "error", outcome)
     \/ SetStatusInvalid(h.id, "error")
  /\ Finish(p, "failed")
  /\ UNCHANGED <<k8sVars, bootVars>>

(* Mutant: Get does not probe, as before it was made to heal readiness.     *)
NeedsProbe_CurrentOnly(op, s) == s = "provisioning" /\ op = "current"

NeedsProbe(op, s) == s = "provisioning"

(* The read-locked part of Get, which GET and DELETE /api/sessions/{id}     *)
(* begin with: a provisioning session is probed after the unlock.           *)
Read(p, op, u, id) ==
  /\ CanStart(p)
  /\ LET s == sessions[id].status IN
     \/ s = "absent" /\ Reply(op, id, "notFound")
     \/ s # "absent" /\ sessions[id].user # u /\ Reply(op, id, "forbidden")
     \/ /\ s # "absent" /\ sessions[id].user = u
        /\ \/ NeedsProbe(op, s) /\ Start(p, op, u, id, "probe")
           \/ /\ ~NeedsProbe(op, s)
              /\ op = "get" \/ s = "stopped"
              /\ Reply(op, id, "ok")
           \/ /\ ~NeedsProbe(op, s) /\ s # "stopped"
              /\ op = "delete"
              /\ Start(p, op, u, id, "delete")
  /\ NoFault /\ UNCHANGED <<storeVars, k8sVars, bootVars>>

Get(p, u, id)    == Read(p, "get", u, id)
Delete(p, u, id) == Read(p, "delete", u, id)

(* Current, called by the gateway for every proxied request.                *)
Current(p, u) ==
  /\ CanStart(p)
  /\ LET id == byUser[u] IN
     \/ id = NoId /\ Reply("current", id, "notFound")
     \/ /\ id # NoId
        /\ LET s == sessions[id].status IN
           \/ NeedsProbe("current", s) /\ Start(p, "current", u, id, "probe")
           \/ s \in TerminalStatuses /\ Reply("current", id, "notFound")
           \/ s \in {"ready", "stopping"} /\ Reply("current", id, "ok")
  /\ NoFault /\ UNCHANGED <<storeVars, k8sVars, bootVars>>

(* GET /api/sessions: the stored records as they are, without a probe.      *)
List(p, u) ==
  /\ CanStart(p) /\ Reply("list", NoId, "ok")
  /\ NoFault /\ UNCHANGED <<storeVars, k8sVars, bootVars>>

(* The handler has its session: GET and the gateway answer, DELETE goes on. *)
Proceed(p) ==
  IF proc[p].op = "delete" THEN Goto(p, "delete", 1) ELSE Finish(p, "ok")

(* Mutant: the handler waits for the replica instead of answering.          *)
Probe_Waits(p) ==
  LET h == proc[p] IN
  /\ h.pc = "probe"
  /\ h.id \in available /\ Goto(p, "promote", 1) /\ NoFault
  /\ UNCHANGED <<storeVars, k8sVars, bootVars>>

(* Ready, outside the lock: the Deployment has an available replica, it has *)
(* none (or does not exist), or the API call fails.                         *)
Probe(p) ==
  LET h == proc[p] IN
  /\ h.pc = "probe"
  /\ \/ h.id \in available /\ Goto(p, "promote", 1) /\ NoFault
     \/ h.id \notin available /\ Proceed(p) /\ NoFault
     \/ Finish(p, "failed") /\ Fault("api")
  /\ UNCHANGED <<storeVars, k8sVars, bootVars>>

(* setStatus(Ready) with what the probe saw.                                *)
Promote(p) ==
  LET h == proc[p] IN
  /\ h.pc = "promote"
  /\ \/ SetStatusInvalid(h.id, "ready") /\ Finish(p, "invalid")
     \/ SetStatus(h.id, "ready", "saved") /\ Proceed(p)
     \/ \E outcome \in SaveFaults :
          SetStatus(h.id, "ready", outcome) /\ Finish(p, "failed")
  /\ UNCHANGED <<k8sVars, bootVars>>

(* The provisioner's Delete: Deployment, Service, PVC; an error other than  *)
(* NotFound ends the request with the status as it was.                     *)
DeleteResource(p) ==
  LET h == proc[p] IN
  /\ h.pc = "delete"
  /\ \/ /\ Remove(h.id, DeleteOrder[h.step], TRUE)
        /\ IF h.step = 3 THEN Goto(p, "stop", 1) ELSE Goto(p, "delete", h.step + 1)
        /\ NoFault
     \/ /\ Fault("api")
        /\ \E gone \in BOOLEAN : Remove(h.id, DeleteOrder[h.step], gone)
        /\ Finish(p, "failed")
  /\ UNCHANGED <<storeVars, bootVars>>

(* Delete's final setStatus(Stopped).                                       *)
Stop(p) ==
  LET h == proc[p] IN
  /\ h.pc = "stop"
  /\ \/ SetStatusInvalid(h.id, "stopped") /\ Finish(p, "invalid")
     \/ \E outcome \in SaveOutcomes :
          /\ SetStatus(h.id, "stopped", outcome)
          /\ Finish(p, IF outcome = "saved" THEN "ok" ELSE "failed")
  /\ UNCHANGED <<k8sVars, bootVars>>

(* Store.SetStatus called from outside the store; ApiStatuses is empty in   *)
(* production, where no code calls it.                                      *)
SetStatusCall(id, s) ==
  /\ server = "serving" /\ s \in ApiStatuses
  /\ \E outcome \in SaveOutcomes : SetStatus(id, s, outcome)
  /\ Silent /\ UNCHANGED <<k8sVars, bootVars, proc>>

-----------------------------------------------------------------------------
(* The process: crash, boot, reconcile *)

Crash ==
  /\ server # "down" /\ Fault("crash")
  /\ server' = "down" /\ todo' = {}
  /\ sessions' = EmptyMap /\ byUser' = [u \in Users |-> NoId]
  /\ proc' = [p \in Procs |-> Idle]
  /\ Silent /\ UNCHANGED <<disk, intact, k8sVars>>

(* Mutant: ended sessions are entered as well.                              *)
SessionsOf_Ended(map, u) == {id \in Ids : Present(map, id) /\ map[id].user = u}

SessionsOf(map, u) == {id \in Ids : Active(map, id) /\ map[id].user = u}

(* byUser after loading map, rebuilt in Go's map order: any active session  *)
(* of the user may become its entry.                                        *)
Rebuilt(map) ==
  {f \in [Users -> Ids \cup {NoId}] :
     \A u \in Users : IF SessionsOf(map, u) = {} THEN f[u] = NoId
                      ELSE f[u] \in SessionsOf(map, u)}

(* NewStoreWithProvisionerAndPath and the snapshot Reconcile takes.  A file *)
(* that does not parse is fatal, so Boot then never happens.                *)
Boot ==
  /\ server = "down" /\ intact
  /\ sessions' = disk
  /\ byUser' \in Rebuilt(disk)
  /\ todo' = {id \in Ids : Active(disk, id)}
  /\ server' = "reconciling"
  /\ Silent /\ NoFault /\ UNCHANGED <<disk, intact, k8sVars, proc>>

(* Mutant: an API error counts as a missing Deployment.                     *)
WorkloadMissing_FailClosed(id) ==
  "deployment" \notin cluster[id] \/ "api" \in FaultKinds

(* WorkloadExists, when the API call succeeds.                              *)
WorkloadMissing(id) == "deployment" \notin cluster[id]

(* WorkloadExists is true of a session whose Deployment exists and, failing *)
(* open, of any session when the API call errs: the record is adopted.      *)
Adopt(id) ==
  /\ server = "reconciling" /\ id \in todo
  /\ \/ ~WorkloadMissing(id) /\ NoFault
     \/ Fault("api")
  /\ todo' = todo \ {id}
  /\ Silent /\ UNCHANGED <<storeVars, k8sVars, proc, server>>

(* The Deployment was not found: the record is tombstoned.                  *)
Tombstone(id) ==
  /\ server = "reconciling" /\ id \in todo
  /\ WorkloadMissing(id)
  /\ \E outcome \in SaveOutcomes : SetStatus(id, "stopped", outcome)
  /\ todo' = todo \ {id}
  /\ Silent /\ UNCHANGED <<k8sVars, proc, server>>

(* ListenAndServe: requests are served only after Reconcile has returned.   *)
Serve ==
  /\ server = "reconciling" /\ todo = {}
  /\ server' = "serving"
  /\ Silent /\ NoFault /\ UNCHANGED <<storeVars, k8sVars, proc, todo>>

-----------------------------------------------------------------------------
(* Kubernetes: a Deployment gets, and may lose, its available replica.      *)

PodAvailable(id) ==
  /\ "deployment" \in cluster[id] /\ id \notin available
  /\ available' = available \cup {id}
  /\ Silent /\ NoFault /\ UNCHANGED <<storeVars, cluster, proc, bootVars>>

PodUnavailable(id) ==
  /\ Fault("pod") /\ id \in available
  /\ available' = available \ {id}
  /\ Silent /\ UNCHANGED <<storeVars, cluster, proc, bootVars>>

-----------------------------------------------------------------------------

Init ==
  /\ sessions = EmptyMap /\ byUser = [u \in Users |-> NoId]
  /\ disk = EmptyMap /\ intact = TRUE
  /\ cluster = [id \in Ids |-> {}] /\ available = {}
  /\ proc = [p \in Procs |-> Idle] /\ answer = NoAnswer
  /\ server = "down" /\ todo = {} /\ faults = 0

(* The steps of a request that has begun. *)
Continue(p) ==
  \/ ApplyCreates(p) \/ ApplyFails(p) \/ Undo(p) \/ FailCreate(p)
  \/ Probe(p) \/ Promote(p) \/ DeleteResource(p) \/ Stop(p)

Next ==
  \/ \E p \in Procs, u \in Users : CreateRefused(p, u) \/ Current(p, u) \/ List(p, u)
  \/ \E p \in Procs, u \in Users, id \in Ids :
       Create(p, u, id) \/ Get(p, u, id) \/ Delete(p, u, id)
  \/ \E p \in Procs : Continue(p)
  \/ \E id \in Ids, s \in ApiStatuses : SetStatusCall(id, s)
  \/ Crash \/ Boot \/ Serve
  \/ \E id \in Ids : Adopt(id) \/ Tombstone(id)
  \/ \E id \in Ids : PodAvailable(id) \/ PodUnavailable(id)

Spec == Init /\ [][Next]_vars

(* Go runs every handler it has started, the boot sequence does not block,  *)
(* a Deployment's pod eventually comes up, and the launch page polls a      *)
(* provisioning session again and again (web/src/pages/Launch.tsx, 56-72).  *)
(* The poll needs strong fairness only because Procs is a bound of the      *)
(* model: the server starts a handler for every request.                    *)
Polls(id) ==
  /\ sessions[id].status = "provisioning"
  /\ \E p \in Procs, u \in Users : sessions[id].user = u /\ Get(p, u, id)

Runs ==
  /\ \A p \in Procs : WF_vars(Continue(p))
  /\ WF_vars(Boot) /\ WF_vars(Serve)
  /\ \A id \in Ids : WF_vars(Adopt(id) \/ Tombstone(id))
  /\ \A id \in Ids : WF_vars(PodAvailable(id))

FairSpec == Spec /\ Runs /\ \A id \in Ids : SF_vars(Polls(id))

(* The same for a user who polls the list instead (README.md:219).          *)
ListFairSpec ==
  Spec /\ Runs /\ \A u \in Users : SF_vars(\E p \in Procs : List(p, u))

-----------------------------------------------------------------------------
(* Properties *)

(* The type invariant.                                                      *)
TypeOK ==
  /\ sessions \in [Ids -> Sessions]
  /\ byUser \in [Users -> Ids \cup {NoId}]
  /\ disk \in [Ids -> Sessions] /\ intact \in BOOLEAN
  /\ cluster \in [Ids -> SUBSET Kinds] /\ available \subseteq Ids
  /\ proc \in [Procs -> Handlers] /\ answer \in Answers
  /\ server \in {"down", "reconciling", "serving"}
  /\ todo \subseteq Ids /\ faults \in 0..MaxFaults

(* A map that can be served and reloaded: no user has two active sessions   *)
(* and no two active sessions share a ROS domain.                           *)
OneActivePerUser(map) ==
  \A i, j \in Ids : Active(map, i) /\ Active(map, j)
                      /\ map[i].user = map[j].user => i = j

DistinctDomains(map) ==
  \A i, j \in Ids : Active(map, i) /\ Active(map, j)
                      /\ map[i].domain = map[j].domain => i = j

(* At most one active session per user and per ROS domain, in memory and in *)
(* the snapshot a restart would load, whatever saves failed and whichever   *)
(* handlers, crashes and reconciliations interleaved (Create 169-226).      *)
ExclusiveSessions ==
  /\ OneActivePerUser(sessions) /\ DistinctDomains(sessions)
  /\ OneActivePerUser(disk) /\ DistinctDomains(disk)

(* While the panel is up, an active session is the one its user's byUser    *)
(* entry names: the gateway (Current) and the API (Get) see the same one.   *)
ByUserNamesActive ==
  server # "down" =>
    \A id \in Ids : Active(sessions, id) => byUser[sessions[id].user] = id

(* Nothing runs in Kubernetes for a session the file does not know: the     *)
(* record is saved before Apply and no later save drops it, so a restart    *)
(* cannot orphan a workload (the fear of the comment at store.go:84-86).    *)
WorkloadsAreRecorded == \A id \in Ids : cluster[id] # {} => Present(disk, id)

(* A create that answers an error after its record was saved leaves the     *)
(* session terminal, whatever promoted, stopped or restarted it meanwhile,  *)
(* so the user's next create is not refused for it (Create 219-224).        *)
FailedCreateEndsSession ==
  [][\A p \in Procs :
       proc[p].pc = "fail" /\ proc'[p].pc = "idle" /\ server' # "down"
         => sessions'[proc[p].id].status \in TerminalStatuses]_vars

(* A terminal session stays as it is for as long as the panel runs: no late *)
(* poll, failed create or second delete brings it back or rewrites it.      *)
TerminalIsFinal ==
  [][\A id \in Ids :
       sessions[id].status \in TerminalStatuses /\ server' # "down"
         => sessions'[id] = sessions[id]]_vars

(* Reconcile never stops a session whose Deployment exists, also when the   *)
(* Kubernetes API fails during it (fail open, kubernetes.go:89-98).         *)
ReconcileKeepsWorkloads ==
  [][\A id \in Ids :
       server = "reconciling" /\ "deployment" \in cluster[id] /\ server' # "down"
         => sessions'[id] = sessions[id]]_vars

(* What makes the properties above inductive.  The memory is empty while    *)
(* the panel is down, and holds the same ids as the file while it is up (a  *)
(* failed create is rolled back, a failed setStatus adds no id); a handler  *)
(* runs only while the panel serves, and works on a session that exists.    *)
DownIsEmpty == server = "down" => sessions = EmptyMap

KnownOnDisk ==
  server # "down" => \A id \in Ids : Present(sessions, id) <=> Present(disk, id)

ActiveHasOwner(map) == \A id \in Ids : Active(map, id) => map[id].user \in Users

HandlersHaveSession ==
  \A p \in Procs : proc[p].pc # "idle" =>
    /\ server = "serving" /\ proc[p].step \in 1..3
    /\ proc[p].id \in Ids /\ Present(sessions, proc[p].id)

Inv ==
  /\ TypeOK
  /\ ExclusiveSessions /\ ByUserNamesActive /\ WorkloadsAreRecorded
  /\ ActiveHasOwner(sessions) /\ ActiveHasOwner(disk)
  /\ DownIsEmpty /\ KnownOnDisk /\ HandlersHaveSession

(* Once a session is ready and nobody is working on it, all three of its    *)
(* resources exist: a delete that took some of them away went on to stop    *)
(* the session.  True only while nothing has gone wrong: a failed delete or *)
(* a crash inside Apply leaves a ready session with a part of them.         *)
Working(id) == \E p \in Procs : proc[p].id = id /\ proc[p].op # "get"

ReadyIsComplete ==
  \A id \in Ids :
    faults = 0 /\ sessions[id].status = "ready" /\ ~Working(id)
      => cluster[id] = Kinds

(* Every request the panel has begun ends, unless the panel goes down, and  *)
(* a restarted panel gets to serve: no handler and no boot waits on another.*)
RequestsEnd ==
  /\ \A p \in Procs : proc[p].pc # "idle" ~> proc[p].pc = "idle"
  /\ server # "serving" ~> server = "serving"

(* The launch page's stepper terminates: a provisioning session becomes     *)
(* ready or ends, also across a crash in the middle of its creation.        *)
ProvisioningResolves ==
  \A id \in Ids : sessions[id].status = "provisioning"
                    ~> sessions[id].status \in {"ready", "stopping", "stopped", "error"}

(* The store implements the lease table, restarts included: what counts is  *)
(* the memory while the panel is up and the file while it is down.          *)
Phase(s) ==
  IF s = "absent" THEN "unborn" ELSE IF s \in ActiveStatuses THEN "live" ELSE "over"

Durable == IF server = "down" THEN disk ELSE sessions

LeaseTable ==
  [id \in Ids |-> [user |-> Durable[id].user, domain |-> Durable[id].domain,
                   phase |-> Phase(Durable[id].status)]]

Lease == INSTANCE SessionLease WITH lease <- LeaseTable

(* As long as no save fails.                                                *)
ImplementsLease == Lease!Spec

(* When saves fail, the one step that can take a lease back is a crash that *)
(* finds the file behind the memory; every other step is one of the lease   *)
(* table's or leaves it alone.                                              *)
LeaseUnlessStaleRestart ==
  [][(server # "down" /\ server' = "down" => disk = sessions)
       => Lease!Next]_LeaseTable

-----------------------------------------------------------------------------
(* What the documents say and the code does not do *)

(* DELETE removes the Deployment, the Service and the PVC (README.md:221):  *)
(* a stopped session nobody is working on has nothing left in Kubernetes.   *)
StoppedMeansGone ==
  \A id \in Ids :
    sessions[id].status = "stopped" /\ ~Working(id) => cluster[id] = {}

(* Polling the list, a new session is seen to become ready or to end.       *)
ListedSessionResolves ==
  \A id \in Ids : sessions[id].status = "provisioning"
                    ~> sessions[id].status \in {"ready", "stopping", "stopped", "error"}

(* A crash leaves a file the next start can read, as the comment on the     *)
(* store has it: the pattern of the nodes store, which renames (59-61).     *)
RestartPossible == server = "down" => intact

=============================================================================
