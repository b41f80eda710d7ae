------------------------- MODULE SessionStoreProofs -------------------------
(***************************************************************************)
(* Theorems about the session store, for any number of users, sessions,    *)
(* handlers, domains and faults.  The store changes in four ways only - a  *)
(* status is set, a session is created, a crash empties the memory, a boot *)
(* loads the file - and everything else leaves it alone; the proofs split  *)
(* every step that way (StoreSteps) before they look at an invariant.      *)
(***************************************************************************)
EXTENDS SessionStore, TLAPS

USE DEF SaveFaults, AllFaults, SaveOutcomes

(* What of the invariant speaks of the handlers and of the memory alone.    *)
Setting == TypeOK /\ HandlersHaveSession

(* The ways in which a step can change the store. *)
StoreIdle == UNCHANGED storeVars /\ (server' = "down" <=> server = "down")

SomeStatusSet ==
  /\ server' = server /\ server # "down"
  /\ \E id \in Ids, s \in {"ready", "stopping", "stopped", "error"},
        outcome \in SaveOutcomes : SetStatus(id, s, outcome)

SomeCreate ==
  server = "serving" /\ \E p \in Procs, u \in Users, id \in Ids : Create(p, u, id)

-----------------------------------------------------------------------------
(* Lemmas about the operators *)

(* A save writes the map it is given or leaves the last whole one.          *)
LEMMA SaveWrites ==
  ASSUME NEW map, NEW outcome \in SaveOutcomes, TypeOK, Save(map, outcome)
  PROVE  /\ disk' = map \/ disk' = disk
         /\ intact' \in BOOLEAN
         /\ faults' \in 0..MaxFaults
<1>1. disk' = map \/ disk' = disk
  BY DEF Save
<1>2. intact' \in BOOLEAN
  BY Zenon DEF Save, TypeOK
<1>3. faults' \in 0..MaxFaults
  <2>1. faults \in 0..MaxFaults
    BY DEF TypeOK
  <2>2. NoFault \/ Fault(outcome)
    BY DEF Save
  <2> QED
    BY <2>1, <2>2, FaultsAssumption DEF Fault, NoFault
<1> QED
  BY <1>1, <1>2, <1>3

(* A legal setStatus leaves every other session alone, and the one it sets  *)
(* was active before and keeps its user and its domain.                     *)
LEMMA SetStatusChangesOne ==
  ASSUME NEW id \in Ids, NEW s \in {"ready", "stopping", "stopped", "error"},
         NEW outcome \in SaveOutcomes, TypeOK, SetStatus(id, s, outcome)
  PROVE  /\ Active(sessions, id)
         /\ sessions' \in [Ids -> Sessions]
         /\ \A i \in Ids : i # id => sessions'[i] = sessions[i]
         /\ sessions'[id].user = sessions[id].user
         /\ sessions'[id].domain = sessions[id].domain
         /\ sessions'[id].status = s
         /\ byUser' = byUser
         /\ disk' = sessions' \/ disk' = disk
         /\ intact' \in BOOLEAN /\ faults' \in 0..MaxFaults
<1>1. sessions' = [sessions EXCEPT ![id].status = s]
  BY DEF SetStatus, WithStatus
<1>2. sessions[id] \in Sessions /\ sessions \in [Ids -> Sessions]
  BY DEF TypeOK
<1>3. /\ sessions' \in [Ids -> Sessions]
      /\ sessions'[id].user = sessions[id].user
      /\ sessions'[id].domain = sessions[id].domain
      /\ sessions'[id].status = s
  BY <1>1, <1>2 DEF Sessions, ActiveStatuses, TerminalStatuses
<1>4. Active(sessions, id)
  BY DEF SetStatus, ValidTransition, Active, ActiveStatuses
<1>5. byUser' = byUser /\ Save(sessions', outcome)
  BY DEF SetStatus
<1> QED
  BY <1>1, <1>2, <1>3, <1>4, <1>5, SaveWrites

(* What a create that was saved has done, and that one that was not saved   *)
(* has left both maps as they were.                                         *)
LEMMA CreateAddsOne ==
  ASSUME NEW p \in Procs, NEW u \in Users, NEW id \in Ids, TypeOK,
         Create(p, u, id)
  PROVE  /\ ~HasActive(u) /\ ~Present(sessions, id)
         /\ intact' \in BOOLEAN /\ faults' \in 0..MaxFaults
         /\ \/ /\ sessions' = sessions /\ byUser' = byUser /\ disk' = disk
            \/ \E d \in Domains \ UsedDomains(sessions) :
                 /\ sessions' = [sessions EXCEPT ![id] =
                       [user |-> u, domain |-> d, status |-> "provisioning"]]
                 /\ sessions' \in [Ids -> Sessions]
                 /\ byUser' = [byUser EXCEPT ![u] = id]
                 /\ disk' = sessions'
<1>1. PICK d \in Domains, outcome \in SaveOutcomes :
        LET map == [sessions EXCEPT ![id] =
                      [user |-> u, domain |-> d, status |-> "provisioning"]]
        IN /\ NextDomain(sessions, d)
           /\ Save(map, outcome)
           /\ IF outcome = "saved"
              THEN /\ sessions' = map
                   /\ byUser' = [byUser EXCEPT ![u] = id]
                   /\ Start(p, "create", u, id, "apply")
              ELSE /\ UNCHANGED <<sessions, byUser>>
                   /\ Reply("create", id, "failed")
  BY DEF Create
<1> DEFINE new == [user |-> u, domain |-> d, status |-> "provisioning"]
           map == [sessions EXCEPT ![id] = new]
<1>2. new \in Sessions
  BY DomainsAssumption DEF Sessions, Domains, ActiveStatuses
<1>3. map \in [Ids -> Sessions]
  BY <1>2 DEF TypeOK
<1>4. ~HasActive(u) /\ ~Present(sessions, id)
  BY DEF Create
<1>5. intact' \in BOOLEAN /\ faults' \in 0..MaxFaults
  BY <1>1, SaveWrites
<1>6. d \in Domains \ UsedDomains(sessions)
  BY <1>1 DEF NextDomain
<1>7. CASE outcome = "saved"
  BY <1>1, <1>3, <1>4, <1>5, <1>6, <1>7 DEF Save
<1>8. CASE outcome # "saved"
  BY <1>1, <1>4, <1>5, <1>8 DEF Save
<1> QED
  BY <1>7, <1>8

(* Every step sets a status, creates, boots, crashes or leaves the store.   *)
LEMMA StoreSteps ==
  ASSUME Setting, [Next]_vars
  PROVE  StoreIdle \/ SomeStatusSet \/ SomeCreate \/ Boot \/ Crash
<1> USE DEF StoreIdle, SomeStatusSet, Setting
<1>1. CASE UNCHANGED vars
  BY <1>1 DEF vars, storeVars
<1>b. UNCHANGED bootVars => (server' = "down" <=> server = "down")
  BY DEF bootVars
<1>2. ASSUME NEW p \in Procs, NEW u \in Users,
             CreateRefused(p, u) \/ Current(p, u) \/ List(p, u)
      PROVE  StoreIdle
  BY <1>2, <1>b DEF CreateRefused, Current, List
<1>3. ASSUME NEW p \in Procs, NEW u \in Users, NEW id \in Ids,
             Get(p, u, id) \/ Delete(p, u, id)
      PROVE  StoreIdle
  BY <1>3, <1>b DEF Get, Delete, Read
<1>4. ASSUME NEW p \in Procs, NEW u \in Users, NEW id \in Ids, Create(p, u, id)
      PROVE  SomeCreate
  BY <1>4 DEF SomeCreate, Create, CanStart
<1>5. ASSUME NEW p \in Procs, Continue(p)
      PROVE  StoreIdle \/ SomeStatusSet
  <2>1. CASE ApplyCreates(p) \/ ApplyFails(p) \/ Undo(p) \/ Probe(p)
             \/ DeleteResource(p)
    BY <2>1, <1>b DEF ApplyCreates, ApplyFails, Undo, Probe, DeleteResource
  <2>2. ASSUME proc[p].pc \in {"fail", "promote", "stop"}
        PROVE  server # "down" /\ proc[p].id \in Ids
    BY <2>2 DEF HandlersHaveSession
  <2>3. CASE FailCreate(p)
    BY <2>2, <2>3, <1>b DEF FailCreate, SetStatusInvalid, bootVars
  <2>4. CASE Promote(p)
    BY <2>2, <2>4, <1>b DEF Promote, SetStatusInvalid, bootVars
  <2>5. CASE Stop(p)
    BY <2>2, <2>5, <1>b DEF Stop, SetStatusInvalid, bootVars
  <2> QED
    BY <1>5, <2>1, <2>3, <2>4, <2>5 DEF Continue
<1>6. ASSUME NEW id \in Ids, NEW s \in ApiStatuses, SetStatusCall(id, s)
      PROVE  SomeStatusSet
  <2>1. s \in {"ready", "stopping", "stopped", "error"}
    BY FaultsAssumption
  <2> QED
    BY <1>6, <2>1 DEF SetStatusCall, bootVars
<1>7. ASSUME NEW id \in Ids, Tombstone(id)
      PROVE  SomeStatusSet
  BY <1>7 DEF Tombstone
<1>8. ASSUME NEW id \in Ids, Adopt(id) \/ PodAvailable(id) \/ PodUnavailable(id)
      PROVE  StoreIdle
  BY <1>8, <1>b DEF Adopt, PodAvailable, PodUnavailable
<1>9. CASE Serve
  BY <1>9 DEF Serve
<1> QED
  BY <1>1, <1>2, <1>3, <1>4, <1>5, <1>6, <1>7, <1>8, <1>9 DEF Next

-----------------------------------------------------------------------------
(* Type correctness, together with what the handlers need for it: the index *)
(* of a handler's next API call stays within the three resources.           *)

(* Starting, moving on and finishing keep the handlers in their type.       *)
LEMMA StartTyped ==
  ASSUME TypeOK, NEW p \in Procs, NEW op \in {"create", "get", "current", "delete"},
         NEW u \in Users, NEW id \in Ids, NEW pc \in {"apply", "probe", "delete"},
         Start(p, op, u, id, pc)
  PROVE  proc' \in [Procs -> Handlers] /\ answer' \in Answers
BY DEF Start, Silent, NoAnswer, Answers, Handlers, TypeOK

LEMMA GotoTyped ==
  ASSUME TypeOK, NEW p \in Procs, NEW step \in 0..3,
         NEW pc \in {"apply", "undoPVC", "undoDeployment", "fail", "promote",
                     "delete", "stop"},
         Goto(p, pc, step)
  PROVE  proc' \in [Procs -> Handlers] /\ answer' \in Answers
<1> DEFINE h == [proc[p] EXCEPT !.pc = pc, !.step = step]
<1>1. proc' = [proc EXCEPT ![p] = h] /\ answer' = NoAnswer
  BY DEF Goto, Silent, TypeOK
<1>2. h \in Handlers
  BY DEF Handlers, TypeOK
<1> QED
  BY <1>1, <1>2 DEF NoAnswer, Answers, TypeOK

LEMMA FinishTyped ==
  ASSUME TypeOK, NEW p \in Procs, NEW reply \in Replies, Finish(p, reply)
  PROVE  proc' \in [Procs -> Handlers] /\ answer' \in Answers
BY DEF Finish, Respond, Idle, Answers, Handlers, TypeOK

LEMMA ReplyTyped ==
  ASSUME TypeOK, NEW op \in {"create", "get", "current", "delete", "list"},
         NEW id \in Ids \cup {NoId}, NEW reply \in Replies, Reply(op, id, reply)
  PROVE  proc' \in [Procs -> Handlers] /\ answer' \in Answers
BY DEF Reply, Respond, Answers, TypeOK

LEMMA ProceedTyped ==
  ASSUME TypeOK, NEW p \in Procs, Proceed(p)
  PROVE  proc' \in [Procs -> Handlers] /\ answer' \in Answers
BY GotoTyped, FinishTyped DEF Proceed, Replies

LEMMA RemoveTyped ==
  ASSUME TypeOK, NEW id \in Ids, NEW kind, NEW gone \in BOOLEAN,
         Remove(id, kind, gone)
  PROVE  cluster' \in [Ids -> SUBSET Kinds] /\ available' \subseteq Ids
BY DEF Remove, TypeOK

LEMMA FaultTyped ==
  ASSUME TypeOK, NEW kind, NoFault \/ Fault(kind)
  PROVE  faults' \in 0..MaxFaults
BY FaultsAssumption DEF TypeOK, Fault, NoFault

(* The typing of the variables of the store, for every kind of step.        *)
StoreTyped ==
  /\ sessions \in [Ids -> Sessions] /\ byUser \in [Users -> Ids \cup {NoId}]
  /\ disk \in [Ids -> Sessions] /\ intact \in BOOLEAN

LEMMA StoreStaysTyped ==
  ASSUME Setting, [Next]_vars
  PROVE  StoreTyped'
<1> USE DEF StoreTyped, Setting
<1>1. CASE StoreIdle
  BY <1>1 DEF StoreIdle, storeVars, TypeOK
<1>2. CASE SomeStatusSet
  BY <1>2, SetStatusChangesOne DEF SomeStatusSet, TypeOK
<1>3. CASE SomeCreate
  <2>1. PICK p \in Procs, u \in Users, id \in Ids : Create(p, u, id)
    BY <1>3 DEF SomeCreate
  <2>2. [byUser EXCEPT ![u] = id] \in [Users -> Ids \cup {NoId}]
    BY DEF TypeOK
  <2> QED
    BY <2>1, <2>2, CreateAddsOne DEF TypeOK
<1>4. CASE Boot
  BY <1>4 DEF Boot, Rebuilt, TypeOK
<1>5. CASE Crash
  <2>1. EmptyMap \in [Ids -> Sessions]
    BY DEF EmptyMap, NoSession, Sessions
  <2> QED
    BY <1>5, <2>1 DEF Crash, TypeOK
<1> QED
  BY <1>1, <1>2, <1>3, <1>4, <1>5, StoreSteps

LEMMA TypeStep ==
  ASSUME Setting, [Next]_vars
  PROVE  TypeOK'
<1> USE DEF Setting
<1> DEFINE Rest ==
      /\ cluster \in [Ids -> SUBSET Kinds] /\ available \subseteq Ids
      /\ proc \in [Procs -> Handlers] /\ answer \in Answers
      /\ server \in {"down", "reconciling", "serving"}
      /\ todo \subseteq Ids /\ faults \in 0..MaxFaults
<1>s. Silent => answer' \in Answers
  BY DEF Silent, NoAnswer, Answers
<1>f. NoFault => faults' \in 0..MaxFaults
  BY FaultTyped
<1>k. /\ UNCHANGED k8sVars => cluster' \in [Ids -> SUBSET Kinds] /\ available' \subseteq Ids
      /\ UNCHANGED bootVars => /\ server' \in {"down", "reconciling", "serving"}
                               /\ todo' \subseteq Ids
      /\ UNCHANGED proc => proc' \in [Procs -> Handlers]
  BY DEF TypeOK, k8sVars, bootVars
<1>h. ASSUME NEW p \in Procs, proc[p].pc # "idle"
      PROVE  /\ proc[p].id \in Ids /\ proc[p].step \in 1..3
             /\ ApplyOrder[proc[p].step] \in Kinds
  BY <1>h DEF HandlersHaveSession, ApplyOrder, Kinds
<1>1. CASE UNCHANGED vars
  BY <1>1 DEF vars, TypeOK
<1>2. ASSUME NEW p \in Procs, NEW u \in Users,
             CreateRefused(p, u) \/ List(p, u)
      PROVE  Rest'
  BY <1>2, <1>k, <1>f, ReplyTyped DEF CreateRefused, List, CanStart, Replies
<1>3. ASSUME NEW p \in Procs, NEW u \in Users, Current(p, u)
      PROVE  Rest'
  <2>1. byUser[u] \in Ids \cup {NoId}
    BY DEF TypeOK
  <2>2. proc' \in [Procs -> Handlers] /\ answer' \in Answers
    BY <1>3, <2>1, ReplyTyped, StartTyped DEF Current, Replies
  <2> QED
    BY <1>3, <2>2, <1>k, <1>f DEF Current
<1>4. ASSUME NEW p \in Procs, NEW u \in Users, NEW id \in Ids, Create(p, u, id)
      PROVE  Rest'
  <2>1. proc' \in [Procs -> Handlers] /\ answer' \in Answers
    BY <1>4, ReplyTyped, StartTyped DEF Create, Replies
  <2> QED
    BY <1>4, <2>1, <1>k, CreateAddsOne DEF Create
<1>5. ASSUME NEW p \in Procs, NEW u \in Users, NEW id \in Ids,
             Get(p, u, id) \/ Delete(p, u, id)
      PROVE  Rest'
  <2>1. PICK op \in {"get", "delete"} : Read(p, op, u, id)
    BY <1>5 DEF Get, Delete
  <2>2. proc' \in [Procs -> Handlers] /\ answer' \in Answers
    BY <2>1, ReplyTyped, StartTyped DEF Read, Replies
  <2> QED
    BY <2>1, <2>2, <1>k, <1>f DEF Read
<1>6. ASSUME NEW p \in Procs, Continue(p)
      PROVE  Rest'
  <2>1. CASE ApplyCreates(p)
    <3>1. proc' \in [Procs -> Handlers] /\ answer' \in Answers
      <4>1. proc[p].step \in 1..3
        BY <2>1, <1>h DEF ApplyCreates
      <4>2. CASE proc[p].step = 3
        BY <2>1, <4>2, FinishTyped DEF ApplyCreates, Replies
      <4>3. CASE proc[p].step # 3
        BY <2>1, <4>1, <4>3, GotoTyped DEF ApplyCreates
      <4> QED
        BY <4>2, <4>3
    <3>2. cluster' \in [Ids -> SUBSET Kinds]
      BY <2>1, <1>h DEF ApplyCreates, TypeOK
    <3> QED
      BY <2>1, <3>1, <3>2, <1>k, <1>f DEF ApplyCreates, TypeOK
  <2>2. CASE ApplyFails(p)
    <3>1. proc' \in [Procs -> Handlers] /\ answer' \in Answers
      BY <2>2, <1>h, GotoTyped DEF ApplyFails
    <3>2. cluster' \in [Ids -> SUBSET Kinds]
      BY <2>2, <1>h DEF ApplyFails, TypeOK
    <3> QED
      BY <2>2, <3>1, <3>2, <1>k, FaultTyped DEF ApplyFails, TypeOK
  <2>3. CASE Undo(p)
    <3>1. proc' \in [Procs -> Handlers] /\ answer' \in Answers
      BY <2>3, <1>h, GotoTyped DEF Undo
    <3>2. cluster' \in [Ids -> SUBSET Kinds] /\ available' \subseteq Ids
          /\ faults' \in 0..MaxFaults
      BY <2>3, <1>h, RemoveTyped, FaultTyped DEF Undo
    <3> QED
      BY <2>3, <3>1, <3>2, <1>k DEF Undo
  <2>4. CASE FailCreate(p)
    <3>1. proc' \in [Procs -> Handlers] /\ answer' \in Answers
      BY <2>4, FinishTyped DEF FailCreate, Replies
    <3>2. faults' \in 0..MaxFaults
      BY <2>4, <1>h, <1>f, SetStatusChangesOne DEF FailCreate, SetStatusInvalid
    <3> QED
      BY <2>4, <3>1, <3>2, <1>k DEF FailCreate
  <2>5. CASE Probe(p)
    <3>1. proc' \in [Procs -> Handlers] /\ answer' \in Answers
      BY <2>5, GotoTyped, ProceedTyped, FinishTyped DEF Probe, Replies
    <3> QED
      BY <2>5, <3>1, <1>k, FaultTyped DEF Probe
  <2>6. CASE Promote(p)
    <3>1. proc' \in [Procs -> Handlers] /\ answer' \in Answers
      BY <2>6, ProceedTyped, FinishTyped DEF Promote, Replies
    <3>2. faults' \in 0..MaxFaults
      BY <2>6, <1>h, <1>f, SetStatusChangesOne DEF Promote, SetStatusInvalid
    <3> QED
      BY <2>6, <3>1, <3>2, <1>k DEF Promote
  <2>7. CASE DeleteResource(p)
    <3>1. proc' \in [Procs -> Handlers] /\ answer' \in Answers
      <4>1. proc[p].step \in 1..3
        BY <2>7, <1>h DEF DeleteResource
      <4>2. \/ proc[p].step = 3 /\ Goto(p, "stop", 1)
            \/ proc[p].step # 3 /\ Goto(p, "delete", proc[p].step + 1)
            \/ Finish(p, "failed")
        BY <2>7 DEF DeleteResource
      <4> QED
        BY <4>1, <4>2, FinishTyped, GotoTyped DEF Replies
    <3>2. cluster' \in [Ids -> SUBSET Kinds] /\ available' \subseteq Ids
          /\ faults' \in 0..MaxFaults
      BY <2>7, <1>h, RemoveTyped, FaultTyped DEF DeleteResource
    <3> QED
      BY <2>7, <3>1, <3>2, <1>k DEF DeleteResource
  <2>8. CASE Stop(p)
    <3>1. proc' \in [Procs -> Handlers] /\ answer' \in Answers
      BY <2>8, FinishTyped DEF Stop, Replies
    <3>2. faults' \in 0..MaxFaults
      BY <2>8, <1>h, <1>f, SetStatusChangesOne DEF Stop, SetStatusInvalid
    <3> QED
      BY <2>8, <3>1, <3>2, <1>k DEF Stop
  <2> QED
    BY <1>6, <2>1, <2>2, <2>3, <2>4, <2>5, <2>6, <2>7, <2>8 DEF Continue
<1>7. ASSUME NEW id \in Ids, NEW s \in ApiStatuses, SetStatusCall(id, s)
      PROVE  Rest'
  <2>1. s \in {"ready", "stopping", "stopped", "error"}
    BY FaultsAssumption
  <2> QED
    BY <1>7, <2>1, <1>s, <1>k, SetStatusChangesOne DEF SetStatusCall
<1>8. ASSUME Crash
      PROVE  Rest'
  <2>1. Idle \in Handlers
    BY DEF Idle, Handlers
  <2>2. faults' \in 0..MaxFaults
    BY <1>8, FaultTyped DEF Crash
  <2> QED
    BY <1>8, <2>1, <2>2, <1>s DEF Crash, k8sVars, TypeOK
<1>9. ASSUME Boot
      PROVE  Rest'
  BY <1>9, <1>s, <1>f DEF Boot, k8sVars, TypeOK
<1>10. ASSUME Serve
       PROVE  Rest'
  BY <1>10, <1>s, <1>f DEF Serve, k8sVars, TypeOK
<1>11. ASSUME NEW id \in Ids, Adopt(id)
       PROVE  Rest'
  BY <1>11, <1>s, <1>k, FaultTyped DEF Adopt, TypeOK
<1>12. ASSUME NEW id \in Ids, Tombstone(id)
       PROVE  Rest'
  BY <1>12, <1>s, <1>k, SetStatusChangesOne DEF Tombstone, TypeOK
<1>13. ASSUME NEW id \in Ids, PodAvailable(id) \/ PodUnavailable(id)
       PROVE  Rest'
  BY <1>13, <1>s, <1>k, FaultTyped DEF PodAvailable, PodUnavailable, TypeOK
<1>14. StoreTyped'
  BY StoreStaysTyped
<1> HIDE DEF Rest
<1>15. Next => Rest'
  BY <1>2, <1>3, <1>4, <1>5, <1>6, <1>7, <1>8, <1>9, <1>10, <1>11, <1>12, <1>13
     DEF Next
<1> QED
  BY <1>1, <1>14, <1>15 DEF Rest, TypeOK, StoreTyped

-----------------------------------------------------------------------------
(* The handlers: none runs while the panel is not serving, and the session  *)
(* a handler works on stays in the map for as long as the handler runs.     *)

(* What is in the map stays in it until a crash.                            *)
LEMMA PresentStays ==
  ASSUME Setting, [Next]_vars, DownIsEmpty, server' # "down",
         NEW id \in Ids, Present(sessions, id)
  PROVE  Present(sessions, id)'
<1> USE DEF Setting
<1>1. CASE StoreIdle
  BY <1>1 DEF StoreIdle, storeVars, Present
<1>2. CASE SomeStatusSet
  <2>1. PICK i \in Ids, s \in {"ready", "stopping", "stopped", "error"},
             outcome \in SaveOutcomes : SetStatus(i, s, outcome)
    BY <1>2 DEF SomeStatusSet
  <2> QED
    BY <2>1, SetStatusChangesOne DEF Present
<1>3. CASE SomeCreate
  <2>1. PICK p \in Procs, u \in Users, i \in Ids : Create(p, u, i)
    BY <1>3 DEF SomeCreate
  <2> QED
    BY <2>1, CreateAddsOne DEF Present, TypeOK
<1>4. CASE Boot
  BY <1>4 DEF Boot, DownIsEmpty, EmptyMap, NoSession, Present
<1>5. CASE Crash
  BY <1>5 DEF Crash
<1> QED
  BY <1>1, <1>2, <1>3, <1>4, <1>5, StoreSteps

(* After a step, a handler that is not idle works, while the panel serves,  *)
(* on the session it worked on before or on one that is in the map.         *)
HandlerFollows ==
  \A q \in Procs : proc'[q].pc # "idle" =>
    /\ server' = "serving" /\ proc'[q].step \in 1..3 /\ proc'[q].id \in Ids
    /\ \/ proc[q].pc # "idle" /\ proc'[q].id = proc[q].id
       \/ Present(sessions', proc'[q].id)

LEMMA KeepFollows ==
  ASSUME Setting, server' = server, proc' = proc
  PROVE  HandlerFollows
BY DEF HandlerFollows, Setting, HandlersHaveSession

LEMMA FinishFollows ==
  ASSUME Setting, server' = server, NEW p \in Procs, NEW reply, Finish(p, reply)
  PROVE  HandlerFollows
<1>1. \A q \in Procs : proc'[q] = IF q = p THEN Idle ELSE proc[q]
  BY DEF Finish, Setting, TypeOK
<1> QED
  BY <1>1 DEF HandlerFollows, Setting, HandlersHaveSession, Idle

LEMMA GotoFollows ==
  ASSUME Setting, server' = server, NEW p \in Procs, proc[p].pc # "idle",
         NEW pc, NEW step \in 1..3, Goto(p, pc, step)
  PROVE  HandlerFollows
<1> DEFINE h == [proc[p] EXCEPT !.pc = pc, !.step = step]
<1>1. proc' = [proc EXCEPT ![p] = h] /\ proc[p] \in Handlers
  BY DEF Goto, Setting, TypeOK
<1>2. h.id = proc[p].id /\ h.step = step
  BY <1>1 DEF Handlers
<1>3. \A q \in Procs : proc'[q] = IF q = p THEN h ELSE proc[q]
  BY <1>1 DEF Setting, TypeOK
<1> HIDE DEF h
<1> QED
  BY <1>2, <1>3 DEF HandlerFollows, Setting, HandlersHaveSession

LEMMA StartFollows ==
  ASSUME Setting, server' = server, server = "serving",
         NEW p \in Procs, NEW op, NEW u, NEW id \in Ids, NEW pc,
         Start(p, op, u, id, pc), Present(sessions, id)'
  PROVE  HandlerFollows
<1> DEFINE h == [pc |-> pc, op |-> op, user |-> u, id |-> id, step |-> 1]
<1>1. \A q \in Procs : proc'[q] = IF q = p THEN h ELSE proc[q]
  BY DEF Start, Setting, TypeOK
<1>2. h.id = id /\ h.step = 1
  OBVIOUS
<1> HIDE DEF h
<1> QED
  BY <1>1, <1>2 DEF HandlerFollows, Setting, HandlersHaveSession

LEMMA ProceedFollows ==
  ASSUME Setting, server' = server, NEW p \in Procs, proc[p].pc # "idle", Proceed(p)
  PROVE  HandlerFollows
BY GotoFollows, FinishFollows DEF Proceed

LEMMA HandlersFollow ==
  ASSUME Setting, [Next]_vars
  PROVE  HandlerFollows
<1>1. CASE UNCHANGED vars
  BY <1>1, KeepFollows DEF vars
<1>2. ASSUME NEW p \in Procs, NEW u \in Users,
             CreateRefused(p, u) \/ List(p, u)
      PROVE  HandlerFollows
  BY <1>2, KeepFollows DEF CreateRefused, List, Reply, bootVars
<1>3. ASSUME NEW p \in Procs, NEW u \in Users, Current(p, u)
      PROVE  HandlerFollows
  <2>1. server' = server /\ sessions' = sessions
    BY <1>3 DEF Current, storeVars, bootVars
  <2>2. CASE \E id, reply : Reply("current", id, reply)
    BY <2>1, <2>2, KeepFollows DEF Reply
  <2>3. CASE /\ byUser[u] # NoId /\ Start(p, "current", u, byUser[u], "probe")
             /\ NeedsProbe("current", sessions[byUser[u]].status)
    <3>1. byUser[u] \in Ids /\ Present(sessions, byUser[u])
      BY <2>3 DEF NeedsProbe, Present, Setting, TypeOK
    <3>2. server = "serving"
      BY <1>3 DEF Current, CanStart
    <3>3. Present(sessions, byUser[u])'  <=> sessions'[byUser'[u]].status # "absent"
      BY DEF Present
    <3>4. byUser' = byUser
      BY <1>3 DEF Current, storeVars
    <3>5. PICK id \in Ids : id = byUser[u]
      BY <3>1
    <3>6. Present(sessions, id)'
      BY <3>1, <3>5, <2>1 DEF Present
    <3> QED
      BY <2>1, <2>3, <3>2, <3>5, <3>6, StartFollows
  <2> QED
    BY <1>3, <2>2, <2>3 DEF Current
<1>4. ASSUME NEW p \in Procs, NEW u \in Users, NEW id \in Ids, Create(p, u, id)
      PROVE  HandlerFollows
  <2>1. server' = server /\ server = "serving"
    BY <1>4 DEF Create, CanStart, bootVars
  <2>2. \/ Reply("create", id, "failed")
        \/ Start(p, "create", u, id, "apply") /\ Present(sessions, id)'
    BY <1>4 DEF Create, Present, Setting, TypeOK
  <2> QED
    BY <2>1, <2>2, KeepFollows, StartFollows DEF Reply
<1>5. ASSUME NEW p \in Procs, NEW u \in Users, NEW id \in Ids,
             Get(p, u, id) \/ Delete(p, u, id)
      PROVE  HandlerFollows
  <2>1. PICK op \in {"get", "delete"} : Read(p, op, u, id)
    BY <1>5 DEF Get, Delete
  <2>2. server' = server /\ server = "serving" /\ sessions' = sessions
    BY <2>1 DEF Read, CanStart, bootVars, storeVars
  <2>3. \/ \E reply : Reply(op, id, reply)
        \/ \E pc : Start(p, op, u, id, pc) /\ Present(sessions, id)
    BY <2>1 DEF Read, Present
  <2>4. Present(sessions, id)' <=> Present(sessions, id)
    BY <2>2 DEF Present
  <2> QED
    BY <2>2, <2>3, <2>4, KeepFollows, StartFollows DEF Reply
<1>6. ASSUME NEW p \in Procs, Continue(p)
      PROVE  HandlerFollows
  <2>1. server' = server
    BY <1>6 DEF Continue, ApplyCreates, ApplyFails, Undo, FailCreate, Probe,
                Promote, DeleteResource, Stop, bootVars
  <2>2. proc[p].pc # "idle"
    BY <1>6 DEF Continue, ApplyCreates, ApplyFails, Undo, FailCreate, Probe,
                Promote, DeleteResource, Stop
  <2>3. proc[p].step \in 1..3
    BY <2>2 DEF Setting, HandlersHaveSession
  <2> USE <2>1, <2>2, <2>3
  <2>4. CASE ApplyCreates(p)
    <3>1. \/ Finish(p, "accepted")
          \/ proc[p].step # 3 /\ Goto(p, "apply", proc[p].step + 1)
      BY <2>4 DEF ApplyCreates
    <3> QED
      BY <3>1, FinishFollows, GotoFollows
  <2>5. CASE ApplyFails(p)
    <3>1. \/ Goto(p, "fail", proc[p].step) \/ Goto(p, "undoPVC", proc[p].step)
      BY <2>5 DEF ApplyFails
    <3> QED
      BY <3>1, GotoFollows
  <2>6. CASE Undo(p)
    <3>1. \/ Goto(p, "fail", proc[p].step) \/ Goto(p, "undoDeployment", proc[p].step)
      BY <2>6 DEF Undo
    <3> QED
      BY <3>1, GotoFollows
  <2>7. CASE FailCreate(p)
    BY <2>7, FinishFollows DEF FailCreate
  <2>8. CASE Probe(p)
    BY <2>8, FinishFollows, GotoFollows, ProceedFollows DEF Probe
  <2>9. CASE Promote(p)
    BY <2>9, FinishFollows, ProceedFollows DEF Promote
  <2>10. CASE DeleteResource(p)
    <3>1. \/ proc[p].step = 3 /\ Goto(p, "stop", 1)
          \/ proc[p].step # 3 /\ Goto(p, "delete", proc[p].step + 1)
          \/ Finish(p, "failed")
      BY <2>10 DEF DeleteResource
    <3> QED
      BY <3>1, FinishFollows, GotoFollows
  <2>11. CASE Stop(p)
    BY <2>11, FinishFollows DEF Stop
  <2> QED
    BY <1>6, <2>4, <2>5, <2>6, <2>7, <2>8, <2>9, <2>10, <2>11 DEF Continue
<1>7. ASSUME NEW id \in Ids, NEW s \in ApiStatuses, SetStatusCall(id, s)
      PROVE  HandlerFollows
  BY <1>7, KeepFollows DEF SetStatusCall, bootVars
<1>8. ASSUME NEW id \in Ids, Adopt(id) \/ Tombstone(id)
      PROVE  HandlerFollows
  BY <1>8, KeepFollows DEF Adopt, Tombstone
<1>9. ASSUME NEW id \in Ids, PodAvailable(id) \/ PodUnavailable(id)
      PROVE  HandlerFollows
  BY <1>9, KeepFollows DEF PodAvailable, PodUnavailable, bootVars
<1>10. ASSUME Boot \/ Serve
       PROVE  HandlerFollows
  <2>1. proc' = proc /\ server # "serving"
    BY <1>10 DEF Boot, Serve
  <2> QED
    BY <2>1 DEF HandlerFollows, Setting, HandlersHaveSession
<1>11. ASSUME Crash
       PROVE  HandlerFollows
  BY <1>11 DEF Crash, HandlerFollows, Idle
<1> QED
  BY <1>1, <1>2, <1>3, <1>4, <1>5, <1>6, <1>7, <1>8, <1>9, <1>10, <1>11 DEF Next

LEMMA HandlersStep ==
  ASSUME Setting, [Next]_vars, DownIsEmpty
  PROVE  HandlersHaveSession'
<1>1. HandlerFollows
  BY HandlersFollow
<1>2. ASSUME NEW q \in Procs, proc'[q].pc # "idle"
      PROVE  /\ server' = "serving" /\ proc'[q].step \in 1..3
             /\ proc'[q].id \in Ids /\ Present(sessions', proc'[q].id)
  <2>1. CASE proc[q].pc # "idle" /\ proc'[q].id = proc[q].id
    <3>1. PICK id \in Ids : id = proc[q].id /\ Present(sessions, id)
      BY <2>1 DEF Setting, HandlersHaveSession
    <3>2. Present(sessions, id)'
      BY <1>1, <1>2, <3>1, PresentStays DEF HandlerFollows
    <3> QED
      BY <1>1, <1>2, <2>1, <3>1, <3>2 DEF HandlerFollows, Present
  <2> QED
    BY <1>1, <1>2, <2>1 DEF HandlerFollows
<1> QED
  BY <1>2 DEF HandlersHaveSession

-----------------------------------------------------------------------------
(* The maps.  GoodMap is what memory and file have in common: both can be   *)
(* served.                                                                  *)

GoodMap(map) ==
  /\ map \in [Ids -> Sessions]
  /\ OneActivePerUser(map) /\ DistinctDomains(map) /\ ActiveHasOwner(map)

(* A map with fewer active sessions and the same users and domains is good. *)
LEMMA FewerActiveGood ==
  ASSUME NEW old, NEW new, GoodMap(old), new \in [Ids -> Sessions],
         \A i \in Ids : /\ Active(new, i) => Active(old, i)
                        /\ new[i].user = old[i].user
                        /\ new[i].domain = old[i].domain
  PROVE  GoodMap(new)
<1>1. OneActivePerUser(new)
  BY DEF GoodMap, OneActivePerUser
<1>2. DistinctDomains(new)
  BY DEF GoodMap, DistinctDomains
<1>3. ActiveHasOwner(new)
  BY DEF GoodMap, ActiveHasOwner
<1> QED
  BY <1>1, <1>2, <1>3 DEF GoodMap

(* A map in which one active session of another got a new status is as good.*)
LEMMA StatusKeepsGoodMap ==
  ASSUME NEW id \in Ids, NEW s \in {"ready", "stopping", "stopped", "error"},
         NEW outcome \in SaveOutcomes, TypeOK, GoodMap(sessions),
         SetStatus(id, s, outcome)
  PROVE  /\ GoodMap(sessions')
         /\ \A i \in Ids : /\ Active(sessions', i) => Active(sessions, i)
                           /\ Present(sessions', i) <=> Present(sessions, i)
                           /\ sessions'[i].user = sessions[i].user
<1>1. \A i \in Ids : /\ Active(sessions', i) => Active(sessions, i)
                     /\ sessions'[i].user = sessions[i].user
                     /\ sessions'[i].domain = sessions[i].domain
                     /\ Present(sessions', i) <=> Present(sessions, i)
  <2>1. Present(sessions, id) /\ Present(sessions', id)
    BY SetStatusChangesOne DEF Active, Present, ActiveStatuses
  <2>2. \A i \in Ids : i # id => sessions'[i] = sessions[i]
    BY SetStatusChangesOne
  <2> QED
    BY <2>1, <2>2, SetStatusChangesOne DEF Active, Present
<1>2. sessions' \in [Ids -> Sessions]
  BY SetStatusChangesOne
<1>3. GoodMap(sessions')
  BY <1>1, <1>2, FewerActiveGood
<1> QED
  BY <1>1, <1>3

(* A saved create adds a session of a user that had no active one, in a     *)
(* domain no active session uses: the map is as good as it was, and byUser  *)
(* names the new session.                                                   *)
LEMMA CreateKeepsGoodMap ==
  ASSUME NEW u \in Users, NEW id \in Ids, NEW d \in Domains \ UsedDomains(sessions),
         TypeOK, GoodMap(sessions), ByUserNamesActive, server = "serving",
         ~HasActive(u), ~Present(sessions, id),
         sessions' = [sessions EXCEPT ![id] =
                        [user |-> u, domain |-> d, status |-> "provisioning"]],
         sessions' \in [Ids -> Sessions],
         byUser' = [byUser EXCEPT ![u] = id]
  PROVE  /\ GoodMap(sessions')
         /\ \A i \in Ids : Active(sessions', i) => byUser'[sessions'[i].user] = i
         /\ \A i \in Ids : Present(sessions, i) => Present(sessions', i)
<1>1. /\ \A i \in Ids : i # id => sessions'[i] = sessions[i]
      /\ sessions'[id].user = u /\ sessions'[id].domain = d
      /\ sessions'[id].status = "provisioning"
  BY DEF TypeOK
<1>2. \A i \in Ids : Active(sessions, i) => /\ sessions[i].user # u
                                          /\ sessions[i].domain # d
  <2>1. SUFFICES ASSUME NEW i \in Ids, Active(sessions, i)
                 PROVE  sessions[i].user # u /\ sessions[i].domain # d
    OBVIOUS
  <2>2. sessions[i].user # u
    BY <2>1, NamesAssumption DEF ByUserNamesActive, HasActive
  <2>3. sessions[i].domain # d
    BY <2>1 DEF UsedDomains
  <2> QED
    BY <2>2, <2>3
<1>3. \A i \in Ids : i # id => (Active(sessions', i) <=> Active(sessions, i))
  BY <1>1 DEF Active
<1>4. OneActivePerUser(sessions')
  BY <1>1, <1>2, <1>3 DEF GoodMap, OneActivePerUser
<1>5. DistinctDomains(sessions')
  BY <1>1, <1>2, <1>3 DEF GoodMap, DistinctDomains
<1>6. ActiveHasOwner(sessions')
  BY <1>1, <1>3 DEF GoodMap, ActiveHasOwner
<1>7. ASSUME NEW i \in Ids, Active(sessions', i)
      PROVE  byUser'[sessions'[i].user] = i
  <2>1. CASE i = id
    BY <2>1, <1>1 DEF TypeOK
  <2>2. CASE i # id
    <3>1. Active(sessions, i) /\ sessions'[i].user = sessions[i].user
      BY <1>1, <1>3, <1>7, <2>2
    <3>2. byUser[sessions[i].user] = i /\ sessions[i].user \in Users
      BY <3>1 DEF ByUserNamesActive, GoodMap, ActiveHasOwner
    <3> QED
      BY <3>1, <3>2, <1>2 DEF TypeOK
  <2> QED
    BY <2>1, <2>2
<1>8. \A i \in Ids : Present(sessions, i) => Present(sessions', i)
  BY <1>1 DEF Present
<1> QED
  BY <1>4, <1>5, <1>6, <1>7, <1>8 DEF GoodMap

(* The empty map. *)
LEMMA EmptyMapGood ==
  /\ GoodMap(EmptyMap)
  /\ \A id \in Ids : ~Active(EmptyMap, id) /\ ~Present(EmptyMap, id)
<1>1. EmptyMap \in [Ids -> Sessions]
  BY DEF EmptyMap, NoSession, Sessions
<1>2. \A id \in Ids : ~Active(EmptyMap, id) /\ ~Present(EmptyMap, id)
  BY DEF EmptyMap, NoSession, Active, Present, ActiveStatuses
<1> QED
  BY <1>1, <1>2 DEF GoodMap, OneActivePerUser, DistinctDomains, ActiveHasOwner

(* The part of the invariant that speaks of the two maps. *)
MapsInv ==
  /\ GoodMap(sessions) /\ GoodMap(disk)
  /\ ByUserNamesActive /\ DownIsEmpty /\ KnownOnDisk

LEMMA MapsStep ==
  ASSUME Setting, MapsInv, [Next]_vars
  PROVE  /\ MapsInv'
         /\ \A id \in Ids : Present(disk, id) => Present(disk', id)
<1> USE DEF Setting
<1>1. CASE StoreIdle
  BY <1>1 DEF StoreIdle, storeVars, MapsInv, GoodMap, OneActivePerUser,
     DistinctDomains, ActiveHasOwner, ByUserNamesActive, DownIsEmpty, KnownOnDisk,
     Active, Present
<1>2. CASE SomeStatusSet
  <2>1. PICK id \in Ids, s \in {"ready", "stopping", "stopped", "error"},
             outcome \in SaveOutcomes : SetStatus(id, s, outcome)
    BY <1>2 DEF SomeStatusSet
  <2>2. server' = server /\ server # "down"
    BY <1>2 DEF SomeStatusSet
  <2>3. /\ GoodMap(sessions')
        /\ \A i \in Ids : /\ Active(sessions', i) => Active(sessions, i)
                          /\ Present(sessions', i) <=> Present(sessions, i)
                          /\ sessions'[i].user = sessions[i].user
    BY <2>1, StatusKeepsGoodMap DEF MapsInv
  <2>4. byUser' = byUser /\ (disk' = sessions' \/ disk' = disk)
    BY <2>1, SetStatusChangesOne
  <2>5. ByUserNamesActive'
    BY <2>2, <2>3, <2>4 DEF MapsInv, ByUserNamesActive
  <2>6. KnownOnDisk' /\ \A i \in Ids : Present(disk, i) => Present(disk', i)
    BY <2>2, <2>3, <2>4 DEF MapsInv, KnownOnDisk
  <2>7. DownIsEmpty'
    BY <2>2 DEF DownIsEmpty
  <2> QED
    BY <2>3, <2>4, <2>5, <2>6, <2>7 DEF MapsInv
<1>3. CASE SomeCreate
  <2>1. PICK p \in Procs, u \in Users, id \in Ids : Create(p, u, id)
    BY <1>3 DEF SomeCreate
  <2>2. server' = server /\ server = "serving"
    BY <1>3, <2>1 DEF SomeCreate, Create, bootVars
  <2>3. CASE sessions' = sessions /\ byUser' = byUser /\ disk' = disk
    BY <2>2, <2>3 DEF MapsInv, GoodMap, OneActivePerUser, DistinctDomains,
       ActiveHasOwner, ByUserNamesActive, DownIsEmpty, KnownOnDisk, Active, Present
  <2>4. ASSUME NEW d \in Domains \ UsedDomains(sessions),
               sessions' = [sessions EXCEPT ![id] =
                  [user |-> u, domain |-> d, status |-> "provisioning"]],
               sessions' \in [Ids -> Sessions],
               byUser' = [byUser EXCEPT ![u] = id],
               disk' = sessions'
        PROVE  /\ MapsInv'
               /\ \A i \in Ids : Present(disk, i) => Present(disk', i)
    <3>1. /\ GoodMap(sessions')
          /\ \A i \in Ids : Active(sessions', i) => byUser'[sessions'[i].user] = i
          /\ \A i \in Ids : Present(sessions, i) => Present(sessions', i)
      BY <2>1, <2>2, <2>4, CreateAddsOne, CreateKeepsGoodMap DEF MapsInv
    <3>2. ByUserNamesActive'
      BY <3>1 DEF ByUserNamesActive
    <3>3. DownIsEmpty' /\ KnownOnDisk'
      BY <2>2, <2>4 DEF DownIsEmpty, KnownOnDisk
    <3>4. \A i \in Ids : Present(disk, i) => Present(disk', i)
      BY <2>2, <2>4, <3>1 DEF MapsInv, KnownOnDisk
    <3> QED
      BY <2>4, <3>1, <3>2, <3>3, <3>4 DEF MapsInv
  <2> QED
    BY <2>1, <2>3, <2>4, CreateAddsOne
<1>4. CASE Boot
  <2>1. /\ sessions' = disk /\ disk' = disk /\ server' # "down"
        /\ byUser' \in Rebuilt(disk)
    BY <1>4 DEF Boot
  <2>2. ASSUME NEW i \in Ids, Active(disk, i)
        PROVE  byUser'[disk[i].user] = i
    <3>1. disk[i].user \in Users /\ i \in SessionsOf(disk, disk[i].user)
      BY <2>2 DEF MapsInv, GoodMap, ActiveHasOwner, SessionsOf
    <3>2. byUser'[disk[i].user] \in SessionsOf(disk, disk[i].user)
      BY <2>1, <3>1 DEF Rebuilt
    <3> QED
      BY <2>2, <3>2 DEF MapsInv, GoodMap, OneActivePerUser, SessionsOf
  <2>3. ByUserNamesActive'
    BY <2>1, <2>2 DEF ByUserNamesActive
  <2>4. DownIsEmpty' /\ KnownOnDisk'
    BY <2>1 DEF DownIsEmpty, KnownOnDisk
  <2> QED
    BY <2>1, <2>3, <2>4 DEF MapsInv
<1>5. CASE Crash
  <2>1. sessions' = EmptyMap /\ disk' = disk /\ server' = "down"
    BY <1>5 DEF Crash
  <2> QED
    BY <2>1, EmptyMapGood DEF MapsInv, ByUserNamesActive, DownIsEmpty, KnownOnDisk
<1> QED
  BY <1>1, <1>2, <1>3, <1>4, <1>5, StoreSteps

-----------------------------------------------------------------------------
(* The cluster *)

(* Only Apply creates a resource, and only for the session of its handler.  *)
ClusterFollows ==
  \A id \in Ids :
    cluster'[id] # {} =>
      \/ cluster[id] # {}
      \/ \E p \in Procs : proc[p].pc = "apply" /\ proc[p].id = id

LEMMA RemoveShrinks ==
  ASSUME TypeOK, NEW id \in Ids, NEW kind, NEW gone, Remove(id, kind, gone)
  PROVE  \A i \in Ids : cluster'[i] \subseteq cluster[i]
BY DEF Remove, TypeOK

LEMMA ClusterSteps ==
  ASSUME Setting, [Next]_vars
  PROVE  ClusterFollows
<1> USE DEF Setting
<1>a. UNCHANGED cluster => ClusterFollows
  BY DEF ClusterFollows
<1>k. UNCHANGED k8sVars => UNCHANGED cluster
  BY DEF k8sVars
<1>h. ASSUME NEW p \in Procs, proc[p].pc # "idle"
      PROVE  proc[p].id \in Ids
  BY <1>h DEF HandlersHaveSession
<1>1. CASE UNCHANGED vars
  BY <1>1, <1>a DEF vars
<1>2. ASSUME NEW p \in Procs, NEW u \in Users,
             CreateRefused(p, u) \/ Current(p, u) \/ List(p, u)
      PROVE  ClusterFollows
  BY <1>2, <1>a, <1>k DEF CreateRefused, Current, List
<1>3. ASSUME NEW p \in Procs, NEW u \in Users, NEW id \in Ids,
             Create(p, u, id) \/ Get(p, u, id) \/ Delete(p, u, id)
      PROVE  ClusterFollows
  BY <1>3, <1>a, <1>k DEF Create, Get, Delete, Read
<1>4. ASSUME NEW p \in Procs, Continue(p)
      PROVE  ClusterFollows
  <2>1. CASE ApplyCreates(p)
    <3>1. proc[p].id \in Ids /\ proc[p].pc = "apply"
      BY <2>1, <1>h DEF ApplyCreates
    <3>2. \A i \in Ids : i # proc[p].id => cluster'[i] = cluster[i]
      BY <2>1, <3>1 DEF ApplyCreates, TypeOK
    <3> QED
      BY <3>1, <3>2 DEF ClusterFollows
  <2>2. CASE ApplyFails(p)
    <3>1. proc[p].id \in Ids /\ proc[p].pc = "apply"
      BY <2>2, <1>h DEF ApplyFails
    <3>2. \A i \in Ids : i # proc[p].id => cluster'[i] = cluster[i]
      BY <2>2, <3>1 DEF ApplyFails, TypeOK
    <3> QED
      BY <3>1, <3>2 DEF ClusterFollows
  <2>3. CASE Undo(p)
    <3>1. \A i \in Ids : cluster'[i] \subseteq cluster[i]
      BY <2>3, <1>h, RemoveShrinks DEF Undo
    <3> QED
      BY <3>1 DEF ClusterFollows
  <2>4. CASE DeleteResource(p)
    <3>1. \A i \in Ids : cluster'[i] \subseteq cluster[i]
      BY <2>4, <1>h, RemoveShrinks DEF DeleteResource
    <3> QED
      BY <3>1 DEF ClusterFollows
  <2>5. CASE FailCreate(p) \/ Probe(p) \/ Promote(p) \/ Stop(p)
    BY <2>5, <1>a, <1>k DEF FailCreate, Probe, Promote, Stop
  <2> QED
    BY <1>4, <2>1, <2>2, <2>3, <2>4, <2>5 DEF Continue
<1>5. ASSUME NEW id \in Ids, NEW s \in ApiStatuses, SetStatusCall(id, s)
      PROVE  ClusterFollows
  BY <1>5, <1>a, <1>k DEF SetStatusCall
<1>6. ASSUME NEW id \in Ids, Adopt(id) \/ Tombstone(id) \/ PodAvailable(id)
                               \/ PodUnavailable(id)
      PROVE  ClusterFollows
  BY <1>6, <1>a, <1>k DEF Adopt, Tombstone, PodAvailable, PodUnavailable
<1>7. CASE Crash \/ Boot \/ Serve
  BY <1>7, <1>a, <1>k DEF Crash, Boot, Serve
<1> QED
  BY <1>1, <1>2, <1>3, <1>4, <1>5, <1>6, <1>7 DEF Next

-----------------------------------------------------------------------------
(* The inductive invariant *)

(* The store starts empty, stopped and with nothing in the cluster.         *)
LEMMA InitInv == Init => Inv
<1> SUFFICES ASSUME Init PROVE Inv
  OBVIOUS
<1>1. TypeOK
  <2>1. EmptyMap \in [Ids -> Sessions]
    BY DEF EmptyMap, NoSession, Sessions
  <2>2. NoAnswer \in Answers
    BY DEF NoAnswer, Answers
  <2>3. Idle \in Handlers
    BY DEF Idle, Handlers
  <2> QED
    BY <2>1, <2>2, <2>3, FaultsAssumption DEF Init, TypeOK
<1>2. HandlersHaveSession
  BY DEF Init, HandlersHaveSession, Idle
<1>3. MapsInv
  BY EmptyMapGood DEF Init, MapsInv, ByUserNamesActive, DownIsEmpty, KnownOnDisk
<1>4. WorkloadsAreRecorded
  BY DEF Init, WorkloadsAreRecorded
<1> QED
  BY <1>1, <1>2, <1>3, <1>4 DEF Inv, MapsInv, GoodMap, ExclusiveSessions

(* Every step preserves the invariant.                                      *)
LEMMA NextInv == Inv /\ [Next]_vars => Inv'
<1> SUFFICES ASSUME Inv, [Next]_vars PROVE Inv'
  OBVIOUS
<1>1. Setting
  BY DEF Inv, Setting
<1>2. MapsInv
  BY DEF Inv, MapsInv, GoodMap, ExclusiveSessions, TypeOK
<1>3. TypeOK'
  BY <1>1, TypeStep
<1>4. HandlersHaveSession'
  BY <1>1, HandlersStep DEF Inv
<1>5. MapsInv' /\ \A id \in Ids : Present(disk, id) => Present(disk', id)
  BY <1>1, <1>2, MapsStep
<1>6. WorkloadsAreRecorded'
  <2>1. ASSUME NEW id \in Ids, cluster'[id] # {}
        PROVE  Present(disk, id)
    <3>1. CASE cluster[id] # {}
      BY <3>1 DEF Inv, WorkloadsAreRecorded
    <3>2. ASSUME NEW p \in Procs, proc[p].pc = "apply", proc[p].id = id
          PROVE  Present(disk, id)
      BY <3>2 DEF Inv, HandlersHaveSession, KnownOnDisk
    <3> QED
      BY <1>1, <2>1, <3>1, <3>2, ClusterSteps DEF ClusterFollows
  <2> QED
    BY <1>5, <2>1 DEF WorkloadsAreRecorded, Present
<1> QED
  BY <1>3, <1>4, <1>5, <1>6 DEF Inv, MapsInv, GoodMap, ExclusiveSessions

(* The invariant holds throughout.                                          *)
THEOREM Invariant == Spec => []Inv
<1>1. Init => Inv
  BY InitInv
<1>2. Inv /\ [Next]_vars => Inv'
  BY NextInv
<1> QED
  BY <1>1, <1>2, PTL DEF Spec

(* Every variable keeps its type; in particular the step counter of a       *)
(* handler never runs past the three resources of a session.                *)
THEOREM TypeCorrect == Spec => []TypeOK
<1>1. Inv => TypeOK
  BY DEF Inv
<1> QED
  BY <1>1, Invariant, PTL

(* No user ever has two active sessions and no ROS domain is shared by two, *)
(* in memory or in the file, whatever fails (Create, store.go:169-226).     *)
THEOREM Exclusive == Spec => []ExclusiveSessions
<1>1. Inv => ExclusiveSessions
  BY DEF Inv
<1> QED
  BY <1>1, Invariant, PTL

(* byUser names every active session, also after it has been rebuilt from   *)
(* the file (store.go:92-124).                                              *)
THEOREM OwnersFindSessions == Spec => []ByUserNamesActive
<1>1. Inv => ByUserNamesActive
  BY DEF Inv
<1> QED
  BY <1>1, Invariant, PTL

(* No workload is orphaned: whatever exists in Kubernetes belongs to a      *)
(* session of the file.                                                     *)
THEOREM NoOrphanWorkload == Spec => []WorkloadsAreRecorded
<1>1. Inv => WorkloadsAreRecorded
  BY DEF Inv
<1> QED
  BY <1>1, Invariant, PTL

-----------------------------------------------------------------------------
(* What a step may not do *)

(* A session that has ended stays as it is while the panel runs.            *)
THEOREM EndedStaysEnded == Spec => TerminalIsFinal
<1> DEFINE Kept == \A id \in Ids :
             sessions[id].status \in TerminalStatuses /\ server' # "down"
               => sessions'[id] = sessions[id]
<1>1. ASSUME Inv, [Next]_vars
      PROVE  Kept
  <2> SUFFICES ASSUME NEW id \in Ids, sessions[id].status \in TerminalStatuses,
                      server' # "down"
               PROVE  sessions'[id] = sessions[id]
    OBVIOUS
  <2>0. Setting /\ TypeOK
    BY <1>1 DEF Inv, Setting
  <2>1. CASE StoreIdle
    BY <2>1 DEF StoreIdle, storeVars
  <2>2. CASE SomeStatusSet
    <3>1. PICK i \in Ids, s \in {"ready", "stopping", "stopped", "error"},
               outcome \in SaveOutcomes : SetStatus(i, s, outcome)
      BY <2>2 DEF SomeStatusSet
    <3>2. Active(sessions, i) /\ \A j \in Ids : j # i => sessions'[j] = sessions[j]
      BY <2>0, <3>1, SetStatusChangesOne
    <3> QED
      BY <3>2 DEF Active, ActiveStatuses, TerminalStatuses
  <2>3. CASE SomeCreate
    <3>1. PICK p \in Procs, u \in Users, i \in Ids : Create(p, u, i)
      BY <2>3 DEF SomeCreate
    <3>2. ~Present(sessions, i)
      BY <2>0, <3>1, CreateAddsOne
    <3>3. i # id
      BY <3>2 DEF Present, TerminalStatuses
    <3>4. sessions' = sessions
          \/ \E new : sessions' = [sessions EXCEPT ![i] = new]
      BY <2>0, <3>1, CreateAddsOne
    <3> QED
      BY <2>0, <3>3, <3>4 DEF TypeOK
  <2>4. CASE Boot
    BY <1>1, <2>4, EmptyMapGood DEF Boot, Inv, DownIsEmpty, EmptyMap, NoSession,
       TerminalStatuses
  <2>5. CASE Crash
    BY <2>5 DEF Crash
  <2> QED
    BY <1>1, <2>0, <2>1, <2>2, <2>3, <2>4, <2>5, StoreSteps
<1>2. Inv /\ [Next]_vars => [Kept]_vars
  BY <1>1
<1> QED
  BY <1>2, Invariant, PTL DEF Spec, TerminalIsFinal

(* Reconcile never stops a session whose Deployment exists.                 *)
LEMMA ReconcileSteps ==
  ASSUME Setting, [Next]_vars, server = "reconciling"
  PROVE  sessions' = sessions \/ Crash \/ \E id \in Ids : Tombstone(id)
<1>h. \A p \in Procs : proc[p].pc = "idle"
  BY DEF Setting, HandlersHaveSession
<1>1. CASE UNCHANGED vars
  BY <1>1 DEF vars
<1>2. ASSUME NEW p \in Procs, Continue(p)
      PROVE  FALSE
  BY <1>2, <1>h DEF Continue, ApplyCreates, ApplyFails, Undo, FailCreate, Probe,
     Promote, DeleteResource, Stop
<1>3. CASE Boot \/ Serve
  BY <1>3 DEF Boot, Serve, storeVars
<1>4. ASSUME NEW id \in Ids, Adopt(id) \/ PodAvailable(id) \/ PodUnavailable(id)
      PROVE  sessions' = sessions
  BY <1>4 DEF Adopt, PodAvailable, PodUnavailable, storeVars
<1>5. ASSUME NEW p \in Procs, NEW u \in Users, CreateRefused(p, u) \/ Current(p, u) \/ List(p, u)
      PROVE  FALSE
  BY <1>5 DEF CreateRefused, Current, List, CanStart
<1>6. ASSUME NEW p \in Procs, NEW u \in Users, NEW id \in Ids,
             Create(p, u, id) \/ Get(p, u, id) \/ Delete(p, u, id)
      PROVE  FALSE
  BY <1>6 DEF Create, Get, Delete, Read, CanStart
<1>7. ASSUME NEW id \in Ids, NEW s \in ApiStatuses, SetStatusCall(id, s)
      PROVE  FALSE
  BY <1>7 DEF SetStatusCall
<1> QED
  BY <1>1, <1>2, <1>3, <1>4, <1>5, <1>6, <1>7 DEF Next

THEOREM ReconcileIsSafe == Spec => ReconcileKeepsWorkloads
<1> DEFINE Kept == \A id \in Ids :
             server = "reconciling" /\ "deployment" \in cluster[id]
               /\ server' # "down" => sessions'[id] = sessions[id]
<1>1. ASSUME Inv, [Next]_vars
      PROVE  Kept
  <2> SUFFICES ASSUME NEW id \in Ids, server = "reconciling",
                      "deployment" \in cluster[id], server' # "down"
               PROVE  sessions'[id] = sessions[id]
    OBVIOUS
  <2>0. Setting /\ TypeOK
    BY <1>1 DEF Inv, Setting
  <2>1. CASE Crash
    BY <2>1 DEF Crash
  <2>2. ASSUME NEW i \in Ids, Tombstone(i)
        PROVE  sessions'[id] = sessions[id]
    <3>1. i # id
      BY <2>2 DEF Tombstone, WorkloadMissing
    <3> QED
      BY <2>0, <2>2, <3>1, SetStatusChangesOne DEF Tombstone
  <2> QED
    BY <1>1, <2>0, <2>1, <2>2, ReconcileSteps
<1>2. Inv /\ [Next]_vars => [Kept]_vars
  BY <1>1
<1> QED
  BY <1>2, Invariant, PTL DEF Spec, ReconcileKeepsWorkloads

(* A handler other than FailCreate that ends was not in "fail"; the ones    *)
(* that do not belong to p leave p alone.                                   *)
LEMMA FailingEnds ==
  ASSUME Setting, [Next]_vars, NEW p \in Procs,
         proc[p].pc = "fail", proc'[p].pc = "idle", server' # "down"
  PROVE  FailCreate(p)
<1> USE DEF Setting
<1>1. CASE UNCHANGED vars
  BY <1>1 DEF vars
<1>2. ASSUME NEW q \in Procs, NEW u \in Users, CreateRefused(q, u) \/ Current(q, u) \/ List(q, u)
      PROVE  FALSE
  <2>1. q # p /\ \A r \in Procs : r # q => proc'[r] = proc[r]
    BY <1>2 DEF CreateRefused, Current, List, CanStart, Reply, Start, TypeOK
  <2> QED
    BY <2>1
<1>3. ASSUME NEW q \in Procs, NEW u \in Users, NEW id \in Ids,
             Create(q, u, id) \/ Get(q, u, id) \/ Delete(q, u, id)
      PROVE  FALSE
  <2>1. q # p
    BY <1>3 DEF Create, Get, Delete, Read, CanStart
  <2>2. \A r \in Procs : r # q => proc'[r] = proc[r]
    <3>1. CASE Create(q, u, id)
      BY <3>1 DEF Create, Reply, Start, TypeOK
    <3>2. CASE Get(q, u, id)
      BY <3>2 DEF Get, Read, Reply, Start, TypeOK
    <3>3. CASE Delete(q, u, id)
      BY <3>3 DEF Delete, Read, Reply, Start, TypeOK
    <3> QED
      BY <1>3, <3>1, <3>2, <3>3
  <2> QED
    BY <2>1, <2>2
<1>4. ASSUME NEW q \in Procs, q # p, Continue(q)
      PROVE  FALSE
  <2>1. proc'[p] = proc[p]
    <3> USE DEF Goto, Finish, Proceed, TypeOK
    <3>1. CASE ApplyCreates(q) \/ ApplyFails(q) \/ Undo(q)
      BY <1>4, <3>1 DEF ApplyCreates, ApplyFails, Undo
    <3>2. CASE FailCreate(q) \/ Probe(q) \/ Stop(q)
      BY <1>4, <3>2 DEF FailCreate, Probe, Stop
    <3>3. CASE Promote(q) \/ DeleteResource(q)
      BY <1>4, <3>3 DEF Promote, DeleteResource
    <3> QED
      BY <1>4, <3>1, <3>2, <3>3 DEF Continue
  <2> QED
    BY <2>1
<1>5. CASE Continue(p)
  BY <1>5 DEF Continue, ApplyCreates, ApplyFails, Undo, Probe, Promote,
     DeleteResource, Stop
<1>6. ASSUME NEW id \in Ids, NEW s \in ApiStatuses, SetStatusCall(id, s)
      PROVE  FALSE
  BY <1>6 DEF SetStatusCall
<1>7. ASSUME NEW id \in Ids, Adopt(id) \/ Tombstone(id) \/ PodAvailable(id)
                               \/ PodUnavailable(id)
      PROVE  FALSE
  BY <1>7 DEF Adopt, Tombstone, PodAvailable, PodUnavailable
<1>8. ~(Crash \/ Boot \/ Serve)
  BY DEF Crash, Boot, Serve
<1> QED
  BY <1>1, <1>2, <1>3, <1>4, <1>5, <1>6, <1>7, <1>8 DEF Next

(* A create that fails after its record was saved ends the session.         *)
THEOREM FailedCreateEnds == Spec => FailedCreateEndsSession
<1> DEFINE Ended == \A p \in Procs :
             proc[p].pc = "fail" /\ proc'[p].pc = "idle" /\ server' # "down"
               => sessions'[proc[p].id].status \in TerminalStatuses
<1>1. ASSUME Inv, [Next]_vars
      PROVE  Ended
  <2> SUFFICES ASSUME NEW p \in Procs, proc[p].pc = "fail", proc'[p].pc = "idle",
                      server' # "down"
               PROVE  sessions'[proc[p].id].status \in TerminalStatuses
    OBVIOUS
  <2>0. Setting /\ TypeOK
    BY <1>1 DEF Inv, Setting
  <2>1. FailCreate(p)
    BY <1>1, <2>0, FailingEnds
  <2>2. proc[p].id \in Ids /\ Present(sessions, proc[p].id)
    BY <1>1 DEF Inv, HandlersHaveSession
  <2>3. ASSUME NEW outcome \in SaveOutcomes, SetStatus(proc[p].id, "error", outcome)
        PROVE  sessions'[proc[p].id].status \in TerminalStatuses
    BY <2>0, <2>2, <2>3, SetStatusChangesOne DEF TerminalStatuses
  <2>4. ASSUME SetStatusInvalid(proc[p].id, "error")
        PROVE  sessions'[proc[p].id].status \in TerminalStatuses
    BY <2>0, <2>2, <2>4 DEF SetStatusInvalid, ValidTransition, storeVars, TypeOK,
       Sessions, ActiveStatuses, TerminalStatuses, Present
  <2> QED
    BY <2>1, <2>3, <2>4 DEF FailCreate
<1>2. Inv /\ [Next]_vars => [Ended]_vars
  BY <1>1
<1> QED
  BY <1>2, Invariant, PTL DEF Spec, FailedCreateEndsSession

-----------------------------------------------------------------------------
(* The store implements the lease table *)

(* A legal setStatus ends a lease or leaves the table alone.                *)
LEMMA StatusEndsLease ==
  ASSUME Inv, SomeStatusSet
  PROVE  Lease!Next \/ UNCHANGED LeaseTable
<1>0. TypeOK
  BY DEF Inv
<1>1. PICK id \in Ids, s \in {"ready", "stopping", "stopped", "error"},
           outcome \in SaveOutcomes : SetStatus(id, s, outcome)
  BY DEF SomeStatusSet
<1>2. /\ Durable = sessions /\ Durable' = sessions'
      /\ Active(sessions, id)
      /\ \A i \in Ids : i # id => sessions'[i] = sessions[i]
      /\ sessions'[id].user = sessions[id].user
      /\ sessions'[id].domain = sessions[id].domain
      /\ sessions'[id].status = s
  BY <1>0, <1>1, SetStatusChangesOne DEF SomeStatusSet, Durable
<1>3. LeaseTable[id].phase = "live"
  BY <1>2 DEF LeaseTable, Phase, Active, ActiveStatuses
<1>4. CASE s \in ActiveStatuses
  <2>1. Phase(sessions'[id].status) = Phase(sessions[id].status)
    BY <1>2, <1>4 DEF Phase, Active, ActiveStatuses
  <2>2. \A i \in Ids : /\ sessions'[i].user = sessions[i].user
                       /\ sessions'[i].domain = sessions[i].domain
                       /\ Phase(sessions'[i].status) = Phase(sessions[i].status)
    BY <1>2, <2>1
  <2> QED
    BY <1>2, <2>2 DEF LeaseTable
<1>5. CASE s \notin ActiveStatuses
  <2>1. Phase(sessions'[id].status) = "over"
    BY <1>2, <1>5 DEF Phase, ActiveStatuses
  <2> DEFINE Row(i) == [user |-> sessions[i].user, domain |-> sessions[i].domain,
                        phase |-> Phase(sessions[i].status)]
             After(i) == [user |-> sessions'[i].user, domain |-> sessions'[i].domain,
                          phase |-> Phase(sessions'[i].status)]
  <2>2. LeaseTable = [i \in Ids |-> Row(i)] /\ LeaseTable' = [i \in Ids |-> After(i)]
    BY <1>2 DEF LeaseTable
  <2>3. After(id) = [Row(id) EXCEPT !.phase = "over"]
    BY <1>2, <2>1
  <2>4. \A i \in Ids : i # id => After(i) = Row(i)
    BY <1>2
  <2> HIDE DEF Row, After
  <2>5. LeaseTable' = [LeaseTable EXCEPT ![id].phase = "over"]
    BY <2>2, <2>3, <2>4
  <2> QED
    BY <1>3, <2>5 DEF Lease!Next, Lease!End
<1> QED
  BY <1>4, <1>5

(* A saved create grants the lowest free domain to a user without a lease.  *)
LEMMA CreateGrantsLease ==
  ASSUME Inv, SomeCreate
  PROVE  Lease!Next \/ UNCHANGED LeaseTable
<1>0. TypeOK /\ GoodMap(sessions)
  BY DEF Inv, GoodMap, ExclusiveSessions, TypeOK
<1>1. PICK p \in Procs, u \in Users, id \in Ids : Create(p, u, id)
  BY DEF SomeCreate
<1>2. PICK d \in Domains, outcome \in SaveOutcomes :
        LET map == [sessions EXCEPT ![id] =
                      [user |-> u, domain |-> d, status |-> "provisioning"]]
        IN /\ NextDomain(sessions, d)
           /\ Save(map, outcome)
           /\ IF outcome = "saved"
              THEN /\ sessions' = map
                   /\ byUser' = [byUser EXCEPT ![u] = id]
                   /\ Start(p, "create", u, id, "apply")
              ELSE /\ UNCHANGED <<sessions, byUser>>
                   /\ Reply("create", id, "failed")
  BY <1>1 DEF Create
<1>3. Durable = sessions /\ Durable' = sessions'
  BY <1>1 DEF Durable, Create, CanStart, bootVars
<1>4. CASE outcome # "saved"
  BY <1>2, <1>3, <1>4 DEF LeaseTable
<1>5. CASE outcome = "saved"
  <2>1. /\ \A i \in Ids : i # id => sessions'[i] = sessions[i]
        /\ sessions'[id] = [user |-> u, domain |-> d, status |-> "provisioning"]
    BY <1>0, <1>2, <1>5 DEF TypeOK
  <2>2. ~HasActive(u) /\ sessions[id].status = "absent"
    BY <1>1 DEF Create, Present
  <2>3. \A i \in Ids : Active(sessions, i) <=> LeaseTable[i].phase = "live"
    BY <1>0, <1>3 DEF LeaseTable, Phase, Active, ActiveStatuses, GoodMap, Sessions
  <2>4. LeaseTable[id].phase = "unborn"
    BY <1>3, <2>2 DEF LeaseTable, Phase
  <2>5. \A i \in Ids : Active(sessions, i) => LeaseTable[i].user # u
    <3>1. SUFFICES ASSUME NEW i \in Ids, Active(sessions, i), sessions[i].user = u
                   PROVE  FALSE
      BY <1>3 DEF LeaseTable
    <3>2. byUser[u] = i
      BY <1>1, <3>1 DEF Inv, ByUserNamesActive, Create, CanStart
    <3> QED
      BY <2>2, <3>1, <3>2, NamesAssumption DEF HasActive
  <2>6. Lease!FreeDomains = Domains \ UsedDomains(sessions)
    <3>1. \A i \in Ids : LeaseTable[i].domain = sessions[i].domain
      BY <1>3 DEF LeaseTable
    <3> QED
      BY <2>3, <3>1 DEF Lease!FreeDomains, Lease!Live, UsedDomains
  <2>7. LeaseTable' = [LeaseTable EXCEPT ![id] =
                         [user |-> u, domain |-> d, phase |-> "live"]]
    <3>1. Phase("provisioning") = "live"
      BY DEF Phase, ActiveStatuses
    <3>2. [user |-> sessions'[id].user, domain |-> sessions'[id].domain,
           phase |-> Phase(sessions'[id].status)]
            = [user |-> u, domain |-> d, phase |-> "live"]
      BY <2>1, <3>1
    <3>3. \A i \in Ids \ {id} :
            [user |-> sessions'[i].user, domain |-> sessions'[i].domain,
             phase |-> Phase(sessions'[i].status)]
              = [user |-> sessions[i].user, domain |-> sessions[i].domain,
                 phase |-> Phase(sessions[i].status)]
      BY <2>1
    <3> QED
      BY <1>3, <3>2, <3>3 DEF LeaseTable
  <2>8. NextDomain(sessions, d)
    BY <1>2
  <2>9. Lease!Grant(u, id, d)
    BY <2>3, <2>4, <2>5, <2>6, <2>7, <2>8 DEF Lease!Grant, Lease!Live, NextDomain
  <2> QED
    BY <2>9 DEF Lease!Next
<1> QED
  BY <1>4, <1>5

(* Every step is one of the lease table's or leaves it alone, except for a  *)
(* crash that finds the file behind the memory.                             *)
LEMMA LeaseSteps ==
  ASSUME Inv, [Next]_vars,
         server # "down" /\ server' = "down" => disk = sessions
  PROVE  Lease!Next \/ UNCHANGED LeaseTable
<1>1. CASE StoreIdle
  <2>1. Durable' = Durable
    BY <1>1 DEF StoreIdle, storeVars, Durable
  <2> QED
    BY <2>1 DEF LeaseTable
<1>2. CASE SomeStatusSet
  BY <1>2, StatusEndsLease
<1>3. CASE SomeCreate
  BY <1>3, CreateGrantsLease
<1>4. CASE Boot
  <2>1. Durable' = Durable
    BY <1>4 DEF Boot, Durable
  <2> QED
    BY <2>1 DEF LeaseTable
<1>5. CASE Crash
  <2>1. Durable' = Durable
    BY <1>5 DEF Crash, Durable
  <2> QED
    BY <2>1 DEF LeaseTable
<1> QED
  BY <1>1, <1>2, <1>3, <1>4, <1>5, StoreSteps DEF Inv, Setting

(* Only a restart from a stale file takes a lease back.                     *)
THEOREM OnlyStaleRestartForgets == Spec => LeaseUnlessStaleRestart
<1>1. Inv /\ [Next]_vars
        => [(server # "down" /\ server' = "down" => disk = sessions)
              => Lease!Next]_LeaseTable
  BY LeaseSteps
<1> QED
  BY <1>1, Invariant, PTL DEF Spec, LeaseUnlessStaleRestart

(* While no save fails the file is never behind the memory.                 *)
FileCurrent == server # "down" => disk = sessions

LEMMA FileStaysCurrent ==
  ASSUME FaultKinds \cap SaveFaults = {}, Setting, FileCurrent, [Next]_vars
  PROVE  FileCurrent'
<1>1. CASE StoreIdle
  BY <1>1 DEF StoreIdle, storeVars, FileCurrent
<1>2. CASE SomeStatusSet
  BY <1>2 DEF SomeStatusSet, SetStatus, Save, Fault, FileCurrent
<1>3. CASE SomeCreate
  BY <1>3 DEF SomeCreate, Create, Save, Fault, FileCurrent, bootVars
<1>4. CASE Boot
  BY <1>4 DEF Boot, FileCurrent
<1>5. CASE Crash
  BY <1>5 DEF Crash, FileCurrent
<1> QED
  BY <1>1, <1>2, <1>3, <1>4, <1>5, StoreSteps

(* As long as no save fails, the store with its handlers, crashes and       *)
(* restarts implements the lease table: no lease is ever forgotten.         *)
THEOREM StoreImplementsLease ==
  ASSUME FaultKinds \cap SaveFaults = {}
  PROVE  Spec => ImplementsLease
<1>1. Init => Lease!Init /\ FileCurrent
  <2>1. Init => /\ Durable = EmptyMap
                /\ FileCurrent
    BY DEF Init, Durable, FileCurrent
  <2>2. Durable = EmptyMap => Lease!Init
    BY DEF Lease!Init, LeaseTable, EmptyMap, NoSession, Phase
  <2> QED
    BY <2>1, <2>2
<1>2. Inv /\ FileCurrent /\ [Next]_vars => FileCurrent'
  BY FileStaysCurrent DEF Inv, Setting
<1>3. Inv /\ FileCurrent /\ [Next]_vars => [Lease!Next]_LeaseTable
  BY LeaseSteps DEF FileCurrent
<1> QED
  BY <1>1, <1>2, <1>3, Invariant, PTL DEF Spec, ImplementsLease, Lease!Spec

-----------------------------------------------------------------------------
(* A ready session is complete *)

(* Who applies is a create, and who removes or stops a delete.              *)
OpsFit ==
  \A p \in Procs : /\ proc[p].pc = "apply" => proc[p].op = "create"
                   /\ proc[p].pc \in {"delete", "stop"} => proc[p].op = "delete"

(* Before the first fault no create fails, and a panel that is down has not *)
(* been up yet.                                                             *)
Undisturbed ==
  faults = 0 =>
    /\ \A p \in Procs : proc[p].pc \notin {"undoPVC", "undoDeployment", "fail"}
    /\ server = "down" => disk = EmptyMap

(* A delete of the session has begun to remove.                             *)
Deleting(id) == \E p \in Procs : proc[p].pc \in {"delete", "stop"} /\ proc[p].id = id

(* Each resource of the session exists or is still to be created.           *)
Applies(id, k) ==
  \E p \in Procs : proc[p].pc = "apply" /\ proc[p].id = id /\ proc[p].step <= k

Built(id) == \A k \in 1..3 : ApplyOrder[k] \in cluster[id] \/ Applies(id, k)

ActiveAreBuilt ==
  faults = 0 => \A id \in Ids : Active(sessions, id) /\ ~Deleting(id) => Built(id)

CompleteInv == Inv /\ OpsFit /\ Undisturbed /\ ActiveAreBuilt

(* What a step without a fault does to the handlers and to Kubernetes.      *)
Others(p) == \A q \in Procs : q # p => proc'[q] = proc[q]

NoneAdded == \A id \in Ids : Active(sessions', id) => Active(sessions, id)

Rests == proc' = proc /\ cluster' = cluster /\ NoneAdded

Begins(p) ==
  /\ proc[p].pc = "idle" /\ cluster' = cluster /\ Others(p)
  /\ \/ /\ proc'[p].pc = "apply" /\ proc'[p].op = "create" /\ proc'[p].step = 1
        /\ \A id \in Ids : id # proc'[p].id => sessions'[id] = sessions[id]
     \/ /\ proc'[p].pc \in {"probe", "delete"} /\ sessions' = sessions
        /\ proc'[p].pc = "delete" => proc'[p].op = "delete"

Applied(p) ==
  /\ proc[p].pc = "apply" /\ sessions' = sessions /\ Others(p)
  /\ cluster' = [cluster EXCEPT ![proc[p].id] = @ \cup {ApplyOrder[proc[p].step]}]
  /\ \/ proc[p].step = 3 /\ proc'[p] = Idle
     \/ proc[p].step # 3 /\ proc'[p] = [proc[p] EXCEPT !.step = proc[p].step + 1]

Looks(p) ==
  /\ proc[p].pc \in {"probe", "promote"} /\ cluster' = cluster /\ NoneAdded /\ Others(p)
  /\ \/ proc'[p] = Idle
     \/ /\ proc'[p].pc \in {"promote", "delete"}
        /\ proc'[p].pc = "delete" => proc'[p].op = "delete"

Removes(p) ==
  /\ proc[p].pc = "delete" /\ sessions' = sessions /\ Others(p)
  /\ \A id \in Ids : id # proc[p].id => cluster'[id] = cluster[id]
  /\ proc'[p].pc \in {"delete", "stop"}
  /\ proc'[p].id = proc[p].id /\ proc'[p].op = proc[p].op

Stopped(p) ==
  /\ proc[p].pc = "stop" /\ cluster' = cluster /\ NoneAdded /\ Others(p)
  /\ proc'[p] = Idle /\ ~Active(sessions', proc[p].id)

CleanStep ==
  \/ Rests
  \/ \E p \in Procs : Begins(p) \/ Applied(p) \/ Looks(p) \/ Removes(p) \/ Stopped(p)

LEMMA StatusAddsNone ==
  ASSUME TypeOK, NEW id \in Ids, NEW s \in {"ready", "stopping", "stopped", "error"},
         NEW outcome \in SaveOutcomes, SetStatus(id, s, outcome)
  PROVE  NoneAdded /\ sessions'[id].status = s
BY SetStatusChangesOne DEF NoneAdded, Active

LEMMA CleanSteps ==
  ASSUME CompleteInv, [Next]_vars, faults' = 0
  PROVE  CleanStep /\ faults = 0
<1>0. /\ TypeOK /\ HandlersHaveSession /\ proc \in [Procs -> Handlers] /\ faults \in Nat
  BY FaultsAssumption DEF CompleteInv, Inv, TypeOK
<1>f. \A kind : ~Fault(kind)
  BY <1>0 DEF Fault
<1>n. NoFault => faults = 0
  BY DEF NoFault
<1>i. \A p \in Procs : proc[p].pc # "idle" => proc[p].id \in Ids
  BY <1>0 DEF HandlersHaveSession
<1>s. \A map, outcome : Save(map, outcome) => outcome = "saved" /\ NoFault
  BY <1>f DEF Save
<1>t. \A id \in Ids, s \in {"ready", "stopping", "stopped", "error"}, outcome \in SaveOutcomes :
        SetStatus(id, s, outcome)
          => NoneAdded /\ sessions'[id].status = s /\ NoFault /\ outcome = "saved"
  <2> SUFFICES ASSUME NEW id \in Ids, NEW s \in {"ready", "stopping", "stopped", "error"},
                      NEW outcome \in SaveOutcomes, SetStatus(id, s, outcome)
               PROVE  NoneAdded /\ sessions'[id].status = s /\ NoFault /\ outcome = "saved"
    OBVIOUS
  <2>1. NoFault /\ outcome = "saved"
    BY <1>s DEF SetStatus
  <2> QED
    BY <1>0, <2>1, StatusAddsNone
<1>e. \A p \in Procs : \A reply : Finish(p, reply) => Others(p) /\ proc'[p] = Idle
  BY <1>0 DEF Finish, Others
<1>h. \A p \in Procs : Proceed(p) =>
        /\ Others(p)
        /\ \/ proc'[p] = Idle
           \/ proc'[p].pc = "delete" /\ proc'[p].op = "delete"
  <2> SUFFICES ASSUME NEW p \in Procs, Proceed(p)
               PROVE  /\ Others(p)
                      /\ \/ proc'[p] = Idle
                         \/ proc'[p].pc = "delete" /\ proc'[p].op = "delete"
    OBVIOUS
  <2>1. CASE proc[p].op = "delete" /\ Goto(p, "delete", 1)
    BY <1>0, <2>1 DEF Goto, Others, Handlers
  <2>2. CASE Finish(p, "ok")
    BY <1>e, <2>2
  <2> QED
    BY <2>1, <2>2 DEF Proceed
<1>k. sessions' = sessions => NoneAdded
  BY DEF NoneAdded
<1>1. CASE UNCHANGED vars
  BY <1>1, <1>k DEF vars, CleanStep, Rests
<1>2. ASSUME NEW p \in Procs, NEW u \in Users, CreateRefused(p, u) \/ List(p, u)
      PROVE  CleanStep /\ faults = 0
  BY <1>2, <1>k, <1>n DEF CreateRefused, List, Reply, storeVars, k8sVars, CleanStep, Rests
<1>3. ASSUME NEW p \in Procs, NEW u \in Users, Current(p, u)
      PROVE  CleanStep /\ faults = 0
  <2>1. /\ sessions' = sessions /\ cluster' = cluster /\ NoFault /\ proc[p].pc = "idle"
        /\ \/ proc' = proc
           \/ \E id : Start(p, "current", u, id, "probe")
    BY <1>3 DEF Current, Reply, storeVars, k8sVars, CanStart
  <2>2. CASE proc' = proc
    BY <1>k, <1>n, <2>1, <2>2 DEF CleanStep, Rests
  <2>3. ASSUME NEW id, Start(p, "current", u, id, "probe")
        PROVE  CleanStep /\ faults = 0
    <3>1. Begins(p)
      BY <1>0, <2>1, <2>3 DEF Start, Others, Begins
    <3> QED
      BY <1>n, <2>1, <3>1 DEF CleanStep
  <2> QED
    BY <2>1, <2>2, <2>3
<1>4. ASSUME NEW p \in Procs, NEW u \in Users, NEW id \in Ids, Get(p, u, id) \/ Delete(p, u, id)
      PROVE  CleanStep /\ faults = 0
  <2>0. PICK op \in {"get", "delete"} : Read(p, op, u, id)
    BY <1>4 DEF Get, Delete
  <2>1. /\ sessions' = sessions /\ cluster' = cluster /\ NoFault /\ proc[p].pc = "idle"
        /\ \/ proc' = proc
           \/ Start(p, op, u, id, "probe")
           \/ op = "delete" /\ Start(p, op, u, id, "delete")
    BY <2>0 DEF Read, Reply, storeVars, k8sVars, CanStart
  <2>2. CASE proc' = proc
    BY <1>k, <1>n, <2>1, <2>2 DEF CleanStep, Rests
  <2>3. CASE Start(p, op, u, id, "probe")
    <3>1. Begins(p)
      BY <1>0, <2>1, <2>3 DEF Start, Others, Begins
    <3> QED
      BY <1>n, <2>1, <3>1 DEF CleanStep
  <2>4. CASE op = "delete" /\ Start(p, op, u, id, "delete")
    <3>1. Begins(p)
      BY <1>0, <2>1, <2>4 DEF Start, Others, Begins
    <3> QED
      BY <1>n, <2>1, <3>1 DEF CleanStep
  <2> QED
    BY <2>1, <2>2, <2>3, <2>4
<1>5. ASSUME NEW p \in Procs, NEW u \in Users, NEW id \in Ids, Create(p, u, id)
      PROVE  CleanStep /\ faults = 0
  <2>1. PICK d \in Domains, outcome \in SaveOutcomes :
          LET map == [sessions EXCEPT ![id] =
                        [user |-> u, domain |-> d, status |-> "provisioning"]]
          IN /\ Save(map, outcome)
             /\ IF outcome = "saved"
                THEN sessions' = map /\ Start(p, "create", u, id, "apply")
                ELSE sessions' = sessions /\ Reply("create", id, "failed")
    BY <1>5 DEF Create
  <2>2. outcome = "saved" /\ NoFault /\ cluster' = cluster /\ proc[p].pc = "idle"
    BY <1>5, <1>s, <2>1 DEF Create, CanStart, k8sVars
  <2>3. Start(p, "create", u, id, "apply")
    BY <2>1, <2>2
  <2>4. \A i \in Ids : i # id => sessions'[i] = sessions[i]
    BY <1>0, <2>1, <2>2 DEF TypeOK
  <2>5. Begins(p)
    BY <1>0, <2>2, <2>3, <2>4 DEF Start, Others, Begins
  <2> QED
    BY <1>n, <2>2, <2>5 DEF CleanStep
<1>6. ASSUME NEW p \in Procs, ApplyCreates(p)
      PROVE  CleanStep /\ faults = 0
  <2>1. /\ proc[p].pc = "apply" /\ sessions' = sessions /\ NoFault
        /\ cluster' = [cluster EXCEPT ![proc[p].id] = @ \cup {ApplyOrder[proc[p].step]}]
        /\ IF proc[p].step = 3 THEN Finish(p, "accepted")
           ELSE Goto(p, "apply", proc[p].step + 1)
    BY <1>6 DEF ApplyCreates, storeVars
  <2>2. proc[p].step # 3 => proc'[p] = [proc[p] EXCEPT !.step = proc[p].step + 1]
    BY <1>0, <2>1 DEF Goto, Handlers
  <2>3. Applied(p)
    BY <1>0, <1>e, <2>1, <2>2 DEF Goto, Others, Applied
  <2> QED
    BY <1>n, <2>1, <2>3 DEF CleanStep
<1>7. ASSUME NEW p \in Procs, ApplyFails(p) \/ Undo(p) \/ FailCreate(p)
      PROVE  FALSE
  <2>1. faults = 0 \/ ApplyFails(p)
    BY <1>f, <1>n, <1>7, <1>s DEF Undo, FailCreate, SetStatus, SetStatusInvalid
  <2> QED
    BY <1>f, <1>7, <2>1 DEF ApplyFails, Undo, FailCreate, CompleteInv, Undisturbed
<1>8. ASSUME NEW p \in Procs, Probe(p)
      PROVE  CleanStep /\ faults = 0
  <2>1. /\ proc[p].pc = "probe" /\ sessions' = sessions /\ cluster' = cluster /\ NoFault
        /\ Goto(p, "promote", 1) \/ Proceed(p)
    BY <1>8, <1>f DEF Probe, storeVars, k8sVars
  <2>2. CASE Goto(p, "promote", 1)
    <3>1. proc'[p].pc = "promote" /\ Others(p)
      BY <1>0, <2>2 DEF Goto, Others, Handlers
    <3> QED
      BY <1>k, <1>n, <2>1, <3>1 DEF Looks, CleanStep
  <2>3. CASE Proceed(p)
    BY <1>h, <1>k, <1>n, <2>1, <2>3 DEF Looks, CleanStep
  <2> QED
    BY <2>1, <2>2, <2>3
<1>9. ASSUME NEW p \in Procs, Promote(p)
      PROVE  CleanStep /\ faults = 0
  <2>1. proc[p].pc = "promote" /\ cluster' = cluster /\ proc[p].id \in Ids
    BY <1>9, <1>i DEF Promote, k8sVars
  <2>2. CASE SetStatusInvalid(proc[p].id, "ready") /\ Finish(p, "invalid")
    BY <1>e, <1>k, <1>n, <2>1, <2>2 DEF SetStatusInvalid, storeVars, Looks, CleanStep
  <2>3. ASSUME NEW outcome \in SaveOutcomes, SetStatus(proc[p].id, "ready", outcome),
               Proceed(p) \/ Finish(p, "failed")
        PROVE  CleanStep /\ faults = 0
    BY <1>e, <1>h, <1>n, <1>t, <2>1, <2>3 DEF Looks, CleanStep
  <2> QED
    BY <1>9, <2>2, <2>3 DEF Promote, SaveOutcomes
<1>10. ASSUME NEW p \in Procs, DeleteResource(p)
       PROVE  CleanStep /\ faults = 0
  <2>1. /\ proc[p].pc = "delete" /\ sessions' = sessions /\ NoFault
        /\ Remove(proc[p].id, DeleteOrder[proc[p].step], TRUE)
        /\ Goto(p, "stop", 1) \/ Goto(p, "delete", proc[p].step + 1)
    BY <1>10, <1>f DEF DeleteResource, storeVars
  <2>2. \A id \in Ids : id # proc[p].id => cluster'[id] = cluster[id]
    BY <1>0, <2>1 DEF Remove, TypeOK
  <2>3. /\ Others(p) /\ proc'[p].pc \in {"delete", "stop"}
        /\ proc'[p].id = proc[p].id /\ proc'[p].op = proc[p].op
    BY <1>0, <2>1 DEF Goto, Others, Handlers
  <2>4. Removes(p)
    BY <2>1, <2>2, <2>3 DEF Removes
  <2> QED
    BY <1>n, <2>1, <2>4 DEF CleanStep
<1>11. ASSUME NEW p \in Procs, Stop(p)
       PROVE  CleanStep /\ faults = 0
  <2>1. proc[p].pc = "stop" /\ cluster' = cluster /\ proc[p].id \in Ids
    BY <1>11, <1>i DEF Stop, k8sVars
  <2>2. Others(p) /\ proc'[p] = Idle
    BY <1>11, <1>e DEF Stop
  <2>3. CASE SetStatusInvalid(proc[p].id, "stopped")
    BY <1>k, <1>n, <2>1, <2>2, <2>3
    DEF SetStatusInvalid, storeVars, ValidTransition, Active, ActiveStatuses, Stopped, CleanStep
  <2>4. ASSUME NEW outcome \in SaveOutcomes, SetStatus(proc[p].id, "stopped", outcome)
        PROVE  CleanStep /\ faults = 0
    BY <1>n, <1>t, <2>1, <2>2, <2>4 DEF Active, ActiveStatuses, Stopped, CleanStep
  <2> QED
    BY <1>11, <2>3, <2>4 DEF Stop
<1>12. ASSUME NEW id \in Ids, NEW s \in ApiStatuses, SetStatusCall(id, s)
       PROVE  CleanStep /\ faults = 0
  <2>1. s \in {"ready", "stopping", "stopped", "error"}
    BY FaultsAssumption
  <2> QED
    BY <1>12, <1>n, <1>t, <2>1 DEF SetStatusCall, k8sVars, CleanStep, Rests
<1>13. ASSUME NEW id \in Ids, Adopt(id) \/ PodAvailable(id) \/ PodUnavailable(id)
       PROVE  CleanStep /\ faults = 0
  BY <1>13, <1>f, <1>k, <1>n
  DEF Adopt, PodAvailable, PodUnavailable, storeVars, k8sVars, CleanStep, Rests
<1>14. ASSUME NEW id \in Ids, Tombstone(id)
       PROVE  CleanStep /\ faults = 0
  BY <1>14, <1>n, <1>t DEF Tombstone, k8sVars, CleanStep, Rests
<1>15. CASE Boot
  <2>1. NoFault /\ server = "down" /\ sessions' = disk /\ proc' = proc /\ cluster' = cluster
    BY <1>15 DEF Boot, k8sVars
  <2>2. sessions' = EmptyMap
    BY <1>n, <2>1 DEF CompleteInv, Undisturbed
  <2>3. NoneAdded
    BY <2>2, EmptyMapGood DEF NoneAdded
  <2> QED
    BY <1>n, <2>1, <2>3 DEF CleanStep, Rests
<1>16. CASE Serve
  BY <1>16, <1>k, <1>n DEF Serve, storeVars, k8sVars, CleanStep, Rests
<1>17. ~Crash
  BY <1>f DEF Crash
<1> QED
  BY <1>1, <1>2, <1>3, <1>4, <1>5, <1>6, <1>7, <1>8, <1>9, <1>10, <1>11, <1>12, <1>13,
     <1>14, <1>15, <1>16, <1>17 DEF Next, Continue

LEMMA BuiltStays ==
  ASSUME CompleteInv, CleanStep, faults = 0
  PROVE  /\ OpsFit'
         /\ \A p \in Procs : proc'[p].pc \notin {"undoPVC", "undoDeployment", "fail"}
         /\ \A id \in Ids : Active(sessions', id) /\ ~Deleting(id)' => Built(id)'
<1>0. /\ proc \in [Procs -> Handlers] /\ cluster \in [Ids -> SUBSET Kinds] /\ OpsFit
      /\ \A p \in Procs : proc[p].pc \notin {"undoPVC", "undoDeployment", "fail"}
      /\ \A p \in Procs : proc[p].pc # "idle" => proc[p].id \in Ids /\ proc[p].step \in 1..3
      /\ \A id \in Ids : Active(sessions, id) /\ ~Deleting(id) => Built(id)
  BY DEF CompleteInv, Inv, TypeOK, Undisturbed, ActiveAreBuilt, HandlersHaveSession
<1> DEFINE Kept ==
      /\ OpsFit'
      /\ \A p \in Procs : proc'[p].pc \notin {"undoPVC", "undoDeployment", "fail"}
      /\ \A id \in Ids : Active(sessions', id) /\ ~Deleting(id)' => Built(id)'
<1>i. Idle.pc = "idle" /\ Idle.op = "none"
  BY DEF Idle
<1>1. CASE Rests
  BY <1>0, <1>1 DEF Rests, NoneAdded, OpsFit, Deleting, Built, Applies
<1>2. ASSUME NEW p \in Procs, Others(p), proc'[p].pc \notin {"undoPVC", "undoDeployment", "fail"},
             proc'[p].pc = "apply" => proc'[p].op = "create",
             proc'[p].pc \in {"delete", "stop"} => proc'[p].op = "delete"
      PROVE  /\ OpsFit'
             /\ \A q \in Procs : proc'[q].pc \notin {"undoPVC", "undoDeployment", "fail"}
  BY <1>0, <1>2 DEF Others, OpsFit
(* It is enough that handlers go on applying, and that deletes go on.       *)
<1>3. ASSUME NEW p \in Procs, Others(p), NEW id \in Ids, Active(sessions, id), ~Deleting(id)',
             proc[p].pc \in {"delete", "stop"} => proc[p].id # id,
             \A k \in 1..3 :
               /\ ApplyOrder[k] \in cluster[id] => ApplyOrder[k] \in cluster'[id]
               /\ proc[p].pc = "apply" /\ proc[p].id = id /\ proc[p].step <= k =>
                    \/ ApplyOrder[k] \in cluster'[id]
                    \/ /\ proc'[p].pc = "apply" /\ proc'[p].id = id /\ proc'[p].step <= k
      PROVE  Built(id)'
  <2>1. ~Deleting(id)
    BY <1>3 DEF Deleting, Others
  <2>2. Built(id)
    BY <1>0, <1>3, <2>1
  <2> SUFFICES ASSUME NEW k \in 1..3
               PROVE  ApplyOrder[k] \in cluster'[id] \/ Applies(id, k)'
    BY DEF Built
  <2>3. CASE ApplyOrder[k] \in cluster[id]
    BY <1>3, <2>3
  <2>4. ASSUME NEW q \in Procs, proc[q].pc = "apply", proc[q].id = id, proc[q].step <= k
        PROVE  ApplyOrder[k] \in cluster'[id] \/ Applies(id, k)'
    <3>1. CASE q = p
      BY <1>3, <2>4, <3>1 DEF Applies
    <3>2. CASE q # p
      BY <1>3, <2>4, <3>2 DEF Applies, Others
    <3> QED
      BY <3>1, <3>2
  <2> QED
    BY <2>2, <2>3, <2>4 DEF Built, Applies
<1>4. ASSUME NEW p \in Procs, Begins(p)
      PROVE  Kept
  <2>1. \A id \in Ids : Active(sessions', id) /\ ~Deleting(id)' => Built(id)'
    <3> SUFFICES ASSUME NEW id \in Ids, Active(sessions', id), ~Deleting(id)'
                 PROVE  Built(id)'
      OBVIOUS
    <3>1. CASE Active(sessions, id)
      BY <1>3, <1>4, <3>1 DEF Begins
    <3>2. CASE ~Active(sessions, id)
      <4>1. proc'[p].pc = "apply" /\ proc'[p].id = id /\ proc'[p].step = 1
        BY <1>4, <3>2 DEF Begins, Active
      <4>2. \A k \in 1..3 : proc'[p].step <= k
        BY <4>1
      <4> QED
        BY <4>1, <4>2 DEF Built, Applies
    <3> QED
      BY <3>1, <3>2
  <2> QED
    BY <1>2, <1>4, <2>1 DEF Begins
<1>5. ASSUME NEW p \in Procs, Applied(p)
      PROVE  Kept
  <2>0. proc[p].id \in Ids /\ proc[p].step \in 1..3 /\ proc[p].op = "create"
    BY <1>0, <1>5 DEF Applied, OpsFit
  <2>1. proc'[p] = Idle \/ (/\ proc'[p].pc = "apply" /\ proc'[p].op = "create"
                            /\ proc'[p].id = proc[p].id
                            /\ proc'[p].step = proc[p].step + 1)
    BY <1>0, <1>5, <2>0 DEF Applied, Handlers
  <2>2. \A id \in Ids : Active(sessions', id) /\ ~Deleting(id)' => Built(id)'
    <3> SUFFICES ASSUME NEW id \in Ids, Active(sessions', id), ~Deleting(id)'
                 PROVE  Built(id)'
      OBVIOUS
    <3>1. \A k \in 1..3 : ApplyOrder[k] \in cluster[id] => ApplyOrder[k] \in cluster'[id]
      BY <1>0, <1>5, <2>0 DEF Applied
    <3>2. ASSUME NEW k \in 1..3, proc[p].id = id, proc[p].step <= k
          PROVE  \/ ApplyOrder[k] \in cluster'[id]
                 \/ /\ proc'[p].pc = "apply" /\ proc'[p].id = id /\ proc'[p].step <= k
      <4>1. CASE proc[p].step = k
        <5>1. cluster'[id] = cluster[id] \cup {ApplyOrder[proc[p].step]}
          BY <1>0, <1>5, <3>2 DEF Applied
        <5> QED
          BY <4>1, <5>1
      <4>2. CASE proc[p].step # k
        <5>1. proc[p].step # 3 /\ proc[p].step + 1 <= k
          BY <2>0, <3>2, <4>2
        <5>2. /\ proc'[p].pc = "apply" /\ proc'[p].id = proc[p].id
              /\ proc'[p].step = proc[p].step + 1
          BY <1>0, <1>5, <2>0, <5>1 DEF Applied, Handlers
        <5> QED
          BY <3>2, <5>1, <5>2
      <4> QED
        BY <4>1, <4>2
    <3>3. Active(sessions, id) /\ proc[p].pc = "apply" /\ Others(p)
      BY <1>5 DEF Applied
    <3> QED
      BY <1>3, <3>1, <3>2, <3>3
  <2> QED
    BY <1>2, <1>5, <1>i, <2>1, <2>2 DEF Applied
<1>6. ASSUME NEW p \in Procs, Looks(p)
      PROVE  Kept
  <2>1. \A id \in Ids : Active(sessions', id) /\ ~Deleting(id)' => Built(id)'
    BY <1>3, <1>6 DEF Looks, NoneAdded
  <2> QED
    BY <1>2, <1>6, <1>i, <2>1 DEF Looks
<1>7. ASSUME NEW p \in Procs, Removes(p)
      PROVE  Kept
  <2>0. proc[p].op = "delete"
    BY <1>0, <1>7 DEF Removes, OpsFit
  <2>1. \A id \in Ids : Active(sessions', id) /\ ~Deleting(id)' => Built(id)'
    <3> SUFFICES ASSUME NEW id \in Ids, Active(sessions', id), ~Deleting(id)'
                 PROVE  Built(id)'
      OBVIOUS
    <3>1. proc[p].id # id
      BY <1>7 DEF Removes, Deleting
    <3> QED
      BY <1>3, <1>7, <3>1 DEF Removes
  <2> QED
    BY <1>2, <1>7, <2>0, <2>1 DEF Removes
<1>8. ASSUME NEW p \in Procs, Stopped(p)
      PROVE  Kept
  <2>1. \A id \in Ids : Active(sessions', id) /\ ~Deleting(id)' => Built(id)'
    <3> SUFFICES ASSUME NEW id \in Ids, Active(sessions', id), ~Deleting(id)'
                 PROVE  Built(id)'
      OBVIOUS
    <3>1. proc[p].id # id
      BY <1>8 DEF Stopped
    <3> QED
      BY <1>3, <1>8, <3>1 DEF Stopped, NoneAdded
  <2> QED
    BY <1>2, <1>8, <1>i, <2>1 DEF Stopped
<1> HIDE DEF Kept
<1>9. Rests => Kept
  BY <1>1 DEF Kept
<1>10. Kept
  BY <1>4, <1>5, <1>6, <1>7, <1>8, <1>9 DEF CleanStep
<1> QED
  BY <1>10 DEF Kept

LEMMA UndisturbedStep ==
  ASSUME CompleteInv, [Next]_vars, faults' = 0, faults = 0, server' = "down"
  PROVE  disk' = EmptyMap
<1>0. TypeOK /\ HandlersHaveSession /\ (server = "down" => disk = EmptyMap)
  BY DEF CompleteInv, Inv, Undisturbed
<1>1. CASE StoreIdle
  BY <1>0, <1>1 DEF StoreIdle, storeVars
<1>2. CASE SomeStatusSet \/ SomeCreate \/ Boot
  BY <1>2 DEF SomeStatusSet, SomeCreate, Create, Boot, bootVars
<1>3. CASE Crash
  BY <1>0, <1>3 DEF Crash, Fault, TypeOK
<1> QED
  BY <1>0, <1>1, <1>2, <1>3, StoreSteps DEF Setting

(* Who applies is a create, and who removes a delete, also after faults.    *)
LEMMA OpsStep ==
  ASSUME CompleteInv, [Next]_vars
  PROVE  OpsFit'
<1>0. /\ proc \in [Procs -> Handlers] /\ OpsFit
  BY DEF CompleteInv, Inv, TypeOK
<1>1. CASE proc' = proc
  BY <1>0, <1>1 DEF OpsFit
<1>2. ASSUME NEW p \in Procs, \E reply : Finish(p, reply)
      PROVE  OpsFit'
  BY <1>0, <1>2 DEF Finish, Idle, OpsFit
<1>3. ASSUME NEW p \in Procs, NEW pc, NEW step, Goto(p, pc, step),
             pc = "apply" => proc[p].op = "create",
             pc \in {"delete", "stop"} => proc[p].op = "delete"
      PROVE  OpsFit'
  <2>1. /\ proc'[p].pc = pc /\ proc'[p].op = proc[p].op
        /\ \A q \in Procs : q # p => proc'[q] = proc[q]
    BY <1>0, <1>3 DEF Goto, Handlers
  <2> QED
    BY <1>0, <1>3, <2>1 DEF OpsFit
<1>4. ASSUME NEW p \in Procs, NEW op, NEW u, NEW id, NEW pc, Start(p, op, u, id, pc),
             pc = "apply" => op = "create", pc \in {"delete", "stop"} => op = "delete"
      PROVE  OpsFit'
  BY <1>0, <1>4 DEF Start, OpsFit
<1>5. ASSUME NEW p \in Procs, Proceed(p)
      PROVE  OpsFit'
  BY <1>2, <1>3, <1>5 DEF Proceed
<1>6. ASSUME NEW p \in Procs, NEW u \in Users, CreateRefused(p, u) \/ List(p, u)
      PROVE  OpsFit'
  BY <1>1, <1>6 DEF CreateRefused, List, Reply
<1>7. ASSUME NEW p \in Procs, NEW u \in Users, Current(p, u)
      PROVE  OpsFit'
  <2>1. proc' = proc \/ Start(p, "current", u, byUser[u], "probe")
    BY <1>7 DEF Current, Reply
  <2> QED
    BY <1>1, <1>4, <2>1
<1>8. ASSUME NEW p \in Procs, NEW u \in Users, NEW id \in Ids, NEW op, Read(p, op, u, id)
      PROVE  OpsFit'
  <2>1. \/ proc' = proc
        \/ Start(p, op, u, id, "probe")
        \/ op = "delete" /\ Start(p, op, u, id, "delete")
    BY <1>8 DEF Read, Reply
  <2> QED
    BY <1>1, <1>4, <2>1
<1>9. ASSUME NEW p \in Procs, NEW u \in Users, NEW id \in Ids, Create(p, u, id)
      PROVE  OpsFit'
  <2>1. proc' = proc \/ Start(p, "create", u, id, "apply")
    BY <1>9 DEF Create, Reply
  <2> QED
    BY <1>1, <1>4, <2>1
<1>10. ASSUME NEW p \in Procs, Continue(p)
       PROVE  OpsFit'
  <2>1. CASE ApplyCreates(p)
    <3>1. proc[p].op = "create"
      BY <1>0, <2>1 DEF ApplyCreates, OpsFit
    <3> QED
      BY <1>2, <1>3, <2>1, <3>1 DEF ApplyCreates
  <2>2. CASE ApplyFails(p) \/ Undo(p)
    <3>1. PICK pc \in {"fail", "undoPVC", "undoDeployment"} : Goto(p, pc, proc[p].step)
      BY <2>2 DEF ApplyFails, Undo
    <3> QED
      BY <1>3, <3>1
  <2>3. CASE FailCreate(p) \/ Stop(p)
    BY <1>2, <2>3 DEF FailCreate, Stop
  <2>4. CASE Probe(p)
    BY <1>2, <1>3, <1>5, <2>4 DEF Probe
  <2>5. CASE Promote(p)
    BY <1>2, <1>5, <2>5 DEF Promote
  <2>6. CASE DeleteResource(p)
    <3>1. proc[p].op = "delete"
      BY <1>0, <2>6 DEF DeleteResource, OpsFit
    <3> QED
      BY <1>2, <1>3, <2>6, <3>1 DEF DeleteResource
  <2> QED
    BY <1>10, <2>1, <2>2, <2>3, <2>4, <2>5, <2>6 DEF Continue
<1>11. CASE Crash
  BY <1>11 DEF Crash, Idle, OpsFit
<1>12. ASSUME NEW id, NEW s, SetStatusCall(id, s) \/ Adopt(id) \/ Tombstone(id)
                             \/ PodAvailable(id) \/ PodUnavailable(id)
       PROVE  proc' = proc
  BY <1>12 DEF SetStatusCall, Adopt, Tombstone, PodAvailable, PodUnavailable
<1>13. CASE Boot \/ Serve \/ UNCHANGED vars
  BY <1>1, <1>13 DEF Boot, Serve, vars
<1> QED
  BY <1>1, <1>6, <1>7, <1>8, <1>9, <1>10, <1>11, <1>12, <1>13 DEF Next, Get, Delete

(* Before the first fault, a ready session on which no create or delete is  *)
(* at work has its PVC, Deployment and Service: a delete that has removed   *)
(* something goes on to stop the session, whichever handlers overtake it    *)
(* (Provisioner.Apply and Delete; Store.Create, Get, Delete).               *)
THEOREM ReadyHasAll == Spec => []ReadyIsComplete
<1>1. Init => CompleteInv
  <2> SUFFICES ASSUME Init PROVE CompleteInv
    OBVIOUS
  <2>1. OpsFit /\ Undisturbed
    BY DEF Init, Idle, OpsFit, Undisturbed
  <2>2. ActiveAreBuilt
    BY EmptyMapGood DEF Init, ActiveAreBuilt
  <2> QED
    BY <2>1, <2>2, InitInv DEF CompleteInv
<1>2. CompleteInv /\ [Next]_vars => CompleteInv'
  <2> SUFFICES ASSUME CompleteInv, [Next]_vars PROVE CompleteInv'
    OBVIOUS
  <2>1. Inv' /\ OpsFit'
    BY NextInv, OpsStep DEF CompleteInv
  <2>2. Undisturbed' /\ ActiveAreBuilt'
    <3>1. CASE faults' # 0
      BY <3>1 DEF Undisturbed, ActiveAreBuilt
    <3>2. CASE faults' = 0
      <4>1. CleanStep /\ faults = 0
        BY <3>2, CleanSteps
      <4>2. server' = "down" => disk' = EmptyMap
        BY <3>2, <4>1, UndisturbedStep
      <4> QED
        BY <4>1, <4>2, BuiltStays DEF Undisturbed, ActiveAreBuilt
    <3> QED
      BY <3>1, <3>2
  <2> QED
    BY <2>1, <2>2 DEF CompleteInv
<1>3. CompleteInv => ReadyIsComplete
  <2> SUFFICES ASSUME CompleteInv, NEW id \in Ids, faults = 0,
                      sessions[id].status = "ready", ~Working(id)
               PROVE  cluster[id] = Kinds
    BY DEF ReadyIsComplete
  <2>1. Active(sessions, id) /\ ~Deleting(id) /\ \A k \in 1..3 : ~Applies(id, k)
    BY DEF CompleteInv, OpsFit, Working, Deleting, Applies, Active, ActiveStatuses
  <2>2. \A k \in 1..3 : ApplyOrder[k] \in cluster[id]
    BY <2>1 DEF CompleteInv, ActiveAreBuilt, Built
  <2>3. ApplyOrder[1] = "pvc" /\ ApplyOrder[2] = "deployment" /\ ApplyOrder[3] = "service"
    BY DEF ApplyOrder
  <2>4. cluster[id] \subseteq Kinds
    BY DEF CompleteInv, Inv, TypeOK
  <2> QED
    BY <2>2, <2>3, <2>4 DEF Kinds
<1> QED
  BY <1>1, <1>2, <1>3, PTL DEF Spec

-----------------------------------------------------------------------------
(* A request is short *)

(* How many steps of its own a handler can have left, at most.              *)
Remaining(h) ==
  CASE h.pc = "apply"          -> 7 - h.step
    [] h.pc = "undoPVC"        -> 3
    [] h.pc = "undoDeployment" -> 2
    [] h.pc = "fail"           -> 1
    [] h.pc = "probe"          -> 6
    [] h.pc = "promote"        -> 5
    [] h.pc = "delete"         -> 5 - h.step
    [] h.pc = "stop"           -> 1
    [] OTHER                   -> 0

(* A handler rests, begins, goes on with the same request, or ends.         *)
Goes(h, i) ==
  \/ i = h \/ i = Idle
  \/ h.pc = "idle" /\ Remaining(i) <= 6
  \/ /\ Remaining(i) < Remaining(h)
     /\ i.op = h.op /\ i.user = h.user /\ i.id = h.id

(* Every step of a handler's own takes it closer to its answer.             *)
LEMMA HandlerGoes ==
  ASSUME Setting, [Next]_vars, NEW p \in Procs
  PROVE  Goes(proc[p], proc'[p])
<1>0. /\ proc \in [Procs -> Handlers] /\ TypeOK
      /\ \A q \in Procs : proc[q].pc # "idle" => proc[q].step \in 1..3
  BY DEF Setting, TypeOK, HandlersHaveSession
<1>1. CASE proc'[p] = proc[p]
  BY <1>1 DEF Goes
<1>2. ASSUME NEW q \in Procs, NEW reply, Finish(q, reply)
      PROVE  Goes(proc[p], proc'[p])
  BY <1>0, <1>2 DEF Finish, Goes
<1>3. ASSUME NEW q \in Procs, NEW pc, NEW step, Goto(q, pc, step), pc # "idle",
             Remaining([proc[q] EXCEPT !.pc = pc, !.step = step]) < Remaining(proc[q])
      PROVE  Goes(proc[p], proc'[p])
  <2>1. CASE p = q
    <3>1. proc[q] \in Handlers
      BY <1>0
    <3>2. proc'[p] = [proc[q] EXCEPT !.pc = pc, !.step = step]
      BY <1>0, <1>3, <2>1 DEF Goto
    <3>3. proc'[p].op = proc[p].op /\ proc'[p].user = proc[p].user /\ proc'[p].id = proc[p].id
      BY <2>1, <3>1, <3>2 DEF Handlers
    <3> QED
      BY <1>3, <2>1, <3>2, <3>3 DEF Goes
  <2>2. CASE p # q
    BY <1>0, <1>1, <1>3, <2>2 DEF Goto
  <2> QED
    BY <2>1, <2>2
<1>4. ASSUME NEW q \in Procs, NEW op, NEW u, NEW id, NEW pc \in {"apply", "probe", "delete"},
             Start(q, op, u, id, pc), proc[q].pc = "idle"
      PROVE  Goes(proc[p], proc'[p])
  <2>1. CASE p = q
    BY <1>0, <1>4, <2>1 DEF Start, Goes, Remaining
  <2>2. CASE p # q
    BY <1>0, <1>1, <1>4, <2>2 DEF Start
  <2> QED
    BY <2>1, <2>2
<1>5. ASSUME NEW q \in Procs, NEW pc, NEW step, proc[q].pc # "idle"
      PROVE  /\ [proc[q] EXCEPT !.pc = pc, !.step = step].pc = pc
             /\ [proc[q] EXCEPT !.pc = pc, !.step = step].step = step
             /\ proc[q].step \in 1..3
  BY <1>0, <1>5 DEF Handlers
<1>6. ASSUME NEW q \in Procs, Proceed(q), proc[q].pc \in {"probe", "promote"}
      PROVE  Goes(proc[p], proc'[p])
  <2>1. Remaining([proc[q] EXCEPT !.pc = "delete", !.step = 1]) < Remaining(proc[q])
    BY <1>5, <1>6 DEF Remaining
  <2> QED
    BY <1>2, <1>3, <1>6, <2>1 DEF Proceed
<1>7. ASSUME NEW q \in Procs, NEW u \in Users, CreateRefused(q, u) \/ List(q, u) \/ Current(q, u)
      PROVE  Goes(proc[p], proc'[p])
  <2>1. /\ proc' = proc \/ Start(q, "current", u, byUser[u], "probe")
        /\ proc[q].pc = "idle"
    BY <1>7 DEF CreateRefused, List, Current, Reply, CanStart
  <2> QED
    BY <1>1, <1>4, <2>1
<1>8. ASSUME NEW q \in Procs, NEW u \in Users, NEW id \in Ids, NEW op, Read(q, op, u, id)
      PROVE  Goes(proc[p], proc'[p])
  <2>1. /\ proc' = proc \/ Start(q, op, u, id, "probe") \/ Start(q, op, u, id, "delete")
        /\ proc[q].pc = "idle"
    BY <1>8 DEF Read, Reply, CanStart
  <2> QED
    BY <1>1, <1>4, <2>1
<1>9. ASSUME NEW q \in Procs, Continue(q)
      PROVE  Goes(proc[p], proc'[p])
  <2>1. CASE ApplyCreates(q)
    <3>1. proc[q].step # 3 => Remaining([proc[q] EXCEPT !.pc = "apply", !.step = proc[q].step + 1])
                                < Remaining(proc[q])
      BY <1>5, <2>1 DEF ApplyCreates, Remaining
    <3> QED
      BY <1>2, <1>3, <2>1, <3>1 DEF ApplyCreates
  <2>2. CASE ApplyFails(q) \/ Undo(q)
    <3>1. PICK pc \in {"fail", "undoPVC", "undoDeployment"} :
            /\ Goto(q, pc, proc[q].step)
            /\ proc[q].pc \in {"apply", "undoPVC", "undoDeployment"}
            /\ proc[q].pc = "apply" => pc = IF proc[q].step = 1 THEN "fail" ELSE "undoPVC"
            /\ proc[q].pc = "undoPVC" => pc \in {"fail", "undoDeployment"}
            /\ proc[q].pc = "undoDeployment" => pc = "fail"
      BY <2>2 DEF ApplyFails, Undo
    <3>2. Remaining([proc[q] EXCEPT !.pc = pc, !.step = proc[q].step]) < Remaining(proc[q])
      BY <1>5, <3>1 DEF Remaining
    <3> QED
      BY <1>3, <3>1, <3>2
  <2>3. CASE FailCreate(q) \/ Stop(q)
    BY <1>2, <2>3 DEF FailCreate, Stop
  <2>4. CASE Probe(q)
    <3>1. proc[q].pc = "probe"
          /\ Remaining([proc[q] EXCEPT !.pc = "promote", !.step = 1]) < Remaining(proc[q])
      BY <1>5, <2>4 DEF Probe, Remaining
    <3> QED
      BY <1>2, <1>3, <1>6, <2>4, <3>1 DEF Probe
  <2>5. CASE Promote(q)
    BY <1>2, <1>6, <2>5 DEF Promote
  <2>6. CASE DeleteResource(q)
    <3>1. /\ proc[q].step = 3 => Remaining([proc[q] EXCEPT !.pc = "stop", !.step = 1])
                                   < Remaining(proc[q])
          /\ proc[q].step # 3 => Remaining([proc[q] EXCEPT !.pc = "delete", !.step = proc[q].step + 1])
                                   < Remaining(proc[q])
      BY <1>5, <2>6 DEF DeleteResource, Remaining
    <3> QED
      BY <1>2, <1>3, <2>6, <3>1 DEF DeleteResource
  <2> QED
    BY <1>9, <2>1, <2>2, <2>3, <2>4, <2>5, <2>6 DEF Continue
<1>10. CASE Crash
  BY <1>10 DEF Crash, Goes
<1>11. ASSUME NEW id, NEW s, SetStatusCall(id, s) \/ Adopt(id) \/ Tombstone(id)
                             \/ PodAvailable(id) \/ PodUnavailable(id)
       PROVE  proc' = proc
  BY <1>11 DEF SetStatusCall, Adopt, Tombstone, PodAvailable, PodUnavailable
<1>12. CASE Boot \/ Serve \/ UNCHANGED vars
  BY <1>1, <1>12 DEF Boot, Serve, vars
<1>13. ASSUME NEW q \in Procs, NEW u \in Users, NEW id \in Ids,
              Get(q, u, id) \/ Delete(q, u, id) \/ Create(q, u, id)
       PROVE  Goes(proc[p], proc'[p])
  <2>1. CASE Create(q, u, id)
    <3>1. /\ proc' = proc \/ Start(q, "create", u, id, "apply")
          /\ proc[q].pc = "idle"
      BY <2>1 DEF Create, Reply, CanStart
    <3> QED
      BY <1>1, <1>4, <3>1
  <2> QED
    BY <1>8, <1>13, <2>1 DEF Get, Delete
<1>14. ASSUME NEW id \in Ids, NEW s \in ApiStatuses, SetStatusCall(id, s)
       PROVE  Goes(proc[p], proc'[p])
  BY <1>1, <1>11, <1>14
<1>15. ASSUME NEW id \in Ids, Adopt(id) \/ Tombstone(id) \/ PodAvailable(id) \/ PodUnavailable(id)
       PROVE  Goes(proc[p], proc'[p])
  BY <1>1, <1>11, <1>15
<1> QED
  BY <1>7, <1>9, <1>10, <1>12, <1>13, <1>14, <1>15 DEF Next

(* A handler that goes on is not where it was.                              *)
LEMMA HandlerMoves ==
  ASSUME Setting, NEW p \in Procs, Continue(p)
  PROVE  proc'[p] # proc[p]
<1>0. /\ proc \in [Procs -> Handlers] /\ proc[p] \in Handlers
      /\ proc[p].pc # "idle" => proc[p].step \in 1..3
  BY DEF Setting, TypeOK, HandlersHaveSession
<1>1. proc[p].pc # "idle"
  BY DEF Continue, ApplyCreates, ApplyFails, Undo, FailCreate, Probe, Promote,
         DeleteResource, Stop
<1>2. ASSUME NEW reply, Finish(p, reply)
      PROVE  proc'[p] # proc[p]
  BY <1>0, <1>1, <1>2 DEF Finish, Idle
<1>3. ASSUME NEW pc, NEW step, Goto(p, pc, step), pc # proc[p].pc \/ step # proc[p].step
      PROVE  proc'[p] # proc[p]
  <2>1. proc'[p] = [proc[p] EXCEPT !.pc = pc, !.step = step]
    BY <1>0, <1>3 DEF Goto
  <2> QED
    BY <1>0, <1>3, <2>1 DEF Handlers
<1>4. ASSUME Proceed(p), proc[p].pc \in {"probe", "promote"}
      PROVE  proc'[p] # proc[p]
  BY <1>2, <1>3, <1>4 DEF Proceed
<1>5. CASE ApplyCreates(p) \/ DeleteResource(p)
  <2>1. proc[p].step + 1 # proc[p].step
    BY <1>0, <1>1
  <2>2. \/ \E reply : Finish(p, reply)
        \/ \E pc : Goto(p, pc, proc[p].step + 1)
        \/ Goto(p, "stop", 1) /\ proc[p].pc = "delete"
    BY <1>5 DEF ApplyCreates, DeleteResource
  <2> QED
    BY <1>2, <1>3, <2>1, <2>2
<1>6. CASE ApplyFails(p) \/ Undo(p)
  BY <1>3, <1>6 DEF ApplyFails, Undo
<1>7. CASE FailCreate(p) \/ Probe(p) \/ Promote(p) \/ Stop(p)
  BY <1>2, <1>3, <1>4, <1>7 DEF FailCreate, Probe, Promote, Stop
<1> QED
  BY <1>5, <1>6, <1>7 DEF Continue

(* No handler that runs stays at its call, goes back, or takes up another   *)
(* request before it has answered the one it has.                           *)
RequestsAdvance ==
  [][\A p \in Procs : /\ Goes(proc[p], proc'[p])
                      /\ Continue(p) => proc'[p] # proc[p]]_vars

(* A request ends after six steps of its own at the most, however the       *)
(* others interleave with it and whatever fails: the safety half of         *)
(* RequestsEnd.  No handler waits, retries or loops (Create 169-226, Get    *)
(* 238-264, Delete 327-341), so that the server's scheduling is all that    *)
(* the liveness property is left to depend on.                              *)
THEOREM RequestsAreShort == Spec => RequestsAdvance
<1>1. Inv /\ [Next]_vars
        => [\A p \in Procs : /\ Goes(proc[p], proc'[p])
                             /\ Continue(p) => proc'[p] # proc[p]]_vars
  BY HandlerGoes, HandlerMoves DEF Inv, Setting
<1> QED
  BY <1>1, Invariant, PTL DEF Spec, RequestsAdvance

-----------------------------------------------------------------------------
(* A stopped session is gone *)

(* A DELETE of a session runs beside the POST that is still creating it.    *)
Overtaken ==
  \E p, q \in Procs : /\ proc[p].op = "delete" /\ proc[q].op = "create"
                      /\ proc[p].id = proc[q].id

(* What a handler that deletes has already removed.                         *)
Removed(h) ==
  CASE h.pc = "delete" -> {DeleteOrder[k] : k \in 1..(h.step - 1)}
    [] h.pc = "stop"   -> Kinds
    [] OTHER           -> {}

RemovedIsGone == \A p \in Procs : Removed(proc[p]) \cap cluster[proc[p].id] = {}

StoppedIsEmpty ==
  \A id \in Ids : sessions[id].status = "stopped" =>
    /\ cluster[id] = {}
    /\ \A p \in Procs : proc[p].id = id => proc[p].op # "create"

(* Nothing has been stored before a panel that never crashes first serves.  *)
FirstBoot == server # "serving" => disk = EmptyMap

GoneInv == Inv /\ OpsFit /\ FirstBoot /\ RemovedIsGone /\ StoppedIsEmpty

(* What one step does to each of these.                                     *)
Grows(id) == \E p \in Procs : proc[p].pc = "apply" /\ proc[p].id = id

RemovesMore(p) ==
  \A kind \in Removed(proc'[p]) :
    /\ proc'[p].id = proc[p].id /\ proc[p].op = "delete"
    /\ kind \in Removed(proc[p]) \/ kind \notin cluster'[proc[p].id]

CreatesOn(p) ==
  proc'[p].op = "create" =>
    \/ proc[p].op = "create" /\ proc'[p].id = proc[p].id
    \/ sessions'[proc'[p].id].status = "provisioning"

OpFits(h) ==
  /\ h.pc = "apply" => h.op = "create"
  /\ h.pc \in {"delete", "stop"} => h.op = "delete"

ClusterStep == \A id \in Ids : cluster'[id] \subseteq cluster[id] \/ Grows(id)

WorkStep == \A p \in Procs : RemovesMore(p) /\ CreatesOn(p) /\ OpFits(proc'[p])

StatusStep ==
  \A id \in Ids : sessions'[id].status = "stopped" =>
    \/ sessions[id].status = "stopped"
    \/ /\ cluster' = cluster
       /\ \E p \in Procs : proc[p].pc = "stop" /\ proc[p].id = id

LEMMA ClusterOnlyShrinks ==
  ASSUME Setting, [Next]_vars
  PROVE  ClusterStep
<1>1. CASE UNCHANGED cluster
  BY <1>1 DEF ClusterStep
<1>h. \A p \in Procs : proc[p].pc # "idle" => proc[p].id \in Ids
  BY DEF Setting, HandlersHaveSession
<1>2. ASSUME NEW p \in Procs, ApplyCreates(p) \/ ApplyFails(p)
      PROVE  ClusterStep
  <2>1. proc[p].id \in Ids /\ proc[p].pc = "apply"
    BY <1>2, <1>h DEF ApplyCreates, ApplyFails
  <2>2. \A i \in Ids : i # proc[p].id => cluster'[i] = cluster[i]
    BY <1>2, <2>1 DEF ApplyCreates, ApplyFails, Setting, TypeOK
  <2> QED
    BY <2>1, <2>2 DEF ClusterStep, Grows
<1>3. ASSUME NEW p \in Procs, Undo(p) \/ DeleteResource(p)
      PROVE  ClusterStep
  <2>1. \A i \in Ids : cluster'[i] \subseteq cluster[i]
    BY <1>3, <1>h, RemoveShrinks DEF Undo, DeleteResource, Setting
  <2> QED
    BY <2>1 DEF ClusterStep
<1>4. ASSUME NEW p \in Procs, Continue(p)
      PROVE  ClusterStep
  <2>1. CASE FailCreate(p) \/ Probe(p) \/ Promote(p) \/ Stop(p)
    BY <1>1, <2>1 DEF FailCreate, Probe, Promote, Stop, k8sVars
  <2> QED
    BY <1>2, <1>3, <1>4, <2>1 DEF Continue
<1>5. ASSUME NEW p \in Procs, NEW u \in Users,
             CreateRefused(p, u) \/ Current(p, u) \/ List(p, u)
      PROVE  ClusterStep
  BY <1>1, <1>5 DEF CreateRefused, Current, List, k8sVars
<1>6. ASSUME NEW p \in Procs, NEW u \in Users, NEW id \in Ids,
             Create(p, u, id) \/ Get(p, u, id) \/ Delete(p, u, id)
      PROVE  ClusterStep
  BY <1>1, <1>6 DEF Create, Get, Delete, Read, k8sVars
<1>7. ASSUME NEW id \in Ids, NEW s \in ApiStatuses, SetStatusCall(id, s)
      PROVE  ClusterStep
  BY <1>1, <1>7 DEF SetStatusCall, k8sVars
<1>8. ASSUME NEW id \in Ids, Adopt(id) \/ Tombstone(id) \/ PodAvailable(id) \/ PodUnavailable(id)
      PROVE  ClusterStep
  BY <1>1, <1>8 DEF Adopt, Tombstone, PodAvailable, PodUnavailable, k8sVars
<1>9. CASE Crash \/ Boot \/ Serve \/ UNCHANGED vars
  BY <1>1, <1>9 DEF Crash, Boot, Serve, vars, k8sVars
<1> QED
  BY <1>4, <1>5, <1>6, <1>7, <1>8, <1>9 DEF Next

LEMMA WorkSteps ==
  ASSUME Setting, OpsFit, [Next]_vars
  PROVE  WorkStep
<1>0. /\ proc \in [Procs -> Handlers] /\ TypeOK
      /\ \A q \in Procs : OpFits(proc[q])
      /\ \A q \in Procs : proc[q].pc # "idle" => proc[q].step \in 1..3 /\ proc[q].id \in Ids
  BY DEF Setting, TypeOK, HandlersHaveSession, OpsFit, OpFits
<1> DEFINE Good(q) == RemovesMore(q) /\ CreatesOn(q) /\ OpFits(proc'[q])
<1>k. ASSUME NEW q \in Procs, proc'[q] = proc[q]
      PROVE  Good(q)
  BY <1>0, <1>k DEF RemovesMore, CreatesOn, Removed, OpFits
<1>i. ASSUME NEW q \in Procs, proc'[q] = Idle
      PROVE  Good(q)
  BY <1>i DEF RemovesMore, CreatesOn, Removed, OpFits, Idle
<1>1. CASE proc' = proc
  BY <1>1, <1>k DEF WorkStep
<1>2. ASSUME NEW p \in Procs, NEW reply, Finish(p, reply)
      PROVE  WorkStep
  <2>1. \A q \in Procs : proc'[q] = proc[q] \/ proc'[q] = Idle
    BY <1>0, <1>2 DEF Finish
  <2> QED
    BY <1>k, <1>i, <2>1 DEF WorkStep
<1>3. ASSUME NEW p \in Procs, NEW pc, NEW step, Goto(p, pc, step),
             proc[p].pc # "idle",
             pc # "apply" \/ proc[p].op = "create",
             pc \in {"delete", "stop"} => proc[p].op = "delete",
             \A kind \in Removed([proc[p] EXCEPT !.pc = pc, !.step = step]) :
               proc[p].op = "delete" /\ (kind \in Removed(proc[p]) \/ kind \notin cluster'[proc[p].id])
      PROVE  WorkStep
  <2> SUFFICES ASSUME NEW q \in Procs PROVE Good(q)
    BY DEF WorkStep
  <2>1. CASE p = q
    <3>1. proc'[q] = [proc[q] EXCEPT !.pc = pc, !.step = step]
      BY <1>0, <1>3, <2>1 DEF Goto
    <3>2. proc[q] \in Handlers
      BY <1>0
    <3>3. /\ proc'[q].pc = pc /\ proc'[q].step = step
          /\ proc'[q].op = proc[q].op /\ proc'[q].id = proc[q].id
      BY <3>1, <3>2 DEF Handlers
    <3> HIDE DEF Good
    <3>4. RemovesMore(q)
      BY <1>3, <2>1, <3>1, <3>3 DEF RemovesMore
    <3>5. CreatesOn(q)
      BY <3>3 DEF CreatesOn
    <3>6. OpFits(proc'[q])
      BY <1>3, <2>1, <3>3 DEF OpFits
    <3> QED
      BY <3>4, <3>5, <3>6 DEF Good
  <2>2. CASE p # q
    BY <1>0, <1>3, <1>k, <2>2 DEF Goto
  <2> QED
    BY <2>1, <2>2
<1>4. ASSUME NEW p \in Procs, NEW op, NEW u, NEW id, NEW pc, Start(p, op, u, id, pc),
             \/ pc = "apply" /\ op = "create" /\ sessions'[id].status = "provisioning"
             \/ pc = "probe" /\ op # "create"
             \/ pc = "delete" /\ op = "delete"
      PROVE  WorkStep
  <2> SUFFICES ASSUME NEW q \in Procs PROVE Good(q)
    BY DEF WorkStep
  <2>1. CASE p = q
    <3>1. proc'[q] = [pc |-> pc, op |-> op, user |-> u, id |-> id, step |-> 1]
      BY <1>0, <1>4, <2>1 DEF Start
    <3>2. Removed(proc'[q]) = {}
      BY <1>4, <3>1 DEF Removed
    <3> QED
      BY <1>4, <3>1, <3>2 DEF RemovesMore, CreatesOn, OpFits
  <2>2. CASE p # q
    BY <1>0, <1>4, <1>k, <2>2 DEF Start
  <2> QED
    BY <2>1, <2>2
<1> HIDE DEF Good
<1>r. \A h \in Handlers : \A pc, step :
        /\ [h EXCEPT !.pc = pc, !.step = step].pc = pc
        /\ [h EXCEPT !.pc = pc, !.step = step].step = step
  BY DEF Handlers
<1>n. \A p \in Procs : \A pc, step : pc \notin {"delete", "stop"} \/ (pc = "delete" /\ step = 1)
        => Removed([proc[p] EXCEPT !.pc = pc, !.step = step]) = {}
  BY <1>0, <1>r DEF Removed
<1>5. ASSUME NEW p \in Procs, Proceed(p), proc[p].pc \in {"probe", "promote"}
      PROVE  WorkStep
  BY <1>2, <1>3, <1>5, <1>n DEF Proceed
<1>6. ASSUME NEW p \in Procs, NEW u \in Users, CreateRefused(p, u) \/ List(p, u) \/ Current(p, u)
      PROVE  WorkStep
  <2>1. proc' = proc \/ Start(p, "current", u, byUser[u], "probe")
    BY <1>6 DEF CreateRefused, List, Current, Reply
  <2> QED
    BY <1>1, <1>4, <2>1
<1>7. ASSUME NEW p \in Procs, NEW u \in Users, NEW id \in Ids, Get(p, u, id) \/ Delete(p, u, id)
      PROVE  WorkStep
  <2>1. \/ proc' = proc \/ Start(p, "get", u, id, "probe")
        \/ Start(p, "delete", u, id, "probe") \/ Start(p, "delete", u, id, "delete")
    BY <1>7 DEF Get, Delete, Read, Reply
  <2> QED
    BY <1>1, <1>4, <2>1
<1>8. ASSUME NEW p \in Procs, NEW u \in Users, NEW id \in Ids, Create(p, u, id)
      PROVE  WorkStep
  <2>1. proc' = proc \/ (/\ Start(p, "create", u, id, "apply")
                         /\ \E d : sessions' = [sessions EXCEPT ![id] =
                                    [user |-> u, domain |-> d, status |-> "provisioning"]])
    BY <1>8 DEF Create, Reply
  <2>2. CASE proc' # proc
    <3>1. sessions'[id].status = "provisioning"
      BY <1>0, <2>1, <2>2 DEF TypeOK
    <3> QED
      BY <1>4, <2>1, <2>2, <3>1
  <2> QED
    BY <1>1, <2>2
<1>9. ASSUME NEW p \in Procs, Continue(p)
      PROVE  WorkStep
  <2>1. CASE ApplyCreates(p) \/ ApplyFails(p) \/ Undo(p)
    <3>1. \/ Finish(p, "accepted")
          \/ \E pc \in {"apply", "undoPVC", "undoDeployment", "fail"} : \E step :
               /\ Goto(p, pc, step) /\ proc[p].pc # "idle"
               /\ pc = "apply" => proc[p].op = "create"
      BY <1>0, <2>1 DEF ApplyCreates, ApplyFails, Undo, OpFits
    <3> QED
      BY <1>2, <1>3, <1>n, <3>1
  <2>2. CASE FailCreate(p) \/ Stop(p)
    BY <1>2, <2>2 DEF FailCreate, Stop
  <2>3. CASE Probe(p) \/ Promote(p)
    <3>1. \/ Proceed(p) /\ proc[p].pc \in {"probe", "promote"}
          \/ Goto(p, "promote", 1) /\ proc[p].pc = "probe"
          \/ \E reply : Finish(p, reply)
      BY <2>3 DEF Probe, Promote
    <3> QED
      BY <1>2, <1>3, <1>5, <1>n, <3>1
  <2>4. CASE DeleteResource(p)
    <3>1. CASE Finish(p, "failed")
      BY <1>2, <3>1
    <3>2. CASE /\ Remove(proc[p].id, DeleteOrder[proc[p].step], TRUE)
               /\ IF proc[p].step = 3 THEN Goto(p, "stop", 1) ELSE Goto(p, "delete", proc[p].step + 1)
      <4>1. proc[p].pc = "delete" /\ proc[p].id \in Ids /\ proc[p].step \in 1..3
            /\ proc[p].op = "delete"
        BY <1>0, <2>4 DEF DeleteResource, OpFits
      <4>2. DeleteOrder[proc[p].step] \notin cluster'[proc[p].id]
        BY <1>0, <3>2, <4>1 DEF Remove, TypeOK
      <4>3. CASE proc[p].step = 3
        <5>1. \A kind \in Kinds : kind \in Removed(proc[p]) \/ kind \notin cluster'[proc[p].id]
          <6>1. Removed(proc[p]) = {DeleteOrder[k] : k \in 1..2}
            BY <4>1, <4>3 DEF Removed
          <6>2. DeleteOrder[1] \in Removed(proc[p]) /\ DeleteOrder[2] \in Removed(proc[p])
            BY <6>1
          <6> QED
            BY <4>2, <4>3, <6>2 DEF Kinds, DeleteOrder
        <5>2. Removed([proc[p] EXCEPT !.pc = "stop", !.step = 1]) = Kinds
          BY <1>0, <1>r DEF Removed
        <5> QED
          BY <1>3, <3>2, <4>1, <4>3, <5>1, <5>2
      <4>4. CASE proc[p].step # 3
        <5> DEFINE next == [proc[p] EXCEPT !.pc = "delete", !.step = proc[p].step + 1]
        <5>1. next.pc = "delete" /\ next.step = proc[p].step + 1
          BY <1>0, <1>r
        <5> HIDE DEF next
        <5>2. Removed(next) = {DeleteOrder[k] : k \in 1..proc[p].step}
          BY <4>1, <5>1 DEF Removed
        <5>3. Removed(proc[p]) = {DeleteOrder[k] : k \in 1..(proc[p].step - 1)}
          BY <4>1 DEF Removed
        <5>4. ASSUME NEW kind \in Removed(next)
              PROVE  kind \in Removed(proc[p]) \/ kind \notin cluster'[proc[p].id]
          <6>1. PICK k \in 1..proc[p].step : kind = DeleteOrder[k]
            BY <5>2
          <6>2. CASE k = proc[p].step
            BY <4>2, <6>1, <6>2
          <6>3. CASE k # proc[p].step
            <7>1. k \in 1..(proc[p].step - 1)
              BY <4>1, <6>3
            <7> QED
              BY <5>3, <6>1, <7>1
          <6> QED
            BY <6>2, <6>3
        <5> QED
          BY <1>3, <3>2, <4>1, <4>4, <5>4 DEF next
      <4> QED
        BY <4>3, <4>4
    <3> QED
      BY <2>4, <3>1, <3>2 DEF DeleteResource
  <2> QED
    BY <1>9, <2>1, <2>2, <2>3, <2>4 DEF Continue
<1>10. CASE Crash
  BY <1>10, <1>i DEF Crash, WorkStep, Good
<1>11. CASE Boot \/ Serve \/ UNCHANGED vars
  BY <1>1, <1>11 DEF Boot, Serve, vars
<1>12. ASSUME NEW id \in Ids, NEW s \in ApiStatuses, SetStatusCall(id, s)
       PROVE  WorkStep
  BY <1>1, <1>12 DEF SetStatusCall
<1>13. ASSUME NEW id \in Ids, Adopt(id) \/ Tombstone(id) \/ PodAvailable(id) \/ PodUnavailable(id)
       PROVE  WorkStep
  BY <1>1, <1>13 DEF Adopt, Tombstone, PodAvailable, PodUnavailable
<1> QED
  BY <1>6, <1>7, <1>8, <1>9, <1>10, <1>11, <1>12, <1>13 DEF Next

(* Without a crash and without a caller of SetStatus only Stop stops.       *)
LEMMA StatusSteps ==
  ASSUME Inv, FirstBoot, [Next]_vars, "crash" \notin FaultKinds, ApiStatuses = {}
  PROVE  FirstBoot' /\ StatusStep
<1>0. TypeOK /\ Setting
  BY DEF Inv, Setting
<1>k. ASSUME sessions' = sessions, disk' = disk, server' = "serving" => server = "serving" \/ disk = EmptyMap
      PROVE  StatusStep /\ (server' = server => FirstBoot')
  BY <1>k DEF StatusStep, FirstBoot
<1>e. \A id \in Ids : EmptyMap[id].status = "absent"
  BY DEF EmptyMap, NoSession
<1>s. ASSUME NEW id \in Ids, NEW s \in {"ready", "stopping", "stopped", "error"},
             NEW outcome \in SaveOutcomes, SetStatus(id, s, outcome)
      PROVE  \A i \in Ids : sessions'[i].status = "stopped" =>
               sessions[i].status = "stopped" \/ (i = id /\ s = "stopped")
  BY <1>0, <1>s, SetStatusChangesOne
<1>q. sessions' = sessions => StatusStep
  BY DEF StatusStep
<1>v. server' = "serving" => FirstBoot'
  BY DEF FirstBoot
<1>1. ASSUME NEW p \in Procs, NEW u \in Users, CreateRefused(p, u) \/ List(p, u) \/ Current(p, u)
      PROVE  FirstBoot' /\ StatusStep
  BY <1>1, <1>q DEF CreateRefused, List, Current, storeVars, bootVars, FirstBoot
<1>2. ASSUME NEW p \in Procs, NEW u \in Users, NEW id \in Ids, Get(p, u, id) \/ Delete(p, u, id)
      PROVE  FirstBoot' /\ StatusStep
  BY <1>2, <1>q DEF Get, Delete, Read, storeVars, bootVars, FirstBoot
<1>3. ASSUME NEW p \in Procs, NEW u \in Users, NEW id \in Ids, Create(p, u, id)
      PROVE  FirstBoot' /\ StatusStep
  <2>1. server' = "serving"
    BY <1>3 DEF Create, CanStart, bootVars
  <2>2. \/ sessions' = sessions
        \/ \E d : sessions' = [sessions EXCEPT ![id] =
                     [user |-> u, domain |-> d, status |-> "provisioning"]]
    BY <1>0, <1>3, CreateAddsOne
  <2>3. StatusStep
    BY <1>0, <2>2 DEF StatusStep, TypeOK
  <2> QED
    BY <1>v, <2>1, <2>3
<1>4. ASSUME NEW p \in Procs, Continue(p)
      PROVE  FirstBoot' /\ StatusStep
  <2>1. server' = "serving" /\ proc[p].id \in Ids
    <3>1. server' = server /\ proc[p].pc # "idle"
      BY <1>4 DEF Continue, ApplyCreates, ApplyFails, Undo, FailCreate, Probe, Promote,
                  DeleteResource, Stop, bootVars
    <3> QED
      BY <3>1 DEF Inv, HandlersHaveSession
  <2>2. CASE sessions' = sessions
    BY <1>q, <1>v, <2>1, <2>2
  <2>3. ASSUME NEW s \in {"ready", "error"}, NEW outcome \in SaveOutcomes,
               SetStatus(proc[p].id, s, outcome)
        PROVE  StatusStep
    BY <1>s, <2>1, <2>3 DEF StatusStep
  <2>4. ASSUME NEW outcome \in SaveOutcomes, SetStatus(proc[p].id, "stopped", outcome), Stop(p)
        PROVE  StatusStep
    BY <1>s, <2>1, <2>4 DEF StatusStep, Stop, k8sVars
  <2>5. CASE Promote(p) \/ FailCreate(p) \/ Stop(p)
    <3>1. \/ sessions' = sessions
          \/ \E s \in {"ready", "error"}, outcome \in SaveOutcomes : SetStatus(proc[p].id, s, outcome)
          \/ Stop(p) /\ \E outcome \in SaveOutcomes : SetStatus(proc[p].id, "stopped", outcome)
      <4>1. CASE Promote(p)
        <5>1. \/ SetStatusInvalid(proc[p].id, "ready")
              \/ SetStatus(proc[p].id, "ready", "saved")
              \/ \E outcome \in SaveFaults : SetStatus(proc[p].id, "ready", outcome)
          BY <4>1 DEF Promote
        <5>2. "ready" \in {"ready", "error"} /\ "saved" \in SaveOutcomes
              /\ SaveFaults \subseteq SaveOutcomes
          BY DEF SaveOutcomes
        <5>3. SetStatusInvalid(proc[p].id, "ready") => sessions' = sessions
          BY DEF SetStatusInvalid, storeVars
        <5> QED
          BY <5>1, <5>2, <5>3
      <4>2. CASE FailCreate(p)
        BY <4>2 DEF FailCreate, SetStatusInvalid, storeVars
      <4>3. CASE Stop(p)
        BY <4>3 DEF Stop, SetStatusInvalid, storeVars
      <4> QED
        BY <2>5, <4>1, <4>2, <4>3
    <3> QED
      BY <1>v, <2>1, <2>2, <2>3, <2>4, <3>1
  <2>6. CASE ApplyCreates(p) \/ ApplyFails(p) \/ Undo(p) \/ Probe(p) \/ DeleteResource(p)
    BY <2>2, <2>6 DEF ApplyCreates, ApplyFails, Undo, Probe, DeleteResource, storeVars
  <2> QED
    BY <1>4, <2>5, <2>6 DEF Continue
<1>5. ~Crash
  BY DEF Crash, Fault
<1>6. CASE Boot
  BY <1>6, <1>e DEF Boot, FirstBoot, StatusStep
<1>7. CASE Serve
  BY <1>7, <1>q DEF Serve, storeVars, FirstBoot
<1>8. ASSUME NEW id \in Ids, Adopt(id) \/ PodAvailable(id) \/ PodUnavailable(id)
      PROVE  FirstBoot' /\ StatusStep
  BY <1>8, <1>q DEF Adopt, PodAvailable, PodUnavailable, storeVars, bootVars, FirstBoot
<1>9. ASSUME NEW id \in Ids, Tombstone(id)
      PROVE  FALSE
  <2>1. Active(sessions, id)
    BY <1>0, <1>9, SetStatusChangesOne DEF Tombstone
  <2>2. Present(disk, id)
    BY <1>9, <2>1 DEF Tombstone, Inv, KnownOnDisk, Active, Present, ActiveStatuses
  <2> QED
    BY <1>9, <1>e, <2>2 DEF Tombstone, FirstBoot, Present
<1>10. CASE UNCHANGED vars
  BY <1>10, <1>q DEF vars, FirstBoot
<1> QED
  BY <1>1, <1>2, <1>3, <1>4, <1>5, <1>6, <1>7, <1>8, <1>9, <1>10 DEF Next

LEMMA GoneStays ==
  ASSUME GoneInv, [Next]_vars, ~Overtaken, "crash" \notin FaultKinds, ApiStatuses = {}
  PROVE  GoneInv'
<1>0. /\ Inv /\ Inv' /\ Setting /\ OpsFit
      /\ proc \in [Procs -> Handlers] /\ cluster \in [Ids -> SUBSET Kinds]
      /\ cluster' \in [Ids -> SUBSET Kinds]
  BY NextInv DEF GoneInv, Inv, Setting, TypeOK
<1>1. ClusterStep /\ WorkStep /\ StatusStep /\ FirstBoot'
  BY <1>0, ClusterOnlyShrinks, WorkSteps, StatusSteps DEF GoneInv
<1>2. OpsFit'
  BY <1>1 DEF WorkStep, OpFits, OpsFit
<1>g. ASSUME NEW id \in Ids, Grows(id)
      PROVE  /\ \E q \in Procs : proc[q].op = "create" /\ proc[q].id = id
             /\ ~\E p \in Procs : proc[p].op = "delete" /\ proc[p].id = id
             /\ sessions[id].status # "stopped"
  <2>1. PICK q \in Procs : proc[q].op = "create" /\ proc[q].id = id
    BY <1>0, <1>g DEF Grows, OpsFit
  <2>2. ~\E p \in Procs : proc[p].op = "delete" /\ proc[p].id = id
    BY <2>1 DEF Overtaken
  <2> QED
    BY <2>1, <2>2 DEF GoneInv, StoppedIsEmpty
<1>3. RemovedIsGone'
  <2> SUFFICES ASSUME NEW p \in Procs, NEW kind \in Removed(proc'[p])
               PROVE  kind \notin cluster'[proc'[p].id]
    BY DEF RemovedIsGone
  <2>1. /\ proc'[p].id = proc[p].id /\ proc[p].op = "delete"
        /\ kind \in Removed(proc[p]) \/ kind \notin cluster'[proc[p].id]
    BY <1>1 DEF WorkStep, RemovesMore
  <2>2. CASE kind \in Removed(proc[p])
    <3>1. proc[p].id \in Ids
      BY <1>0, <2>2 DEF Removed, Setting, HandlersHaveSession
    <3>2. cluster'[proc[p].id] \subseteq cluster[proc[p].id]
      BY <1>1, <1>g, <2>1, <3>1 DEF ClusterStep
    <3> QED
      BY <2>1, <2>2, <3>2 DEF GoneInv, RemovedIsGone
  <2> QED
    BY <2>1, <2>2
<1>4. StoppedIsEmpty'
  <2> SUFFICES ASSUME NEW id \in Ids, sessions'[id].status = "stopped"
               PROVE  /\ cluster'[id] = {}
                      /\ \A p \in Procs : proc'[p].id = id => proc'[p].op # "create"
    BY DEF StoppedIsEmpty
  <2>1. CASE sessions[id].status = "stopped"
    <3>1. cluster[id] = {} /\ \A p \in Procs : proc[p].id = id => proc[p].op # "create"
      BY <2>1 DEF GoneInv, StoppedIsEmpty
    <3>2. cluster'[id] = {}
      BY <1>1, <1>g, <2>1, <3>1 DEF ClusterStep
    <3> QED
      BY <1>1, <3>1, <3>2 DEF WorkStep, CreatesOn
  <2>2. ASSUME cluster' = cluster, NEW p \in Procs, proc[p].pc = "stop", proc[p].id = id
        PROVE  /\ cluster'[id] = {}
               /\ \A q \in Procs : proc'[q].id = id => proc'[q].op # "create"
    <3>1. Removed(proc[p]) = Kinds /\ proc[p].op = "delete"
      BY <1>0, <2>2 DEF Removed, OpsFit
    <3>2. cluster[id] = {}
      BY <1>0, <2>2, <3>1 DEF GoneInv, RemovedIsGone
    <3>3. \A q \in Procs : proc[q].id = id => proc[q].op # "create"
      BY <2>2, <3>1 DEF Overtaken
    <3> QED
      BY <1>1, <2>2, <3>2, <3>3 DEF WorkStep, CreatesOn
  <2> QED
    BY <1>1, <2>1, <2>2 DEF StatusStep
<1> QED
  BY <1>0, <1>1, <1>2, <1>3, <1>4 DEF GoneInv

(* What README.md:221 says of DELETE - the Deployment, the Service and the  *)
(* PVC of a stopped session are gone - and the code does not always do,     *)
(* holds for as long as no DELETE has overtaken the POST of its session, in *)
(* a panel that does not crash and whose SetStatus nobody calls: those are  *)
(* the only ways to a stopped session with something left in Kubernetes     *)
(* (Apply 56-70 and Delete 72-87 in kubernetes.go, Delete 327-341 in        *)
(* store.go), failing API calls and failing saves included.                 *)
THEOREM StoppedIsGone ==
  ASSUME "crash" \notin FaultKinds, ApiStatuses = {}
  PROVE  Spec /\ []~Overtaken => []StoppedMeansGone
<1>1. Init => GoneInv
  <2> SUFFICES ASSUME Init PROVE GoneInv
    OBVIOUS
  <2>1. \A id \in Ids : sessions[id].status = "absent"
    BY DEF Init, EmptyMap, NoSession
  <2>2. \A p \in Procs : Removed(proc[p]) = {} /\ proc[p].pc = "idle"
    BY DEF Init, Idle, Removed
  <2> QED
    BY <2>1, <2>2, InitInv DEF Init, GoneInv, OpsFit, FirstBoot, RemovedIsGone, StoppedIsEmpty
<1>2. GoneInv /\ ~Overtaken /\ [Next]_vars => GoneInv'
  BY GoneStays
<1>3. GoneInv => StoppedMeansGone
  BY DEF GoneInv, StoppedIsEmpty, StoppedMeansGone
<1> QED
  BY <1>1, <1>2, <1>3, PTL DEF Spec

-----------------------------------------------------------------------------
(* A panel that serves knows what runs *)

(* A panel begins to serve with no active session whose Deployment is gone. *)
ServesBacked ==
  [][\A id \in Ids :
       server = "reconciling" /\ server' = "serving" /\ Active(sessions', id)
         => "deployment" \in cluster'[id]]_vars

(* What Reconcile has looked at is backed by a Deployment or has ended.     *)
ReconciledIsBacked ==
  server = "reconciling" =>
    \A id \in Ids : Active(sessions, id) /\ id \notin todo => "deployment" \in cluster[id]

LEMMA BackedStays ==
  ASSUME Inv, ReconciledIsBacked, [Next]_vars, "api" \notin FaultKinds
  PROVE  ReconciledIsBacked'
<1>0. TypeOK /\ Setting
  BY DEF Inv, Setting
<1>1. CASE Boot
  BY <1>1 DEF Boot, ReconciledIsBacked, Active
<1>2. CASE server' # "reconciling"
  BY <1>2 DEF ReconciledIsBacked
<1>3. CASE UNCHANGED <<sessions, cluster, server, todo>>
  BY <1>3 DEF ReconciledIsBacked, Active
<1>4. ASSUME NEW id \in Ids, Adopt(id)
      PROVE  ReconciledIsBacked'
  <2>1. /\ server = "reconciling" /\ ~WorkloadMissing(id) /\ todo' = todo \ {id}
        /\ sessions' = sessions /\ cluster' = cluster
    BY <1>4 DEF Adopt, Fault, storeVars, k8sVars
  <2> QED
    BY <2>1 DEF ReconciledIsBacked, WorkloadMissing, Active
<1>5. ASSUME NEW id \in Ids, Tombstone(id)
      PROVE  ReconciledIsBacked'
  <2>1. PICK outcome \in SaveOutcomes : SetStatus(id, "stopped", outcome)
    BY <1>5 DEF Tombstone
  <2>2. /\ server = "reconciling" /\ todo' = todo \ {id} /\ cluster' = cluster
    BY <1>5 DEF Tombstone, k8sVars
  <2>3. ~Active(sessions', id) /\ \A i \in Ids : i # id => sessions'[i] = sessions[i]
    BY <1>0, <2>1, SetStatusChangesOne DEF Active, ActiveStatuses
  <2> QED
    BY <2>2, <2>3 DEF ReconciledIsBacked, Active
<1>6. ASSUME NEW id \in Ids, PodAvailable(id) \/ PodUnavailable(id)
      PROVE  ReconciledIsBacked'
  BY <1>3, <1>6 DEF PodAvailable, PodUnavailable, storeVars, bootVars
<1>7. ASSUME NEW p \in Procs, Continue(p)
      PROVE  server' # "reconciling"
  <2>1. server' = server /\ proc[p].pc # "idle"
    BY <1>7 DEF Continue, ApplyCreates, ApplyFails, Undo, FailCreate, Probe, Promote,
                DeleteResource, Stop, bootVars
  <2> QED
    BY <2>1 DEF Inv, HandlersHaveSession
<1>8. ASSUME NEW p \in Procs, NEW u \in Users, CreateRefused(p, u) \/ Current(p, u) \/ List(p, u)
      PROVE  server' # "reconciling"
  BY <1>8 DEF CreateRefused, Current, List, CanStart, bootVars
<1>9. ASSUME NEW p \in Procs, NEW u \in Users, NEW id \in Ids,
             Create(p, u, id) \/ Get(p, u, id) \/ Delete(p, u, id)
      PROVE  server' # "reconciling"
  BY <1>9 DEF Create, Get, Delete, Read, CanStart, bootVars
<1>10. ASSUME NEW id \in Ids, NEW s \in ApiStatuses, SetStatusCall(id, s)
       PROVE  server' # "reconciling"
  BY <1>10 DEF SetStatusCall, bootVars
<1>11. CASE Crash \/ Serve
  BY <1>2, <1>11 DEF Crash, Serve
<1>12. CASE UNCHANGED vars
  BY <1>3, <1>12 DEF vars
<1> QED
  BY <1>1, <1>2, <1>4, <1>5, <1>6, <1>7, <1>8, <1>9, <1>10, <1>11, <1>12 DEF Next

(* As long as the Kubernetes API answers, Reconcile leaves no active record *)
(* without its Deployment (store.go 132-152): with ReconcileIsSafe, it ends *)
(* the sessions whose workload is gone and those only.  When a call errs it *)
(* fails open instead, and adopts whatever the record says.                 *)
THEOREM ReconcileIsComplete ==
  ASSUME "api" \notin FaultKinds
  PROVE  Spec => ServesBacked
<1> DEFINE Backed == \A id \in Ids :
             server = "reconciling" /\ server' = "serving" /\ Active(sessions', id)
               => "deployment" \in cluster'[id]
<1>1. Init => ReconciledIsBacked
  BY DEF Init, ReconciledIsBacked
<1>2. Inv /\ ReconciledIsBacked /\ [Next]_vars => ReconciledIsBacked'
  BY BackedStays
<1>3. ASSUME Inv, ReconciledIsBacked, [Next]_vars, server = "reconciling", server' = "serving"
      PROVE  Backed
  <2>1. Serve
    <3>1. ASSUME NEW p \in Procs, Continue(p)
          PROVE  server' = server
      BY <3>1 DEF Continue, ApplyCreates, ApplyFails, Undo, FailCreate, Probe, Promote,
                  DeleteResource, Stop, bootVars
    <3>2. ASSUME NEW id \in Ids, Adopt(id) \/ Tombstone(id) \/ PodAvailable(id) \/ PodUnavailable(id)
          PROVE  server' = server
      BY <3>2 DEF Adopt, Tombstone, PodAvailable, PodUnavailable, bootVars
    <3>3. ASSUME NEW p \in Procs, NEW u \in Users, CreateRefused(p, u) \/ Current(p, u) \/ List(p, u)
          PROVE  server' = server
      BY <3>3 DEF CreateRefused, Current, List, bootVars
    <3>4. ASSUME NEW p \in Procs, NEW u \in Users, NEW id \in Ids,
                 Create(p, u, id) \/ Get(p, u, id) \/ Delete(p, u, id)
          PROVE  server' = server
      BY <3>4 DEF Create, Get, Delete, Read, bootVars
    <3>5. ASSUME NEW id \in Ids, NEW s \in ApiStatuses, SetStatusCall(id, s)
          PROVE  server' = server
      BY <3>5 DEF SetStatusCall, bootVars
    <3>6. ~Crash /\ ~Boot /\ ~UNCHANGED vars
      BY <1>3 DEF Crash, Boot, vars
    <3> QED
      BY <1>3, <3>1, <3>2, <3>3, <3>4, <3>5, <3>6 DEF Next
  <2> QED
    BY <1>3, <2>1 DEF Serve, ReconciledIsBacked, storeVars, k8sVars, Active
<1>4. Inv /\ ReconciledIsBacked /\ [Next]_vars => [Backed]_vars
  BY <1>3
<1> QED
  BY <1>1, <1>2, <1>4, Invariant, PTL DEF Spec, ServesBacked

-----------------------------------------------------------------------------
(* What the lease table is worth *)

(* No two live leases are of one user or of one ROS domain; a lease that is *)
(* over stays as it is, and one that was granted keeps its user and domain. *)
LiveLeasesDiffer ==
  \A i, j \in Ids :
    LeaseTable[i].phase = "live" /\ LeaseTable[j].phase = "live" /\ i # j =>
      LeaseTable[i].user # LeaseTable[j].user /\ LeaseTable[i].domain # LeaseTable[j].domain

Kept(old, new) ==
  /\ old.phase = "over" => new = old
  /\ old.phase = "live" => /\ new.phase # "unborn"
                           /\ new.user = old.user /\ new.domain = old.domain

LeasesLast == [][\A id \in Ids : Kept(LeaseTable[id], LeaseTable'[id])]_LeaseTable

(* What the refinement is for: a store that implements SessionLease never   *)
(* has two live sessions of a user or of a domain, and takes no session     *)
(* back, not even by a restart (store.go 78-141, 169-226).                   *)
THEOREM LeasePromise == ImplementsLease => []LiveLeasesDiffer /\ LeasesLast
<1> DEFINE Typed == LeaseTable \in [Ids -> Lease!Leases]
           Good == Typed /\ LiveLeasesDiffer
           Lasts == \A id \in Ids : Kept(LeaseTable[id], LeaseTable'[id])
<1>1. Lease!Init => Good
  BY DEF Lease!Init, Lease!Leases, LiveLeasesDiffer
<1>2. ASSUME Good, [Lease!Next]_LeaseTable
      PROVE  Good' /\ [Lasts]_LeaseTable
  <2>1. CASE UNCHANGED LeaseTable
    BY <1>2, <2>1 DEF LiveLeasesDiffer
  <2>2. ASSUME NEW u \in Users, NEW id \in Ids, NEW d \in Domains, Lease!Grant(u, id, d)
        PROVE  Good' /\ Lasts
    <3>1. LeaseTable' = [LeaseTable EXCEPT ![id] = [user |-> u, domain |-> d, phase |-> "live"]]
      BY <2>2 DEF Lease!Grant
    <3>2. /\ LeaseTable'[id] = [user |-> u, domain |-> d, phase |-> "live"]
          /\ \A i \in Ids : i # id => LeaseTable'[i] = LeaseTable[i]
          /\ LeaseTable[id].phase = "unborn"
      BY <1>2, <2>2, <3>1 DEF Lease!Grant
    <3>3. Typed'
      BY <1>2, <3>1 DEF Lease!Leases
    <3>4. \A i \in Ids : LeaseTable[i].phase = "live" =>
            LeaseTable[i].user # u /\ LeaseTable[i].domain # d
      BY <2>2 DEF Lease!Grant, Lease!Live, Lease!FreeDomains
    <3>5. LiveLeasesDiffer'
      BY <1>2, <3>2, <3>4 DEF LiveLeasesDiffer
    <3>6. Lasts
      BY <3>2 DEF Kept
    <3> QED
      BY <3>3, <3>5, <3>6
  <2>3. ASSUME NEW id \in Ids, Lease!End(id)
        PROVE  Good' /\ Lasts
    <3>1. LeaseTable' = [LeaseTable EXCEPT ![id] = [LeaseTable[id] EXCEPT !.phase = "over"]]
      BY <2>3 DEF Lease!End
    <3>2. LeaseTable[id] \in Lease!Leases
      BY <1>2
    <3> DEFINE over == [LeaseTable[id] EXCEPT !.phase = "over"]
    <3>3. /\ over \in Lease!Leases /\ over.phase = "over"
          /\ over.user = LeaseTable[id].user /\ over.domain = LeaseTable[id].domain
      BY <3>2 DEF Lease!Leases
    <3>4. /\ Typed' /\ LeaseTable[id].phase = "live"
          /\ LeaseTable'[id] = over /\ over \in Lease!Leases
          /\ \A i \in Ids : i # id => LeaseTable'[i] = LeaseTable[i]
      <4>1. over \in Lease!Leases /\ LeaseTable' = [LeaseTable EXCEPT ![id] = over]
        BY <3>1, <3>3
      <4>2. LeaseTable[id].phase = "live"
        BY <2>3 DEF Lease!End
      <4>3. Typed
        BY <1>2
      <4> HIDE DEF over
      <4>4. LeaseTable'[id] = over /\ \A i \in Ids : i # id => LeaseTable'[i] = LeaseTable[i]
        BY <4>1, <4>3
      <4>5. Typed'
        BY <4>1, <4>3
      <4> QED
        BY <4>1, <4>2, <4>4, <4>5
    <3> HIDE DEF over
    <3>5. LiveLeasesDiffer'
      <4>1. \A i \in Ids : LeaseTable'[i].phase = "live" =>
              i # id /\ LeaseTable'[i] = LeaseTable[i]
        BY <3>3, <3>4
      <4> QED
        BY <1>2, <4>1 DEF LiveLeasesDiffer
    <3>6. Lasts
      BY <3>3, <3>4 DEF Kept
    <3> QED
      BY <3>4, <3>5, <3>6
  <2> QED
    BY <1>2, <2>1, <2>2, <2>3 DEF Lease!Next
<1>3. Good => LiveLeasesDiffer
  OBVIOUS
<1> HIDE DEF Good, Lasts
<1>4. ImplementsLease => []LiveLeasesDiffer /\ [][Lasts]_LeaseTable
  BY <1>1, <1>2, <1>3, PTL DEF ImplementsLease, Lease!Spec
<1> QED
  BY <1>4 DEF LeasesLast, Lasts

-----------------------------------------------------------------------------
(* A restart can read the file *)

(* saveLocked writes in place (store.go 156-167), against the comment on    *)
(* Store (59-61).  It takes both a write that stops half-way and a crash to *)
(* leave a panel that cannot start again: refused saves, calls that fail    *)
(* and crashes between two saves never do.                                  *)
THEOREM OnlyTornBlocksStart ==
  ASSUME "torn" \notin FaultKinds \/ "crash" \notin FaultKinds
  PROVE  Spec => []RestartPossible
<1> DEFINE Readable == RestartPossible /\ ("torn" \notin FaultKinds => intact)
<1>1. Init => Readable
  BY DEF Init, RestartPossible
<1>2. ASSUME Inv, Readable, [Next]_vars
      PROVE  Readable'
  <2>1. \A map : \A outcome \in SaveOutcomes :
          Save(map, outcome) /\ "torn" \notin FaultKinds => intact'
    BY <1>2 DEF Save, Fault, SaveOutcomes, SaveFaults
  <2>2. CASE StoreIdle
    BY <1>2, <2>2 DEF StoreIdle, storeVars, RestartPossible
  <2>3. CASE SomeStatusSet
    BY <1>2, <2>1, <2>3 DEF SomeStatusSet, SetStatus, RestartPossible
  <2>4. CASE SomeCreate
    BY <1>2, <2>1, <2>4 DEF SomeCreate, Create, bootVars, RestartPossible
  <2>5. CASE Boot
    BY <1>2, <2>5 DEF Boot, RestartPossible
  <2>6. CASE Crash
    BY <1>2, <2>6 DEF Crash, Fault, RestartPossible
  <2> QED
    BY <1>2, <2>2, <2>3, <2>4, <2>5, <2>6, StoreSteps DEF Inv, Setting
<1>3. Readable => RestartPossible
  OBVIOUS
<1> HIDE DEF Readable
<1> QED
  BY <1>1, <1>2, <1>3, Invariant, PTL DEF Spec
=============================================================================
