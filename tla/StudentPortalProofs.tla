------------------------ MODULE StudentPortalProofs ------------------------
(***************************************************************************)
(* Theorems about a student's browser in front of the session store, for   *)
(* any tabs, users, logins, sessions, handlers and faults.  Every step of  *)
(* the composition is a step of the store, of the login, or one that       *)
(* neither sees (StoreSees, LoginSees), so the invariants of the two hold  *)
(* in it.  What the composition adds is whose session a record is: an      *)
(* owner never changes, a handler works on a session of the user it was    *)
(* started for, and a call that can still set the page's state was sent    *)
(* for the user who is signed in.                                          *)
(***************************************************************************)
EXTENDS StudentPortal, SessionStoreProofs, BrowserLoginProofs

-----------------------------------------------------------------------------
(* The store's side: whose session it is *)

(* The file and the memory of a panel that is up agree on the owners.       *)
OwnersAgree ==
  server # "down" => \A id \in Ids : sessions[id].user = disk[id].user

(* A byUser entry names a session of its user.                              *)
EntriesOwn ==
  \A u \in Users : byUser[u] # NoId =>
    Present(sessions, byUser[u]) /\ sessions[byUser[u]].user = u

(* What a request of each kind goes through.                                *)
Stages(op) ==
  CASE op = "create" -> {"apply", "undoPVC", "undoDeployment", "fail"}
    [] op = "delete" -> {"probe", "promote", "delete", "stop"}
    [] OTHER         -> {"probe", "promote"}

(* A handler is at a stage of its request, for the owner of its session.    *)
HandlersOwn ==
  \A p \in Procs : proc[p].pc # "idle" =>
    /\ proc[p].op # "none" /\ proc[p].pc \in Stages(proc[p].op)
    /\ sessions[proc[p].id].user = proc[p].user

(* A panel that serves nobody has answered nobody.                          *)
DownIsSilent == server # "serving" => answer = NoAnswer

StoreSide == Inv /\ OwnersAgree /\ EntriesOwn /\ HandlersOwn /\ DownIsSilent

(* Owners stay: in the file for good, in memory until a crash.              *)
OwnersStay ==
  /\ \A id \in Ids : Present(disk, id) => Present(disk', id) /\ disk'[id].user = disk[id].user
  /\ server' # "down" =>
       \A id \in Ids : Present(sessions, id) =>
         Present(sessions', id) /\ sessions'[id].user = sessions[id].user

LEMMA OwnersStep ==
  ASSUME StoreSide, [Next]_vars
  PROVE  OwnersStay /\ OwnersAgree' /\ EntriesOwn'
<1>1. /\ Setting /\ DownIsEmpty /\ KnownOnDisk /\ OwnersAgree /\ EntriesOwn
      /\ sessions \in [Ids -> Sessions] /\ disk \in [Ids -> Sessions]
      /\ byUser \in [Users -> Ids \cup {NoId}]
  BY DEF StoreSide, Inv, Setting, TypeOK
<1>2. CASE StoreIdle
  <2>1. UNCHANGED <<sessions, byUser, disk>> /\ (server' = "down" <=> server = "down")
    BY <1>2 DEF StoreIdle, storeVars
  <2> QED
    BY <1>1, <2>1 DEF OwnersStay, OwnersAgree, EntriesOwn, Present
<1>3. CASE SomeStatusSet
  <2>1. PICK id \in Ids, s \in {"ready", "stopping", "stopped", "error"},
             outcome \in SaveOutcomes : SetStatus(id, s, outcome)
    BY <1>3 DEF SomeStatusSet
  <2>2. /\ Active(sessions, id) /\ byUser' = byUser
        /\ \A i \in Ids : i # id => sessions'[i] = sessions[i]
        /\ sessions'[id].user = sessions[id].user /\ sessions'[id].status = s
        /\ disk' = sessions' \/ disk' = disk
        /\ server' = server /\ server # "down"
    BY <1>1, <1>3, <2>1, SetStatusChangesOne DEF SomeStatusSet, Setting
  <2>3. \A i \in Ids : /\ sessions'[i].user = sessions[i].user
                       /\ Present(sessions', i) <=> Present(sessions, i)
    BY <2>2 DEF Present, Active, ActiveStatuses
  <2>4. OwnersStay /\ OwnersAgree'
    BY <1>1, <2>2, <2>3 DEF OwnersStay, OwnersAgree, KnownOnDisk, Present
  <2>5. EntriesOwn'
    BY <1>1, <2>2, <2>3 DEF EntriesOwn, Present
  <2> QED
    BY <2>4, <2>5
<1>4. CASE SomeCreate
  <2>1. PICK p \in Procs, u \in Users, id \in Ids : Create(p, u, id)
    BY <1>4 DEF SomeCreate
  <2>2. /\ server' = server /\ server # "down"
        /\ ~Present(sessions, id) /\ ~Present(disk, id)
    BY <2>1 DEF Create, CanStart, bootVars
  <2>3. CASE sessions' = sessions /\ byUser' = byUser /\ disk' = disk
    BY <1>1, <2>2, <2>3 DEF OwnersStay, OwnersAgree, EntriesOwn, Present
  <2>4. CASE /\ disk' = sessions' /\ byUser' = [byUser EXCEPT ![u] = id]
             /\ \E d \in Domains : sessions' = [sessions EXCEPT ![id] =
                       [user |-> u, domain |-> d, status |-> "provisioning"]]
    <3>1. /\ sessions'[id].user = u /\ sessions'[id].status = "provisioning"
          /\ \A i \in Ids : i # id => sessions'[i] = sessions[i]
      BY <1>1, <2>4
    <3>2. OwnersStay /\ OwnersAgree'
      BY <1>1, <2>2, <2>4, <3>1 DEF OwnersStay, OwnersAgree, KnownOnDisk, Present
    <3>3. byUser'[u] = id /\ \A v \in Users : v # u => byUser'[v] = byUser[v]
      BY <1>1, <2>4
    <3>4. EntriesOwn'
      BY <1>1, <2>2, <3>1, <3>3 DEF EntriesOwn, Present
    <3> QED
      BY <3>2, <3>4
  <2> QED
    BY <1>1, <2>1, <2>3, <2>4, CreateAddsOne DEF Setting
<1>5. CASE Boot
  <2>1. /\ sessions' = disk /\ disk' = disk /\ byUser' \in Rebuilt(disk)
        /\ sessions = EmptyMap
    BY <1>1, <1>5 DEF Boot, DownIsEmpty
  <2>2. \A u \in Users : byUser'[u] # NoId => byUser'[u] \in SessionsOf(disk, u)
    BY <2>1 DEF Rebuilt
  <2>3. EntriesOwn'
    BY <2>1, <2>2 DEF EntriesOwn, SessionsOf, Active, Present, ActiveStatuses
  <2> QED
    BY <1>1, <2>1, <2>3 DEF OwnersStay, OwnersAgree, Present, EmptyMap, NoSession
<1>6. CASE Crash
  BY <1>1, <1>6 DEF Crash, OwnersStay, OwnersAgree, EntriesOwn, Present
<1> QED
  BY <1>1, <1>2, <1>3, <1>4, <1>5, <1>6, StoreSteps

-----------------------------------------------------------------------------
(* The store's side: the handlers *)

(* A request begins and is not answered at once.                            *)
Started(p, op, u) ==
  /\ proc'[p].op = op /\ proc'[p].user = u /\ proc'[p].pc \in Stages(op)
  /\ proc'[p].id \in Ids
  /\ Present(sessions', proc'[p].id) /\ sessions'[proc'[p].id].user = u

(* A request goes on, or is answered for the session it is about.           *)
GoesOn(p) ==
  /\ proc'[p].op = proc[p].op /\ proc'[p].user = proc[p].user
  /\ proc'[p].id = proc[p].id /\ proc'[p].pc \in Stages(proc[p].op)

Ended(p) ==
  /\ proc'[p] = Idle
  /\ \E reply \in Replies \ {"notFound"} :
       answer' = [op |-> proc[p].op, id |-> proc[p].id, reply |-> reply]

LEMMA StartMoves ==
  ASSUME TypeOK, NEW p \in Procs, NEW op, NEW u, NEW id, NEW pc, Start(p, op, u, id, pc)
  PROVE  /\ proc'[p] = [pc |-> pc, op |-> op, user |-> u, id |-> id, step |-> 1]
         /\ Others(p)
BY DEF TypeOK, Start, Others

LEMMA GotoMoves ==
  ASSUME TypeOK, NEW p \in Procs, NEW pc, NEW step, Goto(p, pc, step)
  PROVE  /\ proc'[p].pc = pc /\ proc'[p].op = proc[p].op
         /\ proc'[p].user = proc[p].user /\ proc'[p].id = proc[p].id
         /\ Others(p)
<1>1. proc' = [proc EXCEPT ![p] = [proc[p] EXCEPT !.pc = pc, !.step = step]]
  BY DEF Goto
<1>2. proc \in [Procs -> Handlers] /\ proc[p] \in Handlers
  BY DEF TypeOK
<1> QED
  BY <1>1, <1>2 DEF Handlers, Others

LEMMA FinishMoves ==
  ASSUME TypeOK, NEW p \in Procs, NEW reply, Finish(p, reply)
  PROVE  /\ proc'[p] = Idle /\ Others(p)
         /\ answer' = [op |-> proc[p].op, id |-> proc[p].id, reply |-> reply]
BY DEF TypeOK, Finish, Respond, Others

(* POST: an answer at once is a refusal.                                    *)
LEMMA CreateBegins ==
  ASSUME StoreSide, NEW p \in Procs, NEW u \in Users, NEW id \in Ids,
         Create(p, u, id)
  PROVE  /\ proc[p].pc = "idle" /\ server = "serving" /\ server' = server /\ Others(p)
         /\ \/ Started(p, "create", u)
            \/ proc' = proc /\ answer' = [op |-> "create", id |-> id, reply |-> "failed"]
<1>1. TypeOK /\ sessions \in [Ids -> Sessions]
  BY DEF StoreSide, Inv, TypeOK
<1>2. proc[p].pc = "idle" /\ server = "serving" /\ server' = server
  BY DEF Create, CanStart, bootVars
<1>3. \/ proc' = proc /\ answer' = [op |-> "create", id |-> id, reply |-> "failed"]
      \/ /\ Start(p, "create", u, id, "apply")
         /\ \E d \in Domains : sessions' = [sessions EXCEPT ![id] =
                       [user |-> u, domain |-> d, status |-> "provisioning"]]
  BY DEF Create, Reply, Respond
<1>4. CASE /\ Start(p, "create", u, id, "apply")
           /\ \E d \in Domains : sessions' = [sessions EXCEPT ![id] =
                       [user |-> u, domain |-> d, status |-> "provisioning"]]
  <2>1. Present(sessions', id) /\ sessions'[id].user = u
    BY <1>1, <1>4 DEF Present
  <2>2. /\ proc'[p] = [pc |-> "apply", op |-> "create", user |-> u, id |-> id, step |-> 1]
        /\ Others(p)
    BY <1>1, <1>4, StartMoves
  <2> QED
    BY <1>2, <2>1, <2>2 DEF Started, Stages
<1> QED
  BY <1>2, <1>3, <1>4 DEF Others

(* GET and DELETE of one session: an answer at once that is good is about a *)
(* session of the user.                                                     *)
LEMMA ReadBegins ==
  ASSUME StoreSide, NEW p \in Procs, NEW u \in Users, NEW id \in Ids,
         NEW op \in {"get", "delete"}, Read(p, op, u, id)
  PROVE  /\ proc[p].pc = "idle" /\ server = "serving" /\ server' = server /\ Others(p)
         /\ UNCHANGED storeVars
         /\ \/ Started(p, op, u)
            \/ /\ proc' = proc
               /\ \E reply \in Replies : answer' = [op |-> op, id |-> id, reply |-> reply]
               /\ answer'.reply \in {"ok", "accepted"}
                    => Present(sessions, id) /\ sessions[id].user = u
<1>1. TypeOK
  BY DEF StoreSide, Inv
<1>2. /\ proc[p].pc = "idle" /\ server = "serving" /\ server' = server
      /\ UNCHANGED storeVars /\ sessions' = sessions
  BY DEF Read, CanStart, bootVars, storeVars
<1>3. \/ Reply(op, id, "notFound") \/ Reply(op, id, "forbidden")
      \/ /\ Present(sessions, id) /\ sessions[id].user = u
         /\ \/ Reply(op, id, "ok") \/ Start(p, op, u, id, "probe")
            \/ op = "delete" /\ Start(p, op, u, id, "delete")
  BY DEF Read, Present
<1>4. CASE \E reply \in Replies : Reply(op, id, reply)
  BY <1>2, <1>3, <1>4 DEF Reply, Respond, Others, Replies
<1>5. ASSUME NEW pc \in {"probe", "delete"}, Start(p, op, u, id, pc),
             pc = "delete" => op = "delete",
             Present(sessions, id), sessions[id].user = u
      PROVE  Started(p, op, u) /\ Others(p)
  <2>1. /\ proc'[p] = [pc |-> pc, op |-> op, user |-> u, id |-> id, step |-> 1]
        /\ Others(p)
    BY <1>1, <1>5, StartMoves
  <2> QED
    BY <1>2, <1>5, <2>1 DEF Started, Stages, Present
<1> QED
  BY <1>2, <1>3, <1>4, <1>5 DEF Replies

(* The gateway: what it answers at once is the user's byUser entry.         *)
LEMMA CurrentBegins ==
  ASSUME StoreSide, NEW p \in Procs, NEW u \in Users, Current(p, u)
  PROVE  /\ proc[p].pc = "idle" /\ server = "serving" /\ server' = server /\ Others(p)
         /\ UNCHANGED storeVars
         /\ \/ Started(p, "current", u) /\ proc'[p].id = byUser[u]
            \/ /\ proc' = proc
               /\ \E reply \in {"ok", "notFound"} :
                    answer' = [op |-> "current", id |-> byUser[u], reply |-> reply]
               /\ answer'.reply = "ok" => byUser[u] # NoId
               /\ answer'.reply = "notFound"
                    => byUser[u] = NoId \/ ~Active(sessions, byUser[u])
<1>1. TypeOK /\ EntriesOwn /\ byUser[u] \in Ids \cup {NoId}
  BY DEF StoreSide, Inv, TypeOK
<1>2. /\ proc[p].pc = "idle" /\ server = "serving" /\ server' = server
      /\ UNCHANGED storeVars /\ sessions' = sessions
  BY DEF Current, CanStart, bootVars, storeVars
<1>3. CASE byUser[u] = NoId
  BY <1>2, <1>3 DEF Current, Reply, Respond, Others
<1>4. CASE byUser[u] # NoId
  <2>1. PICK id \in Ids : id = byUser[u]
    BY <1>1, <1>4
  <2>2. Present(sessions, id) /\ sessions[id].user = u
    BY <1>1, <2>1, <1>4 DEF EntriesOwn
  <2>3. \/ Start(p, "current", u, id, "probe")
        \/ Reply("current", id, "ok")
        \/ ~Active(sessions, id) /\ Reply("current", id, "notFound")
    BY <1>4, <2>1 DEF Current, Active, ActiveStatuses, TerminalStatuses
  <2>4. CASE Start(p, "current", u, id, "probe")
    <3>1. /\ proc'[p] = [pc |-> "probe", op |-> "current", user |-> u, id |-> id, step |-> 1]
          /\ Others(p)
      BY <1>1, <2>4, StartMoves
    <3> QED
      BY <1>2, <2>1, <2>2, <3>1 DEF Started, Stages, Present
  <2> QED
    BY <1>2, <1>4, <2>1, <2>3, <2>4 DEF Reply, Respond, Others
<1> QED
  BY <1>3, <1>4

(* A handler that has begun goes on, or answers for its session; it finds   *)
(* no session missing.                                                      *)
LEMMA HandlerContinues ==
  ASSUME StoreSide, NEW p \in Procs, Continue(p)
  PROVE  /\ proc[p].pc # "idle" /\ server' = server /\ Others(p)
         /\ GoesOn(p) \/ Ended(p)
<1>1. TypeOK /\ HandlersOwn
  BY DEF StoreSide, Inv
<1>2. proc[p].pc # "idle" /\ server' = server
  BY DEF Continue, ApplyCreates, ApplyFails, Undo, FailCreate, Probe, Promote,
         DeleteResource, Stop, bootVars
<1>3. proc[p].pc \in Stages(proc[p].op)
  BY <1>1, <1>2 DEF HandlersOwn
<1>4. ASSUME NEW reply \in Replies \ {"notFound"}, Finish(p, reply)
      PROVE  Others(p) /\ Ended(p)
  BY <1>1, <1>4, FinishMoves DEF Ended
<1>5. ASSUME NEW pc, NEW step, Goto(p, pc, step), pc \in Stages(proc[p].op)
      PROVE  Others(p) /\ GoesOn(p)
  BY <1>1, <1>5, GotoMoves DEF GoesOn
<1>6. CASE ApplyCreates(p) \/ ApplyFails(p) \/ Undo(p) \/ FailCreate(p)
  <2>1. {"apply", "undoPVC", "undoDeployment", "fail"} = Stages(proc[p].op)
    BY <1>3, <1>6 DEF ApplyCreates, ApplyFails, Undo, FailCreate, Stages
  <2>2. \/ Finish(p, "accepted") \/ Finish(p, "failed")
        \/ \E pc, step : pc \in Stages(proc[p].op) /\ Goto(p, pc, step)
    BY <1>6, <2>1 DEF ApplyCreates, ApplyFails, Undo, FailCreate
  <2> QED
    BY <1>2, <1>4, <1>5, <2>2 DEF Replies
<1>7. CASE DeleteResource(p) \/ Stop(p)
  <2>1. {"probe", "promote", "delete", "stop"} = Stages(proc[p].op)
    BY <1>3, <1>7 DEF DeleteResource, Stop, Stages
  <2>2. \/ Finish(p, "ok") \/ Finish(p, "failed") \/ Finish(p, "invalid")
        \/ \E pc, step : pc \in Stages(proc[p].op) /\ Goto(p, pc, step)
    BY <1>7, <2>1 DEF DeleteResource, Stop
  <2> QED
    BY <1>2, <1>4, <1>5, <2>2 DEF Replies
<1>8. CASE Probe(p) \/ Promote(p)
  <2>1. /\ "promote" \in Stages(proc[p].op)
        /\ proc[p].op = "delete" => "delete" \in Stages(proc[p].op)
    BY <1>3, <1>8 DEF Probe, Promote, Stages
  <2>2. \/ Finish(p, "ok") \/ Finish(p, "failed") \/ Finish(p, "invalid")
        \/ \E pc, step : pc \in Stages(proc[p].op) /\ Goto(p, pc, step)
    BY <1>8, <2>1 DEF Probe, Promote, Proceed
  <2> QED
    BY <1>2, <1>4, <1>5, <2>2 DEF Replies
<1> QED
  BY <1>2, <1>6, <1>7, <1>8 DEF Continue

(* What a step of the store does to its handlers.                           *)
HandlerStep(p) ==
  /\ Others(p)
  /\ \/ \E op \in {"create", "get", "current", "delete"}, u \in Users : Started(p, op, u)
     \/ proc[p].pc # "idle" /\ GoesOn(p)
     \/ proc'[p] \in {proc[p], Idle}

LEMMA HandlerSteps ==
  ASSUME StoreSide, [Next]_vars
  PROVE  /\ \/ proc' = proc
            \/ server' = "down" /\ proc' = [p \in Procs |-> Idle]
            \/ \E p \in Procs : HandlerStep(p)
         /\ server' = "serving" \/ answer' = NoAnswer
<1>1. HandlersHaveSession /\ DownIsSilent
  BY DEF StoreSide, Inv
<1>2. ASSUME UNCHANGED vars
      PROVE  proc' = proc /\ (server' = "serving" \/ answer' = NoAnswer)
  BY <1>1, <1>2 DEF vars, DownIsSilent
<1>3. ASSUME NEW p \in Procs, NEW u \in Users, CreateRefused(p, u) \/ List(p, u)
      PROVE  proc' = proc /\ server' = "serving"
  BY <1>3 DEF CreateRefused, List, CanStart, Reply, bootVars
<1>4. ASSUME NEW p \in Procs, NEW u \in Users, NEW id \in Ids, Create(p, u, id)
      PROVE  HandlerStep(p) /\ server' = "serving"
  BY <1>4, CreateBegins DEF HandlerStep
<1>5. ASSUME NEW p \in Procs, NEW u \in Users, NEW id \in Ids,
             NEW op \in {"get", "delete"}, Read(p, op, u, id)
      PROVE  HandlerStep(p) /\ server' = "serving"
  BY <1>5, ReadBegins DEF HandlerStep
<1>6. ASSUME NEW p \in Procs, NEW u \in Users, Current(p, u)
      PROVE  HandlerStep(p) /\ server' = "serving"
  BY <1>6, CurrentBegins DEF HandlerStep
<1>7. ASSUME NEW p \in Procs, Continue(p)
      PROVE  HandlerStep(p) /\ server' = "serving"
  BY <1>1, <1>7, HandlerContinues DEF HandlerStep, Ended, HandlersHaveSession
<1>8. ASSUME Crash
      PROVE  server' = "down" /\ proc' = [p \in Procs |-> Idle] /\ answer' = NoAnswer
  BY <1>8 DEF Crash, Silent
<1>9. ASSUME Boot \/ Serve
      PROVE  proc' = proc /\ answer' = NoAnswer
  BY <1>9 DEF Boot, Serve, Silent
<1>10. ASSUME NEW id \in Ids,
              \/ \E s \in ApiStatuses : SetStatusCall(id, s)
              \/ Adopt(id) \/ Tombstone(id) \/ PodAvailable(id) \/ PodUnavailable(id)
       PROVE  proc' = proc /\ answer' = NoAnswer
  BY <1>10 DEF SetStatusCall, Adopt, Tombstone, PodAvailable, PodUnavailable, Silent
<1>11. \/ \E p \in Procs : HandlerStep(p) /\ server' = "serving"
       \/ proc' = proc /\ (server' = "serving" \/ answer' = NoAnswer)
       \/ Crash
  <2>1. CASE UNCHANGED vars
    BY <1>2, <2>1
  <2>2. CASE \E p \in Procs, u \in Users : CreateRefused(p, u) \/ Current(p, u) \/ List(p, u)
    BY <1>3, <1>6, <2>2
  <2>3. CASE \E p \in Procs, u \in Users, id \in Ids :
               Create(p, u, id) \/ Get(p, u, id) \/ Delete(p, u, id)
    BY <1>4, <1>5, <2>3 DEF Get, Delete
  <2>4. CASE \E p \in Procs : Continue(p)
    BY <1>7, <2>4
  <2>5. CASE Crash \/ Boot \/ Serve
    BY <1>9, <2>5
  <2>6. CASE \/ \E id \in Ids, s \in ApiStatuses : SetStatusCall(id, s)
             \/ \E id \in Ids : Adopt(id) \/ Tombstone(id)
             \/ \E id \in Ids : PodAvailable(id) \/ PodUnavailable(id)
    BY <1>10, <2>6
  <2> QED
    BY <2>1, <2>2, <2>3, <2>4, <2>5, <2>6 DEF Next
<1> QED
  BY <1>8, <1>11

(* The store's side is kept by every step of the store.                     *)
LEMMA StoreSideStep ==
  ASSUME StoreSide, [Next]_vars
  PROVE  StoreSide' /\ OwnersStay
<1>1. Inv' /\ OwnersStay /\ OwnersAgree' /\ EntriesOwn'
  BY NextInv, OwnersStep DEF StoreSide
<1>2. DownIsSilent'
  BY HandlerSteps DEF DownIsSilent
<1>3. HandlersOwn'
  <2>1. HandlersOwn /\ HandlersHaveSession /\ HandlersHaveSession'
    BY <1>1 DEF StoreSide, Inv
  <2>2. ASSUME NEW q \in Procs, proc'[q].pc # "idle"
        PROVE  /\ proc'[q].op # "none" /\ proc'[q].pc \in Stages(proc'[q].op)
               /\ sessions'[proc'[q].id].user = proc'[q].user
    <3>1. server' # "down"
      BY <2>1, <2>2 DEF HandlersHaveSession
    <3>2. CASE \E op \in {"create", "get", "current", "delete"}, u \in Users :
                 Started(q, op, u)
      BY <3>2 DEF Started
    <3>3. CASE proc[q].pc # "idle" /\ (GoesOn(q) \/ proc'[q] = proc[q])
      <4>1. PICK id \in Ids : id = proc[q].id
        BY <2>1, <3>3 DEF HandlersHaveSession
      <4>2. sessions'[id].user = sessions[id].user
        BY <1>1, <2>1, <3>1, <3>3, <4>1 DEF OwnersStay, HandlersHaveSession
      <4>3. /\ proc[q].op # "none" /\ proc[q].pc \in Stages(proc[q].op)
            /\ sessions[id].user = proc[q].user
        BY <2>1, <3>3, <4>1 DEF HandlersOwn
      <4>4. /\ proc'[q].op = proc[q].op /\ proc'[q].user = proc[q].user
            /\ proc'[q].id = id /\ proc'[q].pc \in Stages(proc[q].op)
        BY <3>3, <4>1, <4>3 DEF GoesOn
      <4> QED
        BY <4>2, <4>3, <4>4
    <3>4. proc'[q] # Idle
      BY <2>2 DEF Idle
    <3> QED
      BY <2>2, <3>1, <3>2, <3>3, <3>4, HandlerSteps DEF HandlerStep, Others
  <2> QED
    BY <2>2 DEF HandlersOwn
<1> QED
  BY <1>1, <1>2, <1>3 DEF StoreSide

LEMMA StoreSideStarts == Init => StoreSide
<1> SUFFICES ASSUME Init PROVE StoreSide
  OBVIOUS
<1>1. Inv
  BY InitInv
<1> QED
  BY <1>1 DEF Init, Idle, StoreSide, OwnersAgree, EntriesOwn, HandlersOwn, DownIsSilent

-----------------------------------------------------------------------------
(* The page and its calls *)

(* The request of the store a call becomes.                                 *)
OpOf(kind) ==
  CASE kind = "create" -> "create"
    [] kind \in {"stop", "appStop"} -> "delete"
    [] kind = "frame" -> "current"
    [] OTHER -> "get"

Listing == {"list", "appList"}

(* A call c and its handler h agree on where the call is; a call that names *)
(* a session is sent with one, and a good answer to it has one.             *)
CallFits(c, h) ==
  /\ c \in Calls
  /\ c.at = "running" <=> h.pc # "idle"
  /\ c.at = "free" => ~c.mounted
  /\ c.kind = "elsewhere" => c.at = "running" /\ ~c.mounted
  /\ c.at = "sent" /\ c.kind \in ReadKinds \cup {"stop", "appStop"} => c.id \in Ids
  /\ c.at = "running" => \/ c.kind = "elsewhere"
                         \/ c.kind \notin Listing /\ h.op = OpOf(c.kind)
  /\ c.at = "answered" /\ c.reply = "ok" =>
       /\ c.id = NoId <=> c.status = "absent"
       /\ c.kind \notin Listing => c.id \in Ids

(* The student's token is good and goes with the cookie.                    *)
Trusted == ~overlapped /\ Live(creds[Home])

(* A session of whoever is signed in.                                       *)
Own(id) ==
  id \in Ids /\ Present(disk, id) /\ disk[id].user = issued[creds[Home]]

(* What can still set the page's state was asked, and is answered, for      *)
(* whoever is signed in; a frame's call only as far as the cookie is his.   *)
CallOwned(c, h) ==
  c.mounted =>
    /\ c.at = "sent" /\ (c.kind = "frame" => Trusted) => c.token = creds[Home]
    /\ c.at = "running" /\ (c.kind = "frame" => Trusted) => h.user = issued[creds[Home]]
    /\ c.at = "answered" /\ c.reply = "ok" /\ c.kind # "frame" /\ c.id # NoId => Own(c.id)

CallsGood == \A p \in Procs : CallFits(calls[p], proc[p]) /\ CallOwned(calls[p], proc[p])

(* A page is open only in a tab that is signed in and awaits no login; what *)
(* it shows belongs to who is signed in.  Without a page no call is mounted.*)
PageGood ==
  /\ page \in Pages
  /\ page.id = NoId <=> page.status = "absent"
  /\ page.at = "out" => page = Out /\ \A p \in Procs : ~calls[p].mounted
  /\ page.at # "out" => creds[Home] # NoToken /\ form[Home].at = "quiet"
  /\ page.id # NoId => Own(page.id)

PortalInv ==
  /\ StoreSide /\ LoginInv
  /\ calls \in [Procs -> Calls] /\ CallsGood /\ PageGood

LEMMA TokensNamed ==
  ASSUME LoginInv, NEW n \in Tokens, n # NoToken
  PROVE  n \in 1..Len(issued) /\ issued[n] \in Names /\ issued[n] \in Users
<1>1. issued \in Seq(Names) /\ Names \subseteq Users /\ Len(issued) \in Nat
  BY PortalAssumption DEF LoginInv, LoginTypeOK
<1>2. n \in 1..Len(issued)
  BY <1>1 DEF Tokens, NoToken
<1> QED
  BY <1>1, <1>2

(* A step of a login: tokens stay whose they are, expiry and crossed logins *)
(* are not taken back.                                                      *)
LEMMA LoginStays ==
  ASSUME LoginInv, [LoginNext]_loginVars
  PROVE  /\ Tokens \subseteq Tokens' /\ expired <= expired' /\ (overlapped => overlapped')
         /\ \A n \in 1..Len(issued) : issued'[n] = issued[n]
<1>1. /\ issued \in Seq(Names) /\ Len(issued) \in Nat /\ expired \in Nat
      /\ form \in [Tabs -> Forms] /\ LoginTypeOK'
  BY LoginKeepsTypes DEF LoginInv, LoginTypeOK, Tokens, Forms
<1>2. \/ issued' = issued
      \/ \E t \in Tabs : issued' = Append(issued, form[t].user)
  BY DEF LoginNext, Submit, LoginRefused, LoginServed, LoginDone, LoginLost,
         Logout, Duplicate, Expire, CookieDropped, loginVars
<1>3. expired' = expired \/ expired' = expired + 1
  BY DEF LoginNext, Submit, LoginRefused, LoginServed, LoginDone, LoginLost,
         Logout, Duplicate, Expire, CookieDropped, loginVars
<1>4. overlapped => overlapped'
  BY DEF LoginNext, Submit, LoginRefused, LoginServed, LoginDone, LoginLost,
         Logout, Duplicate, Expire, CookieDropped, loginVars
<1>5. CASE issued' = issued
  BY <1>1, <1>3, <1>4, <1>5 DEF Tokens
<1>6. ASSUME NEW t \in Tabs, issued' = Append(issued, form[t].user)
      PROVE  /\ Tokens \subseteq Tokens'
             /\ \A n \in 1..Len(issued) : issued'[n] = issued[n]
  <2>1. form[t].user \in Names
    BY <1>1 DEF Forms
  <2>2. Len(issued') = Len(issued) + 1
    BY <1>1, <1>6, <2>1
  <2> QED
    BY <1>1, <1>6, <2>1, <2>2 DEF Tokens
<1> QED
  BY <1>1, <1>2, <1>3, <1>4, <1>5, <1>6

-----------------------------------------------------------------------------
(* The composition keeps the invariants of its halves *)

LEMMA StoreSees ==
  ASSUME PortalInv, [PortalNext]_portalVars
  PROVE  [Next]_vars
<1>1. /\ LoginInv /\ CallsGood /\ Names \subseteq Users
  BY PortalAssumption DEF PortalInv
<1>2. CASE UNCHANGED portalVars
  BY <1>2 DEF portalVars
<1>3. ASSUME NEW p \in Procs,
             Click(p) \/ Poll(p) \/ AppPoll(p) \/ Unauthorized(p) \/ Unanswered(p) \/ Receive(p)
      PROVE  UNCHANGED vars
  BY <1>3 DEF Click, OpenPage, Back, Retry, Launch, ClickStop, OpenApp, LoadFrame,
              Poll, AppPoll, Unauthorized, Unanswered, Receive
<1>4. ASSUME NEW p \in Procs, Arrive(p)
      PROVE  Next
  <2>1. /\ CallFits(calls[p], proc[p]) /\ calls[p].token \in Tokens
        /\ calls[p].token # NoToken /\ calls[p].at = "sent"
    BY <1>1, <1>4 DEF CallsGood, CallFits, Calls, Arrive, Live
  <2>2. PICK u \in Users : u = issued[calls[p].token]
    BY <1>1, <2>1, TokensNamed
  <2>3. PICK kind, id : kind = calls[p].kind /\ id = calls[p].id
    OBVIOUS
  <2>4. Route(p, kind, u, id)
    BY <1>4, <2>2, <2>3 DEF Arrive
  <2>5. kind \in ReadKinds \cup {"stop", "appStop"} => id \in Ids
    BY <2>1, <2>3 DEF CallFits
  <2> QED
    BY <2>4, <2>5 DEF Route, Next
<1>5. ASSUME NEW p \in Procs, Work(p)
      PROVE  Next
  BY <1>5 DEF Work, Next
<1>6. ASSUME NEW p \in Procs, NEW u \in Names, NEW id \in Ids, Elsewhere(p, u, id)
      PROVE  Next
  BY <1>1, <1>6 DEF Elsewhere, Next
<1>7. CASE PanelCrash \/ Around
  BY <1>7 DEF PanelCrash, Around, Next
<1>8. CASE SignOut \/ Signing
  BY <1>8 DEF SignOut, Signing
<1> QED
  BY <1>2, <1>3, <1>4, <1>5, <1>6, <1>7, <1>8 DEF PortalNext, Answer

(* Only the login page and the sign-out button touch tokens and cookie.     *)
LEMMA SigningOnly ==
  ASSUME [PortalNext]_portalVars
  PROVE  SignOut \/ Signing \/ UNCHANGED loginVars
<1>1. ASSUME NEW p \in Procs, Click(p) \/ Poll(p) \/ AppPoll(p) \/ Answer(p) \/ Receive(p)
      PROVE  UNCHANGED loginVars
  BY <1>1 DEF Click, OpenPage, Back, Retry, Launch, ClickStop, OpenApp, LoadFrame,
              Poll, AppPoll, Answer, Unauthorized, Unanswered, Arrive, Work, Receive
<1>2. ASSUME NEW p \in Procs, NEW u \in Names, NEW id \in Ids, Elsewhere(p, u, id)
      PROVE  UNCHANGED loginVars
  BY <1>2 DEF Elsewhere
<1>3. CASE PanelCrash \/ Around \/ UNCHANGED portalVars
  BY <1>3 DEF PanelCrash, Around, Aside, portalVars
<1> QED
  BY <1>1, <1>2, <1>3 DEF PortalNext

LEMMA LoginSees ==
  ASSUME [PortalNext]_portalVars
  PROVE  [LoginNext]_loginVars
<1>1. CASE SignOut
  BY <1>1, PortalAssumption DEF SignOut, LoginNext
<1>2. CASE Signing
  BY <1>2, PortalAssumption DEF Signing, LoginNext
<1> QED
  BY <1>1, <1>2, SigningOnly

(* While a page is open nobody signs in or out behind it in its tab, except *)
(* by the button that closes it.                                            *)
PageStays ==
  /\ Tokens \subseteq Tokens'
  /\ page.at # "out" =>
       /\ creds'[Home] = creds[Home] /\ issued'[creds[Home]] = issued[creds[Home]]
       /\ form'[Home].at = "quiet"
       /\ Trusted' => Trusted

LEMMA HomeStays ==
  ASSUME PortalInv, [PortalNext]_portalVars, ~SignOut
  PROVE  PageStays
<1>1. /\ LoginInv /\ PageGood /\ Home \in Tabs
      /\ creds \in [Tabs -> Tokens] /\ form \in [Tabs -> Forms]
  BY PortalAssumption DEF PortalInv, LoginInv, LoginTypeOK, Forms
<1>2. /\ Tokens \subseteq Tokens' /\ expired <= expired' /\ (overlapped => overlapped')
      /\ \A n \in 1..Len(issued) : issued'[n] = issued[n]
  BY <1>1, LoginSees, LoginStays
<1>3. ASSUME page.at # "out"
      PROVE  creds'[Home] = creds[Home] /\ form'[Home].at = "quiet"
  <2>1. form[Home].at = "quiet"
    BY <1>1, <1>3 DEF PageGood
  <2>2. CASE Signing
    <3>1. ASSUME NEW t \in Tabs, NEW u \in Names, t # Home, Submit(t, u)
          PROVE  creds'[Home] = creds[Home] /\ form'[Home] = form[Home]
      BY <1>1, <3>1 DEF Submit
    <3>2. ASSUME NEW t \in Tabs,
                 LoginRefused(t) \/ LoginDone(t) \/ LoginLost(t) \/ LoginServed(t)
          PROVE  creds'[Home] = creds[Home] /\ form'[Home] = form[Home]
      <4>1. t # Home
        BY <2>1, <3>2 DEF LoginRefused, LoginDone, LoginLost, LoginServed
      <4> QED
        BY <1>1, <3>2, <4>1 DEF LoginRefused, LoginDone, LoginLost, LoginServed
    <3>3. ASSUME NEW t \in Tabs \ {Home}, Logout(t) \/ Duplicate(Home, t)
          PROVE  creds'[Home] = creds[Home] /\ form'[Home] = form[Home]
      BY <1>1, <3>3 DEF Logout, Duplicate
    <3>4. CASE Expire \/ CookieDropped
      BY <2>1, <3>4 DEF Expire, CookieDropped
    <3> QED
      BY <1>3, <2>1, <2>2, <3>1, <3>2, <3>3, <3>4 DEF Signing
  <2>3. CASE UNCHANGED loginVars
    BY <2>1, <2>3 DEF loginVars
  <2> QED
    BY <2>2, <2>3, SigningOnly
<1>4. ASSUME page.at # "out"
      PROVE  issued'[creds[Home]] = issued[creds[Home]] /\ (Trusted' => Trusted)
  <2>1. creds[Home] \in Tokens /\ creds[Home] # NoToken
    BY <1>1, <1>4 DEF PageGood
  <2>2. creds[Home] \in 1..Len(issued) /\ creds[Home] \in Nat /\ expired \in Nat /\ expired' \in Nat
    <3>1. LoginTypeOK'
      BY <1>1, LoginSees, LoginKeepsTypes DEF LoginInv
    <3>2. Len(issued) \in Nat /\ Len(issued') \in Nat
      BY <1>1, <3>1 DEF LoginInv, LoginTypeOK
    <3> QED
      BY <1>1, <2>1, <3>1, <3>2, TokensNamed DEF LoginInv, LoginTypeOK, Tokens
  <2> QED
    BY <1>2, <1>3, <1>4, <2>2 DEF Trusted, Live
<1> QED
  BY <1>2, <1>3, <1>4 DEF PageStays

-----------------------------------------------------------------------------
(* Steps of the page *)

TableGood(T) ==
  /\ T \in [Procs -> Calls]
  /\ \A q \in Procs : CallFits(T[q], proc[q]) /\ CallOwned(T[q], proc[q])

LEMMA TableStands ==
  ASSUME PortalInv PROVE TableGood(calls)
BY DEF PortalInv, CallsGood, TableGood

LEMMA TableUnmounted ==
  ASSUME PortalInv
  PROVE  /\ TableGood(Unmount)
         /\ \A q \in Procs : ~Unmount[q].mounted /\ Unmount[q].at = calls[q].at
<1>1. calls \in [Procs -> Calls] /\ CallsGood
  BY DEF PortalInv
<1>2. ASSUME NEW q \in Procs
      PROVE  /\ Unmount[q] \in Calls /\ ~Unmount[q].mounted /\ Unmount[q].at = calls[q].at
             /\ CallFits(Unmount[q], proc[q]) /\ CallOwned(Unmount[q], proc[q])
  <2>1. calls[q] \in Calls /\ CallFits(calls[q], proc[q])
    BY <1>1 DEF CallsGood
  <2>2. Unmount[q] = [calls[q] EXCEPT !.mounted = FALSE]
    BY DEF Unmount
  <2>3. /\ Unmount[q] \in Calls /\ ~Unmount[q].mounted
        /\ Unmount[q].at = calls[q].at /\ Unmount[q].kind = calls[q].kind
        /\ Unmount[q].id = calls[q].id /\ Unmount[q].reply = calls[q].reply
        /\ Unmount[q].status = calls[q].status
    BY <2>1, <2>2 DEF Calls
  <2> QED
    BY <2>1, <2>3 DEF CallFits, CallOwned
<1> QED
  BY <1>2 DEF Unmount, TableGood

LEMMA TableFreed ==
  ASSUME PortalInv, NEW T, TableGood(T), NEW p \in Procs, T[p].at # "running"
  PROVE  /\ TableGood([T EXCEPT ![p] = Free])
         /\ \A q \in Procs : [T EXCEPT ![p] = Free][q].mounted => T[q].mounted
<1>1. Free \in Calls /\ Free.at = "free" /\ ~Free.mounted /\ Free.kind = "list"
  <2>1. NoToken \in Tokens
    BY DEF PortalInv, LoginInv, LoginTypeOK, Tokens, NoToken
  <2> QED
    BY <2>1 DEF Free, Calls, CallKinds, Statuses
<1>2. proc[p].pc = "idle"
  BY DEF TableGood, CallFits
<1>3. CallFits(Free, proc[p]) /\ CallOwned(Free, proc[p])
  BY <1>1, <1>2 DEF CallFits, CallOwned
<1> QED
  BY <1>1, <1>3 DEF TableGood

LEMMA NewCall ==
  ASSUME PortalInv, NEW h, h.pc = "idle", NEW m \in BOOLEAN,
         NEW kind \in CallKinds \ {"elsewhere"}, NEW id \in Ids \cup {NoId},
         kind \in ReadKinds \cup {"stop", "appStop"} => id \in Ids
  PROVE  /\ CallFits([Call(kind, id) EXCEPT !.mounted = m], h)
         /\ CallOwned([Call(kind, id) EXCEPT !.mounted = m], h)
         /\ [Call(kind, id) EXCEPT !.mounted = m].mounted = m
<1> DEFINE c == [Call(kind, id) EXCEPT !.mounted = m]
<1>1. cookie \in Tokens /\ creds[Home] \in Tokens /\ Home \in Tabs
  BY PortalAssumption DEF PortalInv, LoginInv, LoginTypeOK
<1>2. Trusted => cookie = creds[Home]
  BY <1>1 DEF PortalInv, LoginInv, TabsActAsCookie, Trusted
<1> DEFINE refused == kind \in MutationKinds /\ ~Guard(cookie, creds[Home])
           token == IF kind = "frame" THEN cookie ELSE creds[Home]
           at == IF refused THEN "answered" ELSE "sent"
           reply == IF refused THEN "failed" ELSE "none"
<1>3. c = [at |-> at, kind |-> kind, id |-> id, token |-> token, mounted |-> m,
           reply |-> reply, status |-> "absent"]
  <2>1. Call(kind, id) = [Free EXCEPT !.kind = kind, !.id = id, !.mounted = TRUE,
                            !.token = token, !.at = at, !.reply = reply]
    BY DEF Call
  <2> HIDE DEF token, at, reply
  <2>2. Call(kind, id) = [at |-> at, kind |-> kind, id |-> id, token |-> token,
                          mounted |-> TRUE, reply |-> reply, status |-> "absent"]
    BY <2>1 DEF Free
  <2> QED
    BY <2>2
<1> HIDE DEF c
<1>4. c \in Calls
  BY <1>1, <1>3 DEF Calls, Statuses
<1>5. CallFits(c, h)
  BY <1>3, <1>4 DEF CallFits
<1>6. CallOwned(c, h)
  BY <1>2, <1>3 DEF CallOwned
<1> QED
  BY <1>3, <1>5, <1>6 DEF c

LEMMA TableFollows ==
  ASSUME PortalInv, NEW T, TableGood(T), NEW p \in Procs, T[p].at # "running",
         NEW kind \in CallKinds \ {"elsewhere"}, NEW id \in Ids \cup {NoId},
         kind \in ReadKinds \cup {"stop", "appStop"} => id \in Ids,
         NEW m \in BOOLEAN
  PROVE  TableGood([T EXCEPT ![p] = [Call(kind, id) EXCEPT !.mounted = m]])
<1>1. proc[p].pc = "idle"
  BY DEF TableGood, CallFits
<1>2. PICK c : c = [Call(kind, id) EXCEPT !.mounted = m]
  OBVIOUS
<1>3. CallFits(c, proc[p]) /\ CallOwned(c, proc[p]) /\ c \in Calls
  BY <1>1, <1>2, NewCall DEF CallFits
<1>4. TableGood([T EXCEPT ![p] = c])
  BY <1>3 DEF TableGood
<1> QED
  BY <1>2, <1>4

LEMMA TableCalls ==
  ASSUME PortalInv, NEW T, TableGood(T), NEW p \in Procs, T[p].at # "running",
         NEW kind \in CallKinds \ {"elsewhere"}, NEW id \in Ids \cup {NoId},
         kind \in ReadKinds \cup {"stop", "appStop"} => id \in Ids
  PROVE  TableGood([T EXCEPT ![p] = Call(kind, id)])
<1>1. Call(kind, id) = [Call(kind, id) EXCEPT !.mounted = TRUE] /\ TRUE \in BOOLEAN
  BY DEF Call, Free
<1>2. TableGood([T EXCEPT ![p] = [Call(kind, id) EXCEPT !.mounted = TRUE]])
  BY TableFollows
<1> QED
  BY <1>1, <1>2

(* What is left to show of a step of the page: a good table, and a page     *)
(* that is open stays open.                                                 *)
PageMoves ==
  /\ TableGood(calls')
  /\ \/ /\ page' = page
        /\ page.at # "out" \/ \A q \in Procs : calls'[q].mounted => calls[q].mounted
     \/ /\ page'.at # "out" /\ page' \in Pages
        /\ creds[Home] # NoToken /\ form[Home].at = "quiet"
        /\ page'.id = NoId <=> page'.status = "absent"
        /\ page'.id # NoId => Own(page'.id)

LEMMA PageStep ==
  ASSUME PortalInv, UNCHANGED <<vars, loginVars>>, PageMoves
  PROVE  PortalInv'
<1>1. UNCHANGED <<sessions, byUser, disk, intact, cluster, available, proc, answer,
                  server, todo, faults>>
      /\ UNCHANGED <<issued, expired, cookie, creds, form, overlapped>>
  BY DEF vars, loginVars
<1>2. StoreSide'
  BY StoreSideStep DEF PortalInv
<1>3. LoginInv'
  BY LoginKeepsInv DEF PortalInv
<1>4. calls' \in [Procs -> Calls'] /\ CallsGood'
  BY <1>1 DEF PageMoves, TableGood, CallsGood, CallFits, CallOwned, Calls, Tokens,
              Trusted, Live, Own, Present
<1>5. PageGood'
  <2>1. PageGood
    BY DEF PortalInv
  <2> QED
    BY <1>1, <2>1 DEF PageMoves, PageGood, Own, Present, Pages
<1> QED
  BY <1>2, <1>3, <1>4, <1>5 DEF PortalInv

(* A page that is mounted: nothing shown, and its list on the way.          *)
LEMMA Mounts ==
  ASSUME PortalInv, NEW to \in {"launch", "app"}, NEW p \in Procs, NEW T, TableGood(T),
         Mount(to, p, T), creds[Home] # NoToken, form[Home].at = "quiet"
  PROVE  PageMoves
<1>1. page' = [at |-> to, phase |-> "loading", id |-> NoId, status |-> "absent"]
  BY DEF Mount, Mounted, Out
<1>2. page' \in Pages
  BY <1>1 DEF Pages, Statuses
<1>3. /\ T[p].at # "running"
      /\ \/ calls' = [T EXCEPT ![p] = Call("list", NoId)]
         \/ calls' = [T EXCEPT ![p] = Call("appList", NoId)]
  BY DEF Mount
<1>4. \A kind \in {"list", "appList"} :
        kind \in CallKinds \ {"elsewhere"} /\ kind \notin ReadKinds \cup {"stop", "appStop"}
  BY DEF CallKinds, ReadKinds
<1>5. TableGood(calls')
  BY <1>3, <1>4, TableCalls
<1> QED
  BY <1>1, <1>2, <1>5 DEF PageMoves

(* A call that is sent from a page that is open.                            *)
LEMMA Sends ==
  ASSUME PortalInv, NEW p \in Procs, NEW kind \in CallKinds \ {"elsewhere"},
         NEW id \in Ids \cup {NoId}, Send(p, kind, id),
         kind \in ReadKinds \cup {"stop", "appStop"} => id \in Ids
  PROVE  TableGood(calls')
BY TableStands, TableCalls DEF Send

LEMMA Clicks ==
  ASSUME PortalInv, NEW p \in Procs, Click(p) \/ Poll(p) \/ AppPoll(p)
  PROVE  PageMoves /\ UNCHANGED <<vars, loginVars>>
<1>1. UNCHANGED <<vars, loginVars>>
  BY DEF Click, OpenPage, Back, Retry, Launch, ClickStop, OpenApp, LoadFrame, Poll, AppPoll
<1> SUFFICES PageMoves
  BY <1>1
<1>2. /\ page \in Pages /\ (page.id = NoId <=> page.status = "absent")
      /\ page.at # "out" => creds[Home] # NoToken /\ form[Home].at = "quiet"
      /\ page.id # NoId => Own(page.id)
  BY DEF PortalInv, PageGood
<1>3. {"list", "create", "stop", "appStop", "poll", "appPoll", "frame"}
        \subseteq CallKinds \ {"elsewhere"}
  BY DEF CallKinds, ReadKinds, MutationKinds
<1>4. TableGood(calls) /\ TableGood(Unmount) /\ page.id \in Ids \cup {NoId}
  BY <1>2, TableStands, TableUnmounted DEF Pages
<1>5. CASE OpenPage(p)
  BY <1>4, <1>5, Mounts DEF OpenPage
<1>6. CASE Back(p) \/ OpenApp(p)
  <2>1. page.at # "out" /\ \E to \in {"launch", "app"} : Mount(to, p, Unmount)
    BY <1>6 DEF Back, OpenApp, Ready, Panel
  <2> QED
    BY <1>2, <1>4, <2>1, Mounts
<1>7. CASE Retry(p)
  BY <1>3, <1>7, Sends DEF Retry, Broken, PageMoves, ReadKinds
<1>8. CASE Launch(p)
  <2>1. TableGood(calls')
    BY <1>3, <1>8, Sends DEF Launch, ReadKinds
  <2>2. page' = [page EXCEPT !.phase = "creating"] /\ page.at # "out"
    BY <1>8 DEF Launch, Offering, Panel
  <2>3. /\ page' \in Pages /\ page'.at = page.at /\ page'.id = page.id
        /\ page'.status = page.status
    BY <1>2, <2>2 DEF Pages
  <2> QED
    BY <1>2, <2>1, <2>2, <2>3 DEF PageMoves
<1>9. CASE ClickStop(p)
  <2>1. page.at # "out" /\ page.id # NoId /\ page' = page
    BY <1>2, <1>9 DEF ClickStop, Waiting, Ready, Panel
  <2>2. TableGood(calls')
    BY <1>3, <1>4, <1>9, <2>1, Sends DEF ClickStop
  <2> QED
    BY <2>1, <2>2 DEF PageMoves
<1>10. CASE Poll(p) \/ AppPoll(p)
  <2>1. page.at # "out" /\ page.id # NoId /\ page' = page
    BY <1>2, <1>10 DEF Poll, AppPoll, PollsWhile
  <2>2. TableGood(calls')
    BY <1>3, <1>4, <1>10, <2>1, Sends DEF Poll, AppPoll
  <2> QED
    BY <2>1, <2>2 DEF PageMoves
<1>11. CASE LoadFrame(p)
  BY <1>3, <1>11, Sends DEF LoadFrame, PageMoves, ReadKinds
<1> QED
  BY <1>1, <1>5, <1>6, <1>7, <1>8, <1>9, <1>10, <1>11 DEF Click

(* A call that is refused before the panel looks at it.                     *)
LEMMA Fails ==
  ASSUME PortalInv, NEW p \in Procs, Unauthorized(p) \/ Unanswered(p)
  PROVE  PageMoves /\ UNCHANGED <<vars, loginVars>>
<1>1. /\ calls[p].at = "sent" /\ page' = page /\ UNCHANGED <<vars, loginVars>>
      /\ calls' = [calls EXCEPT ![p] = Answered(calls[p], "failed", NoId, "absent")]
  BY DEF Unauthorized, Unanswered
<1>2. /\ calls \in [Procs -> Calls] /\ calls[p] \in Calls /\ TableGood(calls)
      /\ CallFits(calls[p], proc[p])
  BY TableStands DEF PortalInv, CallsGood
<1> DEFINE c == Answered(calls[p], "failed", NoId, "absent")
<1>3. /\ c \in Calls /\ c.at = "answered" /\ c.reply = "failed"
      /\ c.mounted = calls[p].mounted /\ c.kind = calls[p].kind
  <2>1. NoToken \in Tokens
    BY DEF PortalInv, LoginInv, LoginTypeOK, Tokens, NoToken
  <2> QED
    BY <1>2, <2>1 DEF Answered, Calls, Statuses
<1> HIDE DEF c
<1>4. CallFits(c, proc[p]) /\ CallOwned(c, proc[p])
  BY <1>1, <1>2, <1>3 DEF CallFits, CallOwned
<1>5. TableGood([calls EXCEPT ![p] = c])
  BY <1>2, <1>3, <1>4 DEF TableGood
<1>6. \A q \in Procs : [calls EXCEPT ![p] = c][q].mounted => calls[q].mounted
  BY <1>2, <1>3
<1>7. calls' = [calls EXCEPT ![p] = c]
  BY <1>1 DEF c
<1> QED
  BY <1>1, <1>5, <1>6, <1>7 DEF PageMoves

(* An answer arrives at the page, or where it was.                          *)
LEMMA Receives ==
  ASSUME PortalInv, NEW p \in Procs, Receive(p)
  PROVE  PageMoves /\ UNCHANGED <<vars, loginVars>>
<1>1. UNCHANGED <<vars, loginVars>> /\ calls[p].at = "answered"
  BY DEF Receive
<1> SUFFICES PageMoves
  BY <1>1
<1>2. /\ page \in Pages /\ (page.id = NoId <=> page.status = "absent")
      /\ page.at # "out" => creds[Home] # NoToken /\ form[Home].at = "quiet"
      /\ page.at = "out" => \A q \in Procs : ~calls[q].mounted
      /\ page.id # NoId => Own(page.id)
  BY DEF PortalInv, PageGood
<1>3. /\ calls \in [Procs -> Calls] /\ calls[p] \in Calls
      /\ CallFits(calls[p], proc[p]) /\ CallOwned(calls[p], proc[p])
  BY DEF PortalInv, CallsGood
<1>4. calls[p].mounted => page.at # "out"
  BY <1>2
<1>5. /\ TableGood(Taken(p))
      /\ \A q \in Procs : Taken(p)[q].mounted => calls[q].mounted
  BY <1>1, TableStands, TableFreed DEF Taken
<1>6. ASSUME NEW kind \in {"list", "detail", "appDetail"}, NEW id \in Ids \cup {NoId},
             kind # "list" => id \in Ids, Follow(p, kind, id)
      PROVE  /\ TableGood(calls')
             /\ \A q \in Procs : calls'[q].mounted => calls[q].mounted
  <2>1. kind \in CallKinds \ {"elsewhere"} /\ calls[p].mounted \in BOOLEAN
    BY <1>3 DEF CallKinds, ReadKinds, MutationKinds, Calls
  <2>2. calls' = [calls EXCEPT ![p] = [Call(kind, id) EXCEPT !.mounted = calls[p].mounted]]
    BY <1>6 DEF Follow
  <2>3. PICK m \in BOOLEAN : m = calls[p].mounted
    BY <2>1
  <2>4. TableGood(calls')
    BY <1>1, <1>6, <2>1, <2>2, <2>3, TableStands, TableFollows DEF ReadKinds
  <2>5. [Call(kind, id) EXCEPT !.mounted = m].mounted = m
    BY DEF Call, Free
  <2> QED
    BY <1>3, <2>2, <2>3, <2>4, <2>5
<1>7. ASSUME calls' = Taken(p) \/ \E kind \in {"list", "detail", "appDetail"},
                                     id \in Ids \cup {NoId} :
                                     (kind # "list" => id \in Ids) /\ Follow(p, kind, id),
             \/ page' = page
             \/ /\ page.at # "out" /\ page'.at = page.at /\ page' \in Pages
                /\ page'.id = NoId <=> page'.status = "absent"
                /\ page'.id # NoId => Own(page'.id)
      PROVE  PageMoves
  <2>1. /\ TableGood(calls')
        /\ \A q \in Procs : calls'[q].mounted => calls[q].mounted
    BY <1>5, <1>6, <1>7
  <2> QED
    BY <1>2, <1>7, <2>1 DEF PageMoves
<1>8. ASSUME NEW pg, SetPage(calls[p], pg), pg = page \/ pg = [page EXCEPT !.phase = "error"]
      PROVE  \/ page' = page
             \/ /\ page.at # "out" /\ page'.at = page.at /\ page' \in Pages
                /\ page'.id = NoId <=> page'.status = "absent"
                /\ page'.id # NoId => Own(page'.id)
  <2>1. DEFINE err == [page EXCEPT !.phase = "error"]
  <2>2. /\ err \in Pages /\ err.at = page.at /\ err.id = page.id /\ err.status = page.status
    BY <1>2 DEF Pages
  <2> HIDE DEF err
  <2> QED
    BY <1>2, <1>4, <1>8, <2>2 DEF SetPage, err
<1>9. ASSUME NEW id \in Ids \cup {NoId}, NEW status \in Statuses,
             NEW phase \in {"loading", "none", "creating", "live", "error"},
             SetPage(calls[p], Shown(page, id, status, phase)),
             id = NoId <=> status = "absent",
             calls[p].mounted /\ id # NoId => Own(id)
      PROVE  \/ page' = page
             \/ /\ page.at # "out" /\ page'.at = page.at /\ page' \in Pages
                /\ page'.id = NoId <=> page'.status = "absent"
                /\ page'.id # NoId => Own(page'.id)
  <2> DEFINE pg == Shown(page, id, status, phase)
  <2>1. pg \in Pages /\ pg.at = page.at /\ pg.id = id /\ pg.status = status
    BY <1>2 DEF Shown, Pages
  <2> HIDE DEF pg
  <2>2. page' = IF calls[p].mounted THEN pg ELSE page
    BY <1>9 DEF SetPage, pg
  <2> QED
    BY <1>4, <1>9, <2>1, <2>2
<1>10. /\ calls[p].id \in Ids \cup {NoId} /\ calls[p].status \in Statuses
       /\ page.phase \in {"loading", "none", "creating", "live", "error"}
       /\ "absent" \in Statuses
  BY <1>2, <1>3 DEF Calls, Pages, Statuses
<1>11. ASSUME calls[p].reply = "ok", calls[p].kind # "frame"
       PROVE  /\ calls[p].id = NoId <=> calls[p].status = "absent"
              /\ calls[p].mounted /\ calls[p].id # NoId => Own(calls[p].id)
              /\ calls[p].kind \notin Listing => calls[p].id \in Ids
  BY <1>1, <1>3, <1>11 DEF CallFits, CallOwned
<1>12. ASSUME Navigate(p)
       PROVE  PageMoves
  <2>1. CASE page.at = "app"
    <3>1. Mount("launch", p, [Unmount EXCEPT ![p] = Free])
      BY <1>12, <2>1 DEF Navigate, ToLaunch
    <3>2. TableGood([Unmount EXCEPT ![p] = Free])
      BY <1>1, TableUnmounted, TableFreed
    <3> QED
      BY <1>2, <2>1, <3>1, <3>2, Mounts
  <2>2. CASE page.at # "app"
    BY <1>7, <1>12, <2>2 DEF Navigate
  <2> QED
    BY <2>1, <2>2
<1>13. CASE ReceiveList(p)
  <2>1. CASE calls[p].reply = "ok" /\ calls[p].id # NoId /\ Follow(p, "detail", calls[p].id) /\ page' = page
    BY <1>7, <1>10, <2>1
  <2>2. CASE calls' = Taken(p) /\ SetPage(calls[p], Shown(page, NoId, "absent", "none"))
    BY <1>7, <1>9, <1>10, <2>2
  <2>3. CASE calls' = Taken(p) /\ SetPage(calls[p], [page EXCEPT !.phase = "error"])
    BY <1>7, <1>8, <2>3
  <2> QED
    BY <1>13, <2>1, <2>2, <2>3 DEF ReceiveList
<1>14. CASE ReceiveDetail(p)
  <2>1. CASE calls[p].reply = "ok"
    BY <1>7, <1>9, <1>10, <1>11, <1>14, <2>1 DEF ReceiveDetail
  <2>2. CASE calls[p].reply # "ok"
    BY <1>7, <1>8, <1>14, <2>2 DEF ReceiveDetail
  <2> QED
    BY <2>1, <2>2
<1>15. CASE ReceivePoll(p)
  <2>1. CASE calls[p].reply = "ok"
    BY <1>7, <1>9, <1>10, <1>11, <1>15, <2>1 DEF ReceivePoll
  <2>2. CASE calls[p].reply # "ok"
    BY <1>7, <1>8, <1>15, <2>2 DEF ReceivePoll
  <2> QED
    BY <2>1, <2>2
<1>16. CASE ReceiveCreate(p)
  <2>1. CASE calls[p].reply = "ok"
    BY <1>7, <1>9, <1>10, <1>11, <1>16, <2>1 DEF ReceiveCreate
  <2>2. CASE calls[p].reply # "ok"
    BY <1>7, <1>8, <1>16, <2>2 DEF ReceiveCreate
  <2> QED
    BY <2>1, <2>2
<1>17. CASE ReceiveStop(p) \/ ReceiveFrame(p)
  BY <1>7, <1>17 DEF ReceiveStop, ReceiveFrame
<1>18. CASE ReceiveAppList(p)
  <2>1. CASE calls[p].reply = "ok" /\ calls[p].status = "ready"
    <3>1. calls[p].id \in Ids /\ Follow(p, "appDetail", calls[p].id) /\ page' = page
      BY <1>10, <1>11, <1>18, <2>1 DEF ReceiveAppList
    <3> QED
      BY <1>7, <3>1
  <2> QED
    BY <1>12, <1>18, <2>1 DEF ReceiveAppList
<1>19. CASE ReceiveAppDetail(p)
  BY <1>7, <1>9, <1>10, <1>11, <1>12, <1>19 DEF ReceiveAppDetail
<1>20. CASE ReceiveAppPoll(p)
  <2>1. CASE calls' = Taken(p) /\ calls[p].reply = "ok" /\
             SetPage(calls[p], Shown(page, calls[p].id, calls[p].status, page.phase))
    BY <1>7, <1>9, <1>10, <1>11, <1>20, <2>1 DEF ReceiveAppPoll
  <2>2. CASE calls' = Taken(p) /\ SetPage(calls[p], page)
    BY <1>7, <1>8, <2>2
  <2> QED
    BY <1>12, <1>20, <2>1, <2>2 DEF ReceiveAppPoll
<1>21. CASE ReceiveAppStop(p)
  BY <1>7, <1>12, <1>21 DEF ReceiveAppStop
<1> QED
  BY <1>1, <1>13, <1>14, <1>15, <1>16, <1>17, <1>18, <1>19, <1>20, <1>21 DEF Receive

-----------------------------------------------------------------------------
(* Steps of the panel *)

CallGood(p) == CallFits(calls[p], proc[p]) /\ CallOwned(calls[p], proc[p])

(* The step of the panel is for user u, who is signed in wherever the call  *)
(* of p can still set the page's state.                                     *)
For(p, u) ==
  calls[p].mounted /\ (calls[p].kind = "frame" => Trusted) => u = issued[creds[Home]]

(* An answer for user u: a session of his, or none.                         *)
Tells(kind, u, told) ==
  \E id \in Ids \cup {NoId}, status \in Statuses :
    /\ told = <<id, status>> /\ (id = NoId <=> status = "absent")
    /\ kind \notin Listing => id \in Ids
    /\ id # NoId => Present(disk, id) /\ disk[id].user = u

LEMMA CallStays ==
  ASSUME PortalInv, PageStays, OwnersStay, NEW p \in Procs,
         calls'[p] = calls[p], proc'[p] = proc[p]
  PROVE  CallGood(p)'
<1>1. /\ calls[p] \in Calls /\ CallFits(calls[p], proc[p]) /\ CallOwned(calls[p], proc[p])
      /\ calls[p].mounted => page.at # "out"
  BY DEF PortalInv, CallsGood, PageGood
<1>2. calls[p] \in Calls'
  BY <1>1 DEF Calls, PageStays
<1>3. CallFits(calls[p], proc[p])'
  BY <1>1, <1>2 DEF CallFits
<1>4. CallOwned(calls[p], proc[p])'
  BY <1>1 DEF CallOwned, PageStays, OwnersStay, Own, Present
<1> QED
  BY <1>3, <1>4 DEF CallGood

LEMMA CallRuns ==
  ASSUME PortalInv, PageStays, NEW p \in Procs, NEW u, For(p, u),
         calls'[p] = [calls[p] EXCEPT !.at = "running"],
         calls[p].kind \notin Listing \cup {"elsewhere"},
         proc'[p].pc # "idle", proc'[p].op = OpOf(calls[p].kind), proc'[p].user = u
  PROVE  CallGood(p)'
<1>1. calls[p] \in Calls /\ (calls[p].mounted => page.at # "out")
  BY DEF PortalInv, CallsGood, PageGood
<1>2. /\ calls'[p] \in Calls' /\ calls'[p].at = "running"
      /\ calls'[p].kind = calls[p].kind /\ calls'[p].mounted = calls[p].mounted
  BY <1>1 DEF Calls, PageStays
<1>3. CallFits(calls[p], proc[p])'
  BY <1>2 DEF CallFits
<1>4. CallOwned(calls[p], proc[p])'
  BY <1>1, <1>2 DEF CallOwned, PageStays, For
<1> QED
  BY <1>3, <1>4 DEF CallGood

LEMMA CallFails ==
  ASSUME PortalInv, PageStays, NEW p \in Procs,
         calls'[p] = Answered(calls[p], "failed", NoId, "absent"),
         calls[p].at # "free", calls[p].kind # "elsewhere", proc'[p].pc = "idle"
  PROVE  CallGood(p)'
<1>1. calls[p] \in Calls /\ NoToken \in Tokens'
  BY DEF PortalInv, CallsGood, PageStays, LoginInv, LoginTypeOK, Tokens, NoToken
<1>2. /\ calls'[p] \in Calls' /\ calls'[p].at = "answered" /\ calls'[p].reply = "failed"
      /\ calls'[p].kind = calls[p].kind
  BY <1>1 DEF Answered, Calls, Statuses, PageStays
<1> QED
  BY <1>2 DEF CallGood, CallFits, CallOwned

LEMMA CallTold ==
  ASSUME PortalInv, PageStays, OwnersStay, NEW p \in Procs, NEW u, For(p, u), NEW told,
         calls'[p] = Answered(calls[p], "ok", told[1], told[2]),
         Tells(calls[p].kind, u, told),
         calls[p].kind # "elsewhere", proc'[p].pc = "idle"
  PROVE  CallGood(p)'
<1>1. /\ calls[p] \in Calls /\ NoToken \in Tokens'
      /\ calls[p].mounted => page.at # "out"
  BY DEF PortalInv, CallsGood, PageGood, PageStays, LoginInv, LoginTypeOK, Tokens, NoToken
<1>2. PICK id \in Ids \cup {NoId}, status \in Statuses :
        /\ told = <<id, status>> /\ (id = NoId <=> status = "absent")
        /\ calls[p].kind \notin Listing => id \in Ids
        /\ id # NoId => Present(disk, id) /\ disk[id].user = u
  BY DEF Tells
<1>3. calls'[p] = Answered(calls[p], "ok", id, status)
  BY <1>2
<1>4. /\ calls'[p] \in Calls' /\ calls'[p].at = "answered" /\ calls'[p].reply = "ok"
      /\ calls'[p].kind = calls[p].kind /\ calls'[p].mounted = calls[p].mounted
      /\ calls'[p].id = id /\ calls'[p].status = status
  BY <1>1, <1>3 DEF Answered, Calls, Statuses, PageStays
<1>5. CallFits(calls[p], proc[p])'
  BY <1>2, <1>4 DEF CallFits
<1>6. ASSUME calls[p].mounted, calls[p].kind # "frame", id # NoId
      PROVE  Present(disk', id) /\ disk'[id].user = issued'[creds'[Home]] /\ id \in Ids
  BY <1>1, <1>2, <1>6 DEF For, OwnersStay, PageStays
<1>7. CallOwned(calls[p], proc[p])'
  BY <1>4, <1>6 DEF CallOwned, Own, Present
<1> QED
  BY <1>5, <1>7 DEF CallGood

(* What memory says of an owner, the file says too.                         *)
LEMMA FileAgrees ==
  ASSUME StoreSide, server # "down", NEW id \in Ids, Present(sessions, id)
  PROVE  Present(disk, id) /\ disk[id].user = sessions[id].user
BY DEF StoreSide, Inv, KnownOnDisk, OwnersAgree

(* A call arrives, and its handler begins or answers.                       *)
LEMMA Arrives ==
  ASSUME PortalInv, NEW p \in Procs, NEW u \in Users,
         NEW kind \in CallKinds \ {"elsewhere"}, NEW id,
         kind \in ReadKinds \cup {"stop", "appStop"} => id \in Ids,
         Route(p, kind, u, id)
  PROVE  /\ proc[p].pc = "idle" /\ Others(p)
         /\ \/ /\ proc'[p].pc # "idle" /\ kind \notin Listing
               /\ proc'[p].op = OpOf(kind) /\ proc'[p].user = u
            \/ /\ proc'[p].pc = "idle"
               /\ answer'.reply \in {"ok", "accepted"}
                    => Tells(kind, u, Told(kind, answer'.id, proc[p].pc, u))
<1>1. /\ StoreSide /\ EntriesOwn /\ TypeOK
      /\ sessions \in [Ids -> Sessions] /\ byUser[u] \in Ids \cup {NoId}
  BY DEF PortalInv, StoreSide, Inv, TypeOK
<1>2. "idle" \notin UNION {Stages(op) : op \in {"create", "get", "current", "delete"}}
  BY DEF Stages
<1>3. \A i \in Ids : sessions[i].status \in Statuses
  BY <1>1 DEF Sessions, Statuses
<1>4. ASSUME NEW op \in {"create", "get", "current", "delete"}, Started(p, op, u)
      PROVE  proc'[p].pc # "idle" /\ proc'[p].op = op /\ proc'[p].user = u
  BY <1>2, <1>4 DEF Started
<1>5. CASE kind \in ReadKinds
  <2>1. kind \notin Listing /\ OpOf(kind) = "get" /\ Get(p, u, id) /\ id \in Ids
    BY <1>5 DEF Route, ReadKinds, Listing, OpOf
  <2>2. /\ proc[p].pc = "idle" /\ server = "serving" /\ Others(p)
        /\ \/ Started(p, "get", u)
           \/ /\ proc' = proc
              /\ \E reply \in Replies : answer' = [op |-> "get", id |-> id, reply |-> reply]
              /\ answer'.reply \in {"ok", "accepted"}
                   => Present(sessions, id) /\ sessions[id].user = u
    BY <1>1, <2>1, ReadBegins DEF Get
  <2>3. Told(kind, id, "idle", u) = <<id, sessions[id].status>>
    BY <1>5 DEF Told, ReadKinds
  <2>4. Present(sessions, id) /\ sessions[id].user = u
          => Tells(kind, u, Told(kind, id, "idle", u))
    BY <1>1, <1>3, <2>1, <2>2, <2>3, FileAgrees, NamesAssumption DEF Tells, Present
  <2> QED
    BY <1>4, <2>1, <2>2, <2>4
<1>6. CASE kind \in {"stop", "appStop"}
  <2>1. kind \notin Listing /\ OpOf(kind) = "delete" /\ Delete(p, u, id) /\ id \in Ids
    BY <1>6 DEF Route, ReadKinds, Listing, OpOf
  <2>2. /\ proc[p].pc = "idle" /\ server = "serving" /\ Others(p)
        /\ \/ Started(p, "delete", u)
           \/ /\ proc' = proc
              /\ \E reply \in Replies : answer' = [op |-> "delete", id |-> id, reply |-> reply]
              /\ answer'.reply \in {"ok", "accepted"}
                   => Present(sessions, id) /\ sessions[id].user = u
    BY <1>1, <2>1, ReadBegins DEF Delete
  <2>3. Told(kind, id, "idle", u) = <<id, "stopped">>
    BY <1>6 DEF Told
  <2>4. Present(sessions, id) /\ sessions[id].user = u
          => Tells(kind, u, Told(kind, id, "idle", u))
    BY <1>1, <2>1, <2>2, <2>3, FileAgrees, NamesAssumption
       DEF Tells, Statuses, TerminalStatuses
  <2> QED
    BY <1>4, <2>1, <2>2, <2>4
<1>7. CASE kind = "create"
  <2>1. kind \notin Listing /\ OpOf(kind) = "create"
    BY <1>7 DEF Listing, OpOf
  <2>2. CASE CreateRefused(p, u)
    BY <2>2 DEF CreateRefused, CanStart, Reply, Respond, Others
  <2>3. CASE \E new \in Ids : Create(p, u, new)
    BY <1>1, <1>4, <2>1, <2>3, CreateBegins
  <2> QED
    BY <1>7, <2>2, <2>3 DEF Route, ReadKinds
<1>8. CASE kind \in Listing
  <2>1. /\ List(p, u) /\ proc[p].pc = "idle" /\ proc' = proc /\ server = "serving"
    BY <1>8 DEF Route, ReadKinds, Listing, List, CanStart, Reply
  <2>2. Told(kind, answer'.id, proc[p].pc, u)
          = IF HasActive(u) THEN <<byUser[u], sessions[byUser[u]].status>>
            ELSE <<NoId, "absent">>
    BY <1>8 DEF Told, Listing
  <2>3. CASE HasActive(u)
    <3>1. PICK i \in Ids : i = byUser[u]
      BY <1>1, <2>3 DEF HasActive
    <3>2. Present(sessions, i) /\ sessions[i].user = u
      BY <1>1, <2>3, <3>1 DEF EntriesOwn, HasActive
    <3>3. Present(disk, i) /\ disk[i].user = u
      BY <1>1, <2>1, <3>2, FileAgrees
    <3>4. Tells(kind, u, <<i, sessions[i].status>>)
      BY <1>3, <3>2, <3>3, NamesAssumption DEF Tells, Present
    <3> QED
      BY <2>1, <2>2, <2>3, <3>1, <3>4 DEF Others
  <2>4. CASE ~HasActive(u)
    <3>1. Tells(kind, u, <<NoId, "absent">>)
      BY <1>8 DEF Tells, Statuses
    <3> QED
      BY <2>1, <2>2, <2>4, <3>1 DEF Others
  <2> QED
    BY <2>3, <2>4
<1>9. CASE kind = "frame"
  <2>1. kind \notin Listing /\ OpOf(kind) = "current" /\ Current(p, u)
    BY <1>9 DEF Route, ReadKinds, Listing, OpOf
  <2>2. /\ proc[p].pc = "idle" /\ server = "serving" /\ Others(p)
        /\ \/ Started(p, "current", u)
           \/ /\ proc' = proc
              /\ \E reply \in {"ok", "notFound"} :
                   answer' = [op |-> "current", id |-> byUser[u], reply |-> reply]
              /\ answer'.reply = "ok" => byUser[u] # NoId
    BY <1>1, <2>1, CurrentBegins
  <2>3. ASSUME byUser[u] # NoId
        PROVE  Tells(kind, u, Told(kind, byUser[u], "idle", u))
    <3>1. PICK i \in Ids : i = byUser[u]
      BY <1>1, <2>3
    <3>2. Present(sessions, i) /\ sessions[i].user = u
      BY <1>1, <2>3, <3>1 DEF EntriesOwn
    <3>3. Present(disk, i) /\ disk[i].user = u
      BY <1>1, <2>2, <3>2, FileAgrees
    <3>4. Told(kind, i, "idle", u) = <<i, sessions[i].status>>
      BY <1>9 DEF Told
    <3>5. Tells(kind, u, <<i, sessions[i].status>>)
      BY <1>3, <3>2, <3>3, NamesAssumption DEF Tells, Present
    <3> QED
      BY <3>1, <3>4, <3>5
  <2> QED
    BY <1>4, <2>1, <2>2, <2>3
<1> QED
  BY <1>5, <1>6, <1>7, <1>8, <1>9 DEF CallKinds, MutationKinds, Listing

(* A handler that has begun goes on, or answers for its session.            *)
LEMMA Works ==
  ASSUME PortalInv, NEW p \in Procs, calls[p].at = "running", Continue(p)
  PROVE  /\ Others(p) /\ For(p, proc[p].user)
         /\ \/ /\ proc'[p].pc # "idle" /\ proc'[p].op = proc[p].op
               /\ proc'[p].user = proc[p].user
            \/ /\ proc'[p].pc = "idle"
               /\ calls[p].kind # "elsewhere"
                    => Tells(calls[p].kind, proc[p].user,
                             Told(calls[p].kind, answer'.id, proc[p].pc, proc[p].user))
<1>1. /\ StoreSide /\ HandlersOwn /\ HandlersHaveSession /\ TypeOK
      /\ calls[p] \in Calls /\ CallFits(calls[p], proc[p]) /\ CallOwned(calls[p], proc[p])
  BY DEF PortalInv, StoreSide, Inv, CallsGood
<1>2. /\ proc[p].pc # "idle" /\ Others(p) /\ (GoesOn(p) \/ Ended(p))
  BY <1>1, HandlerContinues
<1>3. For(p, proc[p].user)
  BY <1>1 DEF CallOwned, For
<1>4. CASE GoesOn(p)
  <2>1. proc[p].op \in {"create", "get", "current", "delete"}
    BY <1>1, <1>2 DEF TypeOK, Handlers, HandlersOwn
  <2>2. proc'[p].pc # "idle"
    BY <1>4, <2>1 DEF GoesOn, Stages
  <2> QED
    BY <1>2, <1>3, <1>4, <2>2 DEF GoesOn
<1>5. CASE Ended(p)
  <2>1. proc'[p].pc = "idle" /\ answer'.id = proc[p].id
    BY <1>5 DEF Ended, Idle
  <2>2. ASSUME calls[p].kind # "elsewhere"
        PROVE  Tells(calls[p].kind, proc[p].user,
                     Told(calls[p].kind, proc[p].id, proc[p].pc, proc[p].user))
    <3>1. PICK id \in Ids : id = proc[p].id
      BY <1>1, <1>2 DEF HandlersHaveSession
    <3>2. /\ server # "down" /\ Present(sessions, id) /\ sessions[id].user = proc[p].user
      BY <1>1, <1>2, <3>1 DEF HandlersHaveSession, HandlersOwn
    <3>3. Present(disk, id) /\ disk[id].user = proc[p].user
      BY <1>1, <3>2, FileAgrees
    <3>4. /\ calls[p].kind \in CallKinds \ Listing /\ proc[p].op = OpOf(calls[p].kind)
          /\ proc[p].pc \in Stages(proc[p].op)
      BY <1>1, <1>2, <2>2 DEF CallFits, Calls, HandlersOwn
    <3>5. \E status \in Statuses \ {"absent"} :
            Told(calls[p].kind, id, proc[p].pc, proc[p].user) = <<id, status>>
      <4>1. {"stopped", "provisioning", "ready"} \subseteq Statuses \ {"absent"}
        BY DEF Statuses, ActiveStatuses, TerminalStatuses
      <4>2. CASE calls[p].kind \in {"stop", "appStop"}
        <5>1. Told(calls[p].kind, id, proc[p].pc, proc[p].user) = <<id, "stopped">>
          BY <4>2 DEF Told
        <5> QED
          BY <4>1, <5>1
      <4>3. CASE calls[p].kind = "create"
        <5>1. Told(calls[p].kind, id, proc[p].pc, proc[p].user) = <<id, "provisioning">>
          BY <4>3 DEF Told
        <5> QED
          BY <4>1, <5>1
      <4>4. CASE calls[p].kind \in ReadKinds \cup {"frame"}
        <5>1. proc[p].pc \in {"probe", "promote"}
          BY <3>4, <4>4 DEF OpOf, Stages, ReadKinds
        <5>2. \/ Told(calls[p].kind, id, proc[p].pc, proc[p].user) = <<id, "provisioning">>
              \/ Told(calls[p].kind, id, proc[p].pc, proc[p].user) = <<id, "ready">>
          BY <4>4, <5>1 DEF Told, ReadKinds
        <5> QED
          BY <4>1, <5>2
      <4> QED
        BY <2>2, <3>4, <4>2, <4>3, <4>4 DEF CallKinds, MutationKinds, Listing
    <3>6. PICK status \in Statuses \ {"absent"} :
            Told(calls[p].kind, id, proc[p].pc, proc[p].user) = <<id, status>>
      BY <3>5
    <3> QED
      BY <3>1, <3>3, <3>6, NamesAssumption DEF Tells
  <2> QED
    BY <1>2, <1>3, <2>1, <2>2
<1> QED
  BY <1>2, <1>4, <1>5

(* The handler of p has taken a step for user u.                            *)
LEMMA CallFollows ==
  ASSUME PortalInv, PageStays, OwnersStay, NEW p \in Procs, NEW u, For(p, u),
         calls[p].at \in {"sent", "running"}, AfterStep(p, u), Others(p),
         \/ /\ proc'[p].pc # "idle"
            /\ calls[p].kind = "elsewhere" \/ proc'[p].op = OpOf(calls[p].kind)
            /\ calls[p].kind \notin Listing /\ proc'[p].user = u
         \/ /\ proc'[p].pc = "idle"
            /\ calls[p].kind # "elsewhere" /\ answer'.reply \in {"ok", "accepted"}
                 => Tells(calls[p].kind, u, Told(calls[p].kind, answer'.id, proc[p].pc, u))
  PROVE  /\ calls' \in [Procs -> Calls'] /\ CallsGood'
         /\ \A q \in Procs : calls'[q].mounted => calls[q].mounted
<1>1. /\ calls \in [Procs -> Calls] /\ calls[p] \in Calls
      /\ CallFits(calls[p], proc[p]) /\ CallOwned(calls[p], proc[p])
  BY DEF PortalInv, CallsGood
<1> DEFINE told == Told(calls[p].kind, answer'.id, proc[p].pc, u)
           next == IF proc'[p].pc # "idle" THEN [calls[p] EXCEPT !.at = "running"]
                   ELSE IF calls[p].kind = "elsewhere" THEN Free
                   ELSE IF answer'.reply \notin {"ok", "accepted"}
                   THEN Answered(calls[p], "failed", NoId, "absent")
                   ELSE Answered(calls[p], "ok", told[1], told[2])
<1>2. calls' = [calls EXCEPT ![p] = next]
  BY DEF AfterStep
<1> HIDE DEF told
<1>3. calls'[p] = next /\ \A q \in Procs : q # p => calls'[q] = calls[q]
  BY <1>1, <1>2
<1>4. CallGood(p)'
  <2>1. CASE proc'[p].pc # "idle" /\ calls[p].kind # "elsewhere"
    BY <1>3, <2>1, CallRuns
  <2>2. CASE proc'[p].pc # "idle" /\ calls[p].kind = "elsewhere"
    <3>1. calls'[p] = calls[p] /\ ~calls[p].mounted /\ calls[p].at = "running"
      BY <1>1, <1>3, <2>2 DEF CallFits, Calls
    <3>2. calls[p] \in Calls'
      BY <1>1 DEF PageStays, Calls
    <3> QED
      BY <1>1, <2>2, <3>1, <3>2 DEF CallGood, CallFits, CallOwned
  <2>3. CASE proc'[p].pc = "idle" /\ calls[p].kind = "elsewhere"
    <3>1. calls'[p] = Free
      BY <1>3, <2>3
    <3>2. NoToken \in Tokens'
      BY DEF PageStays, PortalInv, LoginInv, LoginTypeOK, Tokens, NoToken
    <3>3. Free \in Calls' /\ Free.at = "free" /\ ~Free.mounted /\ Free.kind = "list"
      BY <3>2 DEF Free, Calls, CallKinds, Statuses
    <3> QED
      BY <2>3, <3>1, <3>3 DEF CallGood, CallFits, CallOwned
  <2>4. CASE /\ proc'[p].pc = "idle" /\ calls[p].kind # "elsewhere"
             /\ answer'.reply \notin {"ok", "accepted"}
    BY <1>3, <2>4, CallFails
  <2>5. CASE /\ proc'[p].pc = "idle" /\ calls[p].kind # "elsewhere"
             /\ answer'.reply \in {"ok", "accepted"}
    <3>1. Tells(calls[p].kind, u, told)
      BY <2>5 DEF told
    <3> QED
      BY <1>3, <2>5, <3>1, CallTold
  <2> QED
    BY <2>1, <2>2, <2>3, <2>4, <2>5
<1>5. \A q \in Procs : CallGood(q)'
  <2>1. ASSUME NEW q \in Procs, q # p
        PROVE  CallGood(q)'
    BY <1>3, <2>1, CallStays DEF Others
  <2> QED
    BY <1>4, <2>1
<1>6. calls'[p].mounted => calls[p].mounted
  BY <1>1, <1>3 DEF Answered, Free, Calls
<1>7. calls' = [q \in Procs |-> calls'[q]]
  BY <1>1, <1>2
<1> QED
  BY <1>3, <1>5, <1>6, <1>7 DEF CallsGood, CallGood, CallFits

-----------------------------------------------------------------------------
(* The invariant of the composition *)

LEMMA PortalStarts == PortalInit => PortalInv
<1> SUFFICES ASSUME PortalInit PROVE PortalInv
  OBVIOUS
<1>1. StoreSide /\ LoginInv
  BY StoreSideStarts, LoginStarts DEF PortalInit
<1>2. \A p \in Procs : calls[p] = Free /\ proc[p] = Idle
  BY DEF PortalInit, Init
<1>3. NoToken \in Tokens
  BY <1>1 DEF LoginInv, LoginTypeOK, Tokens, NoToken
<1>4. Free \in Calls /\ Free.at = "free" /\ ~Free.mounted /\ Free.kind = "list"
  BY <1>3 DEF Free, Calls, CallKinds, Statuses
<1>5. calls \in [Procs -> Calls] /\ CallsGood
  BY <1>2, <1>4 DEF PortalInit, CallsGood, CallFits, CallOwned, Idle
<1>6. PageGood
  <2>1. page = Out /\ Out.at = "out" /\ Out.id = NoId /\ Out.status = "absent" /\ Out \in Pages
    BY DEF PortalInit, Out, Pages, Statuses
  <2> QED
    BY <1>2, <1>4, <2>1 DEF PageGood
<1> QED
  BY <1>1, <1>5, <1>6 DEF PortalInv

(* A step behind the page: it stays, and whose session it shows.            *)
LEMMA PageKept ==
  ASSUME PortalInv, PageStays, OwnersStay, page' = page,
         \A q \in Procs : calls'[q].mounted => calls[q].mounted
  PROVE  PageGood'
<1>1. /\ page \in Pages /\ (page.id = NoId <=> page.status = "absent")
      /\ page.at = "out" => page = Out /\ \A p \in Procs : ~calls[p].mounted
      /\ page.at # "out" => creds[Home] # NoToken /\ form[Home].at = "quiet"
      /\ page.id # NoId => Own(page.id)
  BY DEF PortalInv, PageGood
<1>2. page.id # NoId => page.at # "out"
  BY <1>1 DEF Out
<1>3. page.id # NoId => Own(page.id)'
  BY <1>1, <1>2 DEF Own, PageStays, OwnersStay, Present
<1> QED
  BY <1>1, <1>3 DEF PageGood, PageStays, Pages

LEMMA PortalStep == PortalInv /\ [PortalNext]_portalVars => PortalInv'
<1> SUFFICES ASSUME PortalInv, [PortalNext]_portalVars PROVE PortalInv'
  OBVIOUS
<1>1. StoreSide' /\ OwnersStay
  BY StoreSees, StoreSideStep DEF PortalInv
<1>2. LoginInv'
  BY LoginSees, LoginKeepsInv DEF PortalInv
<1>3. ~SignOut => PageStays
  BY HomeStays
<1>4. /\ calls \in [Procs -> Calls] /\ CallsGood /\ PageGood /\ LoginInv /\ TypeOK
      /\ \A p \in Procs : calls[p] \in Calls /\ CallFits(calls[p], proc[p])
  BY DEF PortalInv, StoreSide, Inv, CallsGood
<1>5. ASSUME PageMoves, UNCHANGED <<vars, loginVars>>
      PROVE  PortalInv'
  BY <1>5, PageStep
<1>6. ASSUME ~SignOut, page' = page, calls' \in [Procs -> Calls'], CallsGood',
             \A q \in Procs : calls'[q].mounted => calls[q].mounted
      PROVE  PortalInv'
  BY <1>1, <1>2, <1>3, <1>6, PageKept DEF PortalInv
<1>7. ASSUME calls' = calls, proc' = proc, page' = page, ~SignOut
      PROVE  PortalInv'
  <2>1. \A q \in Procs : CallGood(q)'
    BY <1>1, <1>3, <1>7, CallStays
  <2>2. calls' \in [Procs -> Calls'] /\ CallsGood'
    BY <1>4, <1>7, <2>1 DEF CallsGood, CallGood, CallFits
  <2> QED
    BY <1>6, <1>7, <2>2
<1>8. CASE SignOut
  <2>1. /\ UNCHANGED vars /\ page' = Out /\ calls' = Unmount /\ issued' = issued
    BY <1>8 DEF SignOut, Logout
  <2>2. TableGood(Unmount) /\ \A q \in Procs : ~Unmount[q].mounted
    BY TableUnmounted
  <2>3. calls' \in [Procs -> Calls'] /\ CallsGood'
    BY <2>1, <2>2 DEF TableGood, CallsGood, CallFits, CallOwned, Calls, Tokens, vars
  <2>4. PageGood'
    <3>1. Out.at = "out" /\ Out.id = NoId /\ Out.status = "absent" /\ Out \in Pages
      BY DEF Out, Pages, Statuses
    <3> QED
      BY <2>1, <2>2, <3>1 DEF PageGood, Pages
  <2> QED
    BY <1>1, <1>2, <2>3, <2>4 DEF PortalInv
<1>9. ASSUME NEW p \in Procs, Arrive(p), ~SignOut
      PROVE  PortalInv'
  <2>1. /\ calls[p].at = "sent" /\ calls[p].token # NoToken /\ page' = page
        /\ Route(p, calls[p].kind, issued[calls[p].token], calls[p].id)
        /\ AfterStep(p, issued[calls[p].token])
    BY <1>9 DEF Arrive, Live
  <2>2. issued[calls[p].token] \in Users /\ calls[p].kind \in CallKinds \ {"elsewhere"}
    BY <1>4, <2>1, TokensNamed DEF Calls, CallFits
  <2>3. PICK u \in Users : u = issued[calls[p].token]
    BY <2>2
  <2>4. For(p, u)
    BY <1>4, <2>1, <2>3 DEF CallsGood, CallOwned, For
  <2>5. PICK kind \in CallKinds \ {"elsewhere"} : kind = calls[p].kind
    BY <2>2
  <2>6. PICK id : id = calls[p].id
    OBVIOUS
  <2>7. kind \in ReadKinds \cup {"stop", "appStop"} => id \in Ids
    BY <1>4, <2>1, <2>5, <2>6 DEF CallFits
  <2>8. /\ Others(p)
        /\ \/ /\ proc'[p].pc # "idle" /\ kind \notin Listing
              /\ proc'[p].op = OpOf(kind) /\ proc'[p].user = u
           \/ /\ proc'[p].pc = "idle"
              /\ answer'.reply \in {"ok", "accepted"}
                   => Tells(kind, u, Told(kind, answer'.id, proc[p].pc, u))
    BY <2>1, <2>3, <2>5, <2>6, <2>7, Arrives
  <2>9. /\ calls' \in [Procs -> Calls'] /\ CallsGood'
        /\ \A q \in Procs : calls'[q].mounted => calls[q].mounted
    BY <1>1, <1>3, <1>9, <2>1, <2>3, <2>4, <2>5, <2>8, CallFollows
  <2> QED
    BY <1>6, <1>9, <2>1, <2>9
<1>10. ASSUME NEW p \in Procs, Work(p), ~SignOut
       PROVE  PortalInv'
  <2>1. /\ calls[p].at = "running" /\ Continue(p) /\ page' = page
        /\ AfterStep(p, proc[p].user)
    BY <1>10 DEF Work
  <2>2. PICK u : u = proc[p].user
    OBVIOUS
  <2>3. /\ calls[p].kind = "elsewhere" \/ proc[p].op = OpOf(calls[p].kind)
        /\ calls[p].kind \notin Listing
    BY <1>4, <2>1 DEF CallFits, Listing
  <2>4. /\ Others(p) /\ For(p, u)
        /\ \/ /\ proc'[p].pc # "idle" /\ proc'[p].op = proc[p].op /\ proc'[p].user = u
           \/ /\ proc'[p].pc = "idle"
              /\ calls[p].kind # "elsewhere"
                   => Tells(calls[p].kind, u,
                            Told(calls[p].kind, answer'.id, proc[p].pc, u))
    BY <2>1, <2>2, Works
  <2>5. /\ calls' \in [Procs -> Calls'] /\ CallsGood'
        /\ \A q \in Procs : calls'[q].mounted => calls[q].mounted
    BY <1>1, <1>3, <1>10, <2>1, <2>2, <2>3, <2>4, CallFollows
  <2> QED
    BY <1>6, <1>10, <2>1, <2>5
<1>11. ASSUME NEW p \in Procs, NEW u \in Names, NEW id \in Ids, Elsewhere(p, u, id), ~SignOut
       PROVE  PortalInv'
  <2>1. /\ u \in Users /\ StoreSide /\ calls[p].at = "free" /\ page' = page
    BY <1>11, PortalAssumption DEF Elsewhere, PortalInv
  <2>2. Others(p)
    BY <1>11, <2>1, CreateBegins, ReadBegins DEF Elsewhere, Delete
  <2>3. \/ proc'[p].pc = "idle" /\ calls' = [calls EXCEPT ![p] = Free]
        \/ /\ proc'[p].pc # "idle"
           /\ calls' = [calls EXCEPT ![p] = [Free EXCEPT !.at = "running", !.kind = "elsewhere"]]
    BY <1>11 DEF Elsewhere
  <2>4. NoToken \in Tokens'
    BY <1>2 DEF LoginInv, LoginTypeOK, Tokens, NoToken
  <2>5. /\ Free \in Calls' /\ Free.at = "free" /\ ~Free.mounted /\ Free.kind = "list"
        /\ [Free EXCEPT !.at = "running", !.kind = "elsewhere"] \in Calls'
    BY <2>4 DEF Free, Calls, CallKinds, Statuses
  <2>6. CallGood(p)' /\ ~calls'[p].mounted
    <3>1. CASE proc'[p].pc = "idle" /\ calls' = [calls EXCEPT ![p] = Free]
      BY <1>4, <2>5, <3>1 DEF CallGood, CallFits, CallOwned
    <3>2. CASE /\ proc'[p].pc # "idle"
               /\ calls' = [calls EXCEPT ![p] = [Free EXCEPT !.at = "running", !.kind = "elsewhere"]]
      <4> DEFINE c == [Free EXCEPT !.at = "running", !.kind = "elsewhere"]
      <4>1. c \in Calls' /\ c.at = "running" /\ c.kind = "elsewhere" /\ ~c.mounted
        BY <2>5 DEF Free
      <4>2. calls'[p] = c
        BY <1>4, <3>2
      <4> HIDE DEF c
      <4> QED
        BY <3>2, <4>1, <4>2 DEF CallGood, CallFits, CallOwned, ReadKinds
    <3> QED
      BY <2>3, <3>1, <3>2
  <2>7. ASSUME NEW q \in Procs, q # p
        PROVE  CallGood(q)' /\ calls'[q] = calls[q]
    <3>1. calls'[q] = calls[q]
      BY <1>4, <2>3, <2>7
    <3> QED
      BY <1>1, <1>3, <1>11, <2>2, <2>7, <3>1, CallStays DEF Others
  <2>8. calls' = [q \in Procs |-> calls'[q]]
    BY <1>4, <2>3
  <2>9. /\ \A q \in Procs : CallGood(q)'
        /\ \A q \in Procs : calls'[q].mounted => calls[q].mounted
    BY <2>6, <2>7
  <2>10. calls' \in [Procs -> Calls'] /\ CallsGood'
    BY <2>8, <2>9 DEF CallsGood, CallGood, CallFits
  <2> QED
    BY <1>6, <1>11, <2>1, <2>9, <2>10
<1>12. ASSUME PanelCrash, ~SignOut
       PROVE  PortalInv'
  <2>1. /\ page' = page /\ proc' = [p \in Procs |-> Idle]
        /\ calls' = [p \in Procs |->
                       IF calls[p].at # "running" THEN calls[p]
                       ELSE IF calls[p].kind = "elsewhere" THEN Free
                       ELSE Answered(calls[p], "failed", NoId, "absent")]
    BY <1>12 DEF PanelCrash, Crash
  <2>2. NoToken \in Tokens'
    BY <1>2 DEF LoginInv, LoginTypeOK, Tokens, NoToken
  <2>3. Free \in Calls' /\ Free.at = "free" /\ ~Free.mounted /\ Free.kind = "list"
    BY <2>2 DEF Free, Calls, CallKinds, Statuses
  <2>4. ASSUME NEW q \in Procs
        PROVE  CallGood(q)' /\ (calls'[q].mounted => calls[q].mounted)
    <3>1. proc'[q].pc = "idle"
      BY <2>1 DEF Idle
    <3>2. CASE calls[q].at # "running"
      <4>1. calls'[q] = calls[q] /\ proc[q].pc = "idle"
        BY <1>4, <2>1, <3>2 DEF CallFits
      <4>2. calls[q] \in Calls' /\ CallOwned(calls[q], proc[q])
        BY <1>3, <1>4, <1>12 DEF Calls, PageStays, CallsGood
      <4>3. CallFits(calls[q], proc[q])'
        BY <1>4, <3>1, <3>2, <4>1, <4>2 DEF CallFits
      <4>4. calls[q].mounted => page.at # "out"
        BY <1>4 DEF PageGood
      <4>5. CallOwned(calls[q], proc[q])'
        BY <1>1, <1>3, <1>12, <3>2, <4>1, <4>2, <4>4
           DEF CallOwned, PageStays, OwnersStay, Own, Present
      <4> QED
        BY <4>1, <4>3, <4>5 DEF CallGood
    <3>3. CASE calls[q].at = "running" /\ calls[q].kind = "elsewhere"
      <4>1. calls'[q] = Free
        BY <2>1, <3>3
      <4> QED
        BY <2>3, <3>1, <4>1 DEF CallGood, CallFits, CallOwned
    <3>4. CASE calls[q].at = "running" /\ calls[q].kind # "elsewhere"
      <4>1. calls'[q] = Answered(calls[q], "failed", NoId, "absent")
        BY <2>1, <3>4
      <4>2. calls'[q].mounted = calls[q].mounted
        BY <1>4, <4>1 DEF Answered, Calls
      <4> QED
        BY <1>3, <1>12, <3>1, <3>4, <4>1, <4>2, CallFails
    <3> QED
      BY <3>2, <3>3, <3>4
  <2>5. calls' = [q \in Procs |-> calls'[q]]
    BY <2>1
  <2>6. calls' \in [Procs -> Calls'] /\ CallsGood'
    BY <2>4, <2>5 DEF CallsGood, CallGood, CallFits
  <2> QED
    BY <1>6, <1>12, <2>1, <2>4, <2>6
<1>13. ASSUME Around \/ Signing \/ UNCHANGED portalVars, ~SignOut
       PROVE  PortalInv'
  <2>1. UNCHANGED <<proc, page, calls>>
    <3>1. CASE Around
      BY <3>1 DEF Around, Aside, Boot, Serve, Adopt, Tombstone, PodAvailable, PodUnavailable
    <3>2. CASE Signing \/ UNCHANGED portalVars
      BY <3>2 DEF Signing, portalVars, vars
    <3> QED
      BY <1>13, <3>1, <3>2
  <2> QED
    BY <1>7, <1>13, <2>1
<1>14. ASSUME NEW p \in Procs,
              Click(p) \/ Poll(p) \/ AppPoll(p) \/ Unauthorized(p) \/ Unanswered(p) \/ Receive(p)
       PROVE  PortalInv'
  BY <1>5, <1>14, Clicks, Fails, Receives
<1> QED
  BY <1>8, <1>9, <1>10, <1>11, <1>12, <1>13, <1>14 DEF PortalNext, Answer

(* Store, login, page and calls, with whom each call is for.                *)
THEOREM PortalInvariant == PortalSpec => []PortalInv
BY PortalStarts, PortalStep, PTL DEF PortalSpec

(* Everything keeps its type; a page shows a status just when it has a      *)
(* session (Launch.tsx:55-72), and a handler works for a call that is on    *)
(* its way (router.go:76-130).                                              *)
THEOREM PortalTypes == PortalSpec => []PortalTypeOK
<1>1. PortalInv => PortalTypeOK
  BY DEF PortalInv, LoginInv, PageGood, CallsGood, CallFits, PortalTypeOK
<1> QED
  BY <1>1, PortalInvariant, PTL

(* A page never shows the session of somebody else, whatever answers come   *)
(* late and whoever was signed in before in the same tab: an answer that is *)
(* for another is one whose page is gone (Launch.tsx:60-72, auth.tsx:46).   *)
THEOREM OwnSession == PortalSpec => []PageShowsOwnSession
<1>1. PortalInv => PageShowsOwnSession
  <2> SUFFICES ASSUME PortalInv, page.id # NoId
               PROVE  creds[Home] # NoToken /\ Durable[page.id].user = issued[creds[Home]]
    BY DEF PageShowsOwnSession
  <2>1. /\ Own(page.id)
        /\ page.at # "out" => creds[Home] # NoToken
        /\ page.at = "out" => page = Out
    BY DEF PortalInv, PageGood
  <2>2. page.at # "out"
    BY <2>1 DEF Out
  <2>3. Durable[page.id].user = disk[page.id].user
    BY <2>1 DEF Durable, Own, PortalInv, StoreSide, OwnersAgree
  <2> QED
    BY <2>1, <2>2, <2>3 DEF Own
<1> QED
  BY <1>1, PortalInvariant, PTL

-----------------------------------------------------------------------------
(* The gateway and the page *)

(* A call on its way is answered by the panel, or by its going away.        *)
LEMMA AnsweredBy ==
  ASSUME PortalInv, [PortalNext]_portalVars, NEW p \in Procs,
         calls[p].at \in {"sent", "running"}, calls'[p].at = "answered"
  PROVE  Unauthorized(p) \/ Unanswered(p) \/ Arrive(p) \/ Work(p) \/ PanelCrash
<1>1. calls \in [Procs -> Calls] /\ calls[p] \in Calls
  BY DEF PortalInv
<1>2. \A q \in Procs : Unmount[q].at = calls[q].at
  BY TableUnmounted
<1>3. ASSUME NEW q \in Procs, Unauthorized(q) \/ Unanswered(q) \/ Arrive(q) \/ Work(q)
      PROVE  q # p => calls'[p] = calls[p]
  BY <1>1, <1>3 DEF Unauthorized, Unanswered, Arrive, Work, AfterStep
<1>4. ASSUME NEW q \in Procs, NEW u \in Names, NEW id \in Ids, Elsewhere(q, u, id)
      PROVE  calls'[p] = calls[p]
  BY <1>1, <1>4 DEF Elsewhere
<1>5. ASSUME NEW q \in Procs, NEW T, NEW to, T[p].at = calls[p].at, Mount(to, q, T),
             T \in [Procs -> Calls]
      PROVE  calls'[p].at = calls[p].at
  BY <1>1, <1>5 DEF Mount
<1>6. Unmount \in [Procs -> Calls]
  BY TableUnmounted DEF TableGood
<1>7. ASSUME NEW q \in Procs, Click(q) \/ Poll(q) \/ AppPoll(q)
      PROVE  calls'[p].at = calls[p].at
  <2>1. CASE \E kind, id : Send(q, kind, id)
    BY <1>1, <2>1 DEF Send
  <2>2. CASE \E to : Mount(to, q, calls) \/ Mount(to, q, Unmount)
    BY <1>1, <1>2, <1>5, <1>6, <2>2
  <2> QED
    BY <1>7, <2>1, <2>2 DEF Click, OpenPage, Back, Retry, Launch, ClickStop, OpenApp,
                            LoadFrame, Poll, AppPoll
<1>8. ASSUME NEW q \in Procs, Receive(q)
      PROVE  calls'[p].at = calls[p].at
  <2>1. q # p
    BY <1>8 DEF Receive
  <2>2. CASE calls' = Taken(q) \/ \E kind, id : Follow(q, kind, id)
    BY <1>1, <2>1, <2>2 DEF Taken, Follow
  <2>3. CASE ToLaunch(q)
    <3>1. [Unmount EXCEPT ![q] = Free][p].at = calls[p].at
      BY <1>2, <1>6, <2>1
    <3>2. [Unmount EXCEPT ![q] = Free] \in [Procs -> Calls]
      BY <1>8, TableUnmounted, TableFreed DEF Receive, TableGood
    <3> QED
      BY <1>5, <2>3, <3>1, <3>2 DEF ToLaunch
  <2>4. calls' = Taken(q) \/ (\E kind, id : Follow(q, kind, id)) \/ ToLaunch(q)
    BY <1>8 DEF Receive, ReceiveList, ReceiveDetail, ReceivePoll, ReceiveCreate,
                ReceiveStop, ReceiveAppList, ReceiveAppDetail, ReceiveAppPoll,
                ReceiveAppStop, ReceiveFrame, Navigate
  <2> QED
    BY <2>2, <2>3, <2>4
<1>9. ASSUME SignOut \/ Signing \/ Around \/ UNCHANGED portalVars
      PROVE  calls'[p].at = calls[p].at
  BY <1>2, <1>9 DEF SignOut, Signing, Around, Aside, portalVars
<1> QED
  BY <1>3, <1>4, <1>7, <1>8, <1>9 DEF PortalNext, Answer

(* Whose frames the gateway serves, and what it finds for him.              *)
LEMMA EntryIsShown ==
  ASSUME PortalInv, server # "down", page.id # NoId, Active(sessions, page.id)
  PROVE  \A id \in Ids : Active(sessions, id) /\ sessions[id].user = issued[creds[Home]]
                           => id = page.id /\ byUser[issued[creds[Home]]] = page.id
<1>1. /\ Own(page.id) /\ page.id \in Ids
      /\ \A id \in Ids : sessions[id].user = disk[id].user
      /\ \A id \in Ids : Active(sessions, id) => byUser[sessions[id].user] = id
  BY DEF PortalInv, PageGood, StoreSide, Inv, OwnersAgree, ByUserNamesActive, Own
<1>2. sessions[page.id].user = issued[creds[Home]]
  BY <1>1 DEF Own
<1> QED
  BY <1>1, <1>2

(* As long as no two first logins have crossed and his token is good, the   *)
(* gateway never tells the frames of a student's workspace that there is no *)
(* session while the page shows one that is active, and never serves them   *)
(* another one (store.go Get and Current, session_gateway.go:48-60).        *)
THEOREM FramesAgree == PortalSpec => FramesShowPage
<1> DEFINE Agrees(p) ==
      /\ FrameAnswered(p) /\ ~overlapped /\ Live(creds[Home])
      /\ page.at = "app" /\ page.id # NoId /\ Active(sessions, page.id)
      => /\ answer'.reply # "notFound"
         /\ calls'[p].status = "ready" => calls'[p].id = page.id
<1>1. ASSUME PortalInv, [PortalNext]_portalVars, NEW p \in Procs
      PROVE  Agrees(p)
  <2> SUFFICES ASSUME PortalInv, [PortalNext]_portalVars,
                      FrameAnswered(p), ~overlapped, Live(creds[Home]),
                      page.id # NoId, Active(sessions, page.id)
               PROVE  /\ answer'.reply # "notFound"
                      /\ calls'[p].status = "ready" => calls'[p].id = page.id
    BY <1>1
  <2> DEFINE u == issued[creds[Home]]
  <2>1. /\ calls[p].kind = "frame" /\ calls[p].mounted /\ calls'[p].at = "answered"
        /\ calls[p].at \in {"sent", "running"} /\ answer'.op = "current" /\ Trusted
    BY DEF FrameAnswered, Trusted
  <2>2. /\ CallOwned(calls[p], proc[p]) /\ CallFits(calls[p], proc[p])
        /\ calls \in [Procs -> Calls] /\ calls[p] \in Calls
        /\ StoreSide /\ TypeOK /\ LoginInv
        /\ HandlersOwn /\ HandlersHaveSession /\ Own(page.id) /\ page.id \in Ids
    BY DEF PortalInv, CallsGood, StoreSide, Inv, PageGood, Own
  <2>3. /\ calls[p].at = "sent" => calls[p].token = creds[Home]
        /\ calls[p].at = "running" => proc[p].user = u
    BY <2>1, <2>2 DEF CallOwned
  <2>4. ASSUME server # "down"
        PROVE  \A id \in Ids : Active(sessions, id) /\ sessions[id].user = u
                                 => id = page.id /\ byUser[u] = page.id
    BY <2>4, EntryIsShown
  <2>5. sessions[page.id].user = u \/ server = "down"
    BY <2>2 DEF Own, StoreSide, OwnersAgree
  <2>6. ~Unauthorized(p)
    BY <2>3 DEF Unauthorized
  <2>7. ~Unanswered(p)
    <3>1. server # "serving" => answer.op # "current"
      BY <2>2 DEF StoreSide, DownIsSilent, NoAnswer
    <3> QED
      BY <2>1, <3>1 DEF Unanswered, vars
  <2>8. ~PanelCrash
    BY <2>1 DEF PanelCrash, Crash, Silent, NoAnswer
  <2> DEFINE told(w) == Told("frame", answer'.id, proc[p].pc, w)
             Result(w) == IF proc'[p].pc # "idle" THEN [calls[p] EXCEPT !.at = "running"]
                          ELSE IF answer'.reply \notin {"ok", "accepted"}
                          THEN Answered(calls[p], "failed", NoId, "absent")
                          ELSE Answered(calls[p], "ok", told(w)[1], told(w)[2])
  <2>9. ASSUME NEW w, AfterStep(p, w)
        PROVE  calls'[p] = Result(w)
    BY <2>1, <2>2, <2>9 DEF AfterStep
  <2>10. ASSUME NEW w, AfterStep(p, w)
         PROVE  /\ proc'[p].pc = "idle"
                /\ calls'[p].status = "ready" =>
                     /\ answer'.reply \in {"ok", "accepted"}
                     /\ calls'[p].id = told(w)[1] /\ told(w)[2] = "ready"
    <3>1. CASE proc'[p].pc # "idle"
      <4>1. calls'[p] = [calls[p] EXCEPT !.at = "running"]
        BY <2>9, <2>10, <3>1
      <4> QED
        BY <2>1, <2>2, <4>1 DEF Calls
    <3>2. CASE proc'[p].pc = "idle" /\ answer'.reply \notin {"ok", "accepted"}
      <4>1. calls'[p] = Answered(calls[p], "failed", NoId, "absent")
        BY <2>9, <2>10, <3>2
      <4> QED
        BY <2>2, <3>2, <4>1 DEF Answered, Calls
    <3>3. CASE proc'[p].pc = "idle" /\ answer'.reply \in {"ok", "accepted"}
      <4>1. calls'[p] = Answered(calls[p], "ok", told(w)[1], told(w)[2])
        BY <2>9, <2>10, <3>3
      <4> HIDE DEF told
      <4> QED
        BY <2>2, <3>3, <4>1 DEF Answered, Calls
    <3> QED
      BY <3>1, <3>2, <3>3
  <2>11. CASE Arrive(p)
    <3>1. calls[p].at = "sent" /\ AfterStep(p, u) /\ Current(p, u)
      BY <2>1, <2>3, <2>11 DEF Arrive, Route, ReadKinds
    <3>2. u \in Users
      BY <2>2, <2>3, <2>11, <3>1, TokensNamed DEF Arrive, Live, Calls
    <3>3. PICK v \in Users : v = u
      BY <3>2
    <3>4. /\ server = "serving" /\ (answer'.reply = "ok" \/ answer'.reply = "notFound" \/ Started(p, "current", v))
          /\ proc'[p].pc = "idle" => answer'.id = byUser[v] \/ Started(p, "current", v)
          /\ answer'.reply = "notFound" /\ proc'[p].pc = "idle"
               => byUser[v] = NoId \/ ~Active(sessions, byUser[v]) \/ Started(p, "current", v)
      BY <2>2, <3>1, <3>3, CurrentBegins
    <3>5. proc'[p].pc = "idle"
      BY <2>10, <3>1
    <3>6. ~Started(p, "current", v)
      BY <3>5 DEF Started, Stages
    <3>7. byUser[v] = page.id /\ page.id \in Ids /\ Active(sessions, page.id)
      BY <2>2, <2>4, <2>5, <3>3, <3>4
    <3>8. answer'.reply # "notFound" /\ answer'.id = page.id
      BY <3>4, <3>5, <3>6, <3>7
    <3>9. told(u)[1] = answer'.id
      BY DEF Told
    <3> QED
      BY <2>10, <3>1, <3>8, <3>9
  <2>12. CASE Work(p)
    <3>1. /\ calls[p].at = "running" /\ Continue(p) /\ AfterStep(p, u)
          /\ proc[p].user = u
      BY <2>3, <2>12 DEF Work
    <3>2. proc[p].pc # "idle" /\ (GoesOn(p) \/ Ended(p))
      BY <2>2, <3>1, HandlerContinues
    <3>3. proc[p].op = "current" /\ proc[p].pc \in {"probe", "promote"}
      BY <2>1, <2>2, <3>1, <3>2 DEF CallFits, OpOf, HandlersOwn, Stages
    <3>4. proc'[p].pc = "idle"
      BY <2>10, <3>1
    <3>5. Ended(p)
      BY <3>2, <3>3, <3>4 DEF GoesOn, Stages
    <3>6. answer'.reply # "notFound" /\ answer'.id = proc[p].id
      BY <3>5 DEF Ended
    <3>7. ASSUME calls'[p].status = "ready"
          PROVE  calls'[p].id = page.id
      <4>1. told(u)[1] = proc[p].id /\ (told(u)[2] = "ready" => proc[p].pc # "probe")
        BY <3>6 DEF Told
      <4>2. proc[p].pc = "promote" /\ answer'.reply \in {"ok", "accepted"}
        BY <2>10, <3>1, <3>3, <3>7, <4>1
      <4>3. Promote(p)
        BY <3>1, <4>2 DEF Continue, ApplyCreates, ApplyFails, Undo, FailCreate,
                          Probe, DeleteResource, Stop
      <4>4. PICK id \in Ids : id = proc[p].id
        BY <2>2, <3>2 DEF HandlersHaveSession
      <4>5. SetStatus(id, "ready", "saved")
        <5>1. ~Finish(p, "invalid") /\ ~Finish(p, "failed")
          BY <2>2, <4>2, FinishMoves
        <5> QED
          BY <4>3, <4>4, <5>1 DEF Promote
      <4>6. Active(sessions, id) /\ sessions[id].user = u /\ server # "down"
        <5>1. "saved" \in SaveOutcomes
          BY DEF SaveOutcomes
        <5>2. Active(sessions, id)
          BY <2>2, <4>5, <5>1, SetStatusChangesOne
        <5> QED
          BY <2>2, <3>1, <3>2, <4>4, <5>2 DEF HandlersOwn, HandlersHaveSession
      <4> QED
        BY <2>4, <2>10, <3>1, <3>7, <4>1, <4>4, <4>6
    <3> QED
      BY <3>6, <3>7
  <2> QED
    BY <2>1, <2>6, <2>7, <2>8, <2>11, <2>12, AnsweredBy
<1>2. PortalInv /\ [PortalNext]_portalVars => [\A p \in Procs : Agrees(p)]_portalVars
  BY <1>1
<1> QED
  BY <1>2, PortalInvariant, PTL DEF PortalSpec, FramesShowPage

-----------------------------------------------------------------------------
(* The portal is the store and the login *)

(* Pages, calls that wait and answers that are dropped take nothing away    *)
(* from the store and from the tabs, and add nothing to what they can do:   *)
(* what is proved of either holds of both under the portal's pages.         *)
THEOREM PortalImplementsParts == PortalSpec => Spec /\ LoginSpec
<1>1. PortalInit => Init /\ LoginInit
  BY DEF PortalInit
<1>2. PortalInv /\ [PortalNext]_portalVars => [Next]_vars
  BY StoreSees
<1>3. [PortalNext]_portalVars => [LoginNext]_loginVars
  BY LoginSees
<1> QED
  BY <1>1, <1>2, <1>3, PortalInvariant, PTL DEF PortalSpec, Spec, LoginSpec

(* As long as no save fails, students at their pages see the lease table:   *)
(* nobody's session is forgotten, whatever calls cross and whatever crashes.*)
THEOREM PortalImplementsLease ==
  ASSUME FaultKinds \cap SaveFaults = {}
  PROVE  PortalSpec => ImplementsLease
BY PortalImplementsParts, StoreImplementsLease

-----------------------------------------------------------------------------
(* Who may change a session *)

(* While the panel serves, a step that changes a session or its workload is *)
(* one of a request of its owner, and one that ends it or takes a part of   *)
(* its workload away is one of the owner's DELETE, or of the POST that made *)
(* the session and failed.                                                  *)
Changed(id) == sessions'[id] # sessions[id] \/ cluster'[id] # cluster[id]

Harmed(id) ==
  \/ Active(sessions, id) /\ sessions'[id].status \in TerminalStatuses
  \/ ~(cluster[id] \subseteq cluster'[id])

ByOwner(id) ==
  \E p \in Procs :
    /\ proc[p].pc # "idle" /\ proc[p].id = id /\ proc[p].user = sessions[id].user
    /\ Harmed(id) => proc[p].op \in {"create", "delete"}

OwnersDecide ==
  [][\A id \in Ids :
       server = "serving" /\ server' = "serving" /\ Present(sessions, id) /\ Changed(id)
         => ByOwner(id)]_vars

(* What a step of a request leaves alone.                                   *)
LEMMA RequestTouchesOne ==
  ASSUME StoreSide, NEW p \in Procs, Continue(p)
  PROVE  /\ proc[p].pc # "idle" /\ proc[p].id \in Ids
         /\ \A id \in Ids : Changed(id) => id = proc[p].id
         /\ Harmed(proc[p].id) => proc[p].op \in {"create", "delete"}
<1>1. /\ TypeOK /\ HandlersHaveSession /\ HandlersOwn
      /\ sessions \in [Ids -> Sessions] /\ cluster \in [Ids -> SUBSET Kinds]
  BY DEF StoreSide, Inv, TypeOK
<1>2. proc[p].pc # "idle"
  BY DEF Continue, ApplyCreates, ApplyFails, Undo, FailCreate, Probe, Promote,
         DeleteResource, Stop
<1>3. PICK h : h = proc[p].id
  OBVIOUS
<1>4. h \in Ids /\ proc[p].pc \in Stages(proc[p].op)
  BY <1>1, <1>2, <1>3 DEF HandlersHaveSession, HandlersOwn
<1>5. proc[p].pc \in {"apply", "undoPVC", "undoDeployment", "fail", "delete", "stop"}
        => proc[p].op \in {"create", "delete"}
  BY <1>1, <1>2, <1>4 DEF HandlersOwn, Stages, TypeOK, Handlers
<1>6. ASSUME ApplyCreates(p) \/ ApplyFails(p) \/ Undo(p) \/ DeleteResource(p)
      PROVE  /\ sessions' = sessions /\ \A id \in Ids : id # h => cluster'[id] = cluster[id]
             /\ proc[p].pc \in {"apply", "undoPVC", "undoDeployment", "delete"}
  BY <1>1, <1>3, <1>6 DEF ApplyCreates, ApplyFails, Undo, DeleteResource, Remove, storeVars
<1>7. ASSUME FailCreate(p) \/ Stop(p)
      PROVE  /\ cluster' = cluster /\ \A id \in Ids : id # h => sessions'[id] = sessions[id]
             /\ proc[p].pc \in {"fail", "stop"}
  <2>1. /\ cluster' = cluster /\ proc[p].pc \in {"fail", "stop"}
        /\ \/ sessions' = sessions
           \/ \E s \in {"error", "stopped"}, outcome \in SaveOutcomes : SetStatus(h, s, outcome)
    BY <1>3, <1>7 DEF FailCreate, Stop, SetStatusInvalid, storeVars, k8sVars
  <2> QED
    BY <1>1, <1>4, <2>1, SetStatusChangesOne
<1>8. ASSUME Promote(p)
      PROVE  /\ cluster' = cluster /\ \A id \in Ids : id # h => sessions'[id] = sessions[id]
             /\ sessions'[h] = sessions[h] \/ sessions'[h].status = "ready"
  <2>1. \/ sessions' = sessions
        \/ \E outcome \in SaveOutcomes : SetStatus(h, "ready", outcome)
    BY <1>3, <1>8 DEF Promote, SetStatusInvalid, storeVars, SaveOutcomes
  <2> QED
    BY <1>1, <1>4, <1>8, <2>1, SetStatusChangesOne DEF Promote, k8sVars
<1>9. ASSUME Probe(p)
      PROVE  sessions' = sessions /\ cluster' = cluster
  BY <1>9 DEF Probe, storeVars, k8sVars
<1>10. \A id \in Ids : Changed(id) => id = h
  BY <1>6, <1>7, <1>8, <1>9 DEF Continue, Changed
<1>11. Harmed(h) => proc[p].op \in {"create", "delete"}
  <2>1. (sessions' = sessions \/ sessions'[h] = sessions[h] \/ sessions'[h].status = "ready")
          /\ cluster' = cluster => ~Harmed(h)
    BY DEF Harmed, Active, ActiveStatuses, TerminalStatuses
  <2> QED
    BY <1>5, <1>6, <1>7, <1>8, <1>9, <2>1 DEF Continue
<1> QED
  BY <1>2, <1>3, <1>4, <1>10, <1>11

(* Nobody's session is promoted, stopped or torn down by the request of     *)
(* another, however long a request works on what it read before the unlock  *)
(* (store.go 230-305, router.go 76-130), nor by the owner's GET or a frame. *)
THEOREM OnlyOwners ==
  ASSUME ApiStatuses = {}
  PROVE  Spec => OwnersDecide
<1> DEFINE Decides == \A id \in Ids :
             server = "serving" /\ server' = "serving" /\ Present(sessions, id) /\ Changed(id)
               => ByOwner(id)
<1>1. StoreSide /\ [Next]_vars => StoreSide'
  BY StoreSideStep
<1>2. ASSUME StoreSide, [Next]_vars
      PROVE  [Decides]_vars
  <2> SUFFICES ASSUME NEW id \in Ids, server = "serving", server' = "serving",
                      Present(sessions, id), Changed(id)
               PROVE  ByOwner(id)
    OBVIOUS
  <2>0. Next
    BY <1>2 DEF Changed, vars, storeVars, k8sVars
  <2>1. ASSUME NEW p \in Procs, Continue(p)
        PROVE  ByOwner(id)
    <3>1. /\ proc[p].pc # "idle" /\ proc[p].id = id
          /\ Harmed(id) => proc[p].op \in {"create", "delete"}
      BY <1>2, <2>1, RequestTouchesOne
    <3>2. sessions[id].user = proc[p].user
      BY <1>2, <3>1 DEF StoreSide, HandlersOwn
    <3> QED
      BY <3>1, <3>2 DEF ByOwner
  <2>2. ASSUME NEW p \in Procs, NEW u \in Users,
               CreateRefused(p, u) \/ Current(p, u) \/ List(p, u)
        PROVE  FALSE
    BY <2>2 DEF CreateRefused, Current, List, Changed, storeVars, k8sVars
  <2>3. ASSUME NEW p \in Procs, NEW u \in Users, NEW i \in Ids, Get(p, u, i) \/ Delete(p, u, i)
        PROVE  FALSE
    BY <2>3 DEF Get, Delete, Read, Changed, storeVars, k8sVars
  <2>4. ASSUME NEW p \in Procs, NEW u \in Users, NEW i \in Ids, Create(p, u, i)
        PROVE  FALSE
    <3>1. i # id /\ cluster' = cluster
      BY <2>4 DEF Create, k8sVars
    <3>2. sessions'[id] = sessions[id]
      BY <1>2, <2>4, <3>1 DEF Create, StoreSide, Inv, TypeOK
    <3> QED
      BY <3>1, <3>2 DEF Changed
  <2>5. CASE Crash \/ Boot \/ Serve \/ \E i \in Ids : Adopt(i) \/ Tombstone(i)
    BY <2>5 DEF Crash, Boot, Serve, Adopt, Tombstone, Changed, storeVars, k8sVars
  <2>6. ASSUME NEW i \in Ids, PodAvailable(i) \/ PodUnavailable(i)
        PROVE  FALSE
    BY <2>6 DEF PodAvailable, PodUnavailable, Changed, storeVars
  <2> QED
    BY <2>0, <2>1, <2>2, <2>3, <2>4, <2>5, <2>6 DEF Next
<1> HIDE DEF Decides
<1>3. Spec => [][Decides]_vars
  BY <1>1, <1>2, StoreSideStarts, PTL DEF Spec
<1> QED
  BY <1>3 DEF OwnersDecide, Decides
=============================================================================
