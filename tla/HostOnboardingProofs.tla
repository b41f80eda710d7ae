------------------------ MODULE HostOnboardingProofs ------------------------
(***************************************************************************)
(* Theorems about host onboarding end to end, for any laptops, hardware,   *)
(* handlers, lifetimes, timeouts and faults.  The panel's part of a step   *)
(* is a step of NodeOnboarding, or touches nothing of it (PanelSteps), so  *)
(* that its invariant carries over.  On the laptop, Fits, Follows and      *)
(* Guarded say what a step may do to the machine, to the engine and to the *)
(* screen in front of it.                                                  *)
(***************************************************************************)
EXTENDS HostOnboarding, NodeOnboardingProofs, QualificationProofs

-----------------------------------------------------------------------------
(* The composition keeps the panel's invariant *)

(* A token that was sent to a laptop has its request.                       *)
GivenHaveRequest == \A t \in Tokens : secrets[t].given => secrets[t].node \in Ids

(* Every request the panel has in memory is in the file, for one laptop.    *)
SameRequests ==
  up => \A id \in Ids : /\ Known(nodes, id) <=> Known(disk, id)
                        /\ Known(disk, id) => nodes[id].laptop = disk[id].laptop

PanelInv == Inv /\ GivenHaveRequest /\ SameRequests

(* A step of the program that the panel does not see.                       *)
PanelRests ==
  /\ UNCHANGED <<storeVars, k8sVars, proc, watcher, up, env, now>>
  /\ answer' = answer \/ Silent
  /\ NoFault \/ Fault("lost")

(* A step of the composition is a step of the panel or one it does not see. *)
LEMMA PanelSteps ==
  ASSUME PanelInv, ProgramTypeOK, [OnboardingNext]_onboardingVars
  PROVE  Next \/ PanelRests
<1>1. CASE UNCHANGED onboardingVars
  BY <1>1 DEF onboardingVars, vars, PanelRests, storeVars, k8sVars, NoFault
<1>2. ASSUME NEW l \in Laptops,
             Launch(l) \/ Press(l) \/ ShowDone(l) \/ Quit(l) \/ GiveUp(l)
      PROVE  PanelRests
  BY <1>2 DEF Launch, Press, ShowDone, Quit, GiveUp, PanelRests
<1>3. ASSUME NEW l \in Laptops, LaptopJoins(l)
      PROVE  Next
  <2>1. agent[l] \in Tokens
    BY <1>3 DEF LaptopJoins, ProgramTypeOK
  <2>2. secrets[agent[l]].node \in Ids
    BY <1>3, <2>1 DEF LaptopJoins, Valid, PanelInv, GivenHaveRequest
  <2> QED
    BY <1>3, <2>2 DEF LaptopJoins, Next
<1>4. ASSUME NEW l \in Laptops,
             Refused(l) \/ TimesOut(l) \/ InstallsToolkit(l) \/ InstallsAgent(l) \/ Uploads(l)
      PROVE  PanelRests
  BY <1>4 DEF Refused, TimesOut, InstallsToolkit, InstallsAgent, Uploads, PanelRests
<1>5. ASSUME NEW l \in Laptops, Ask(l)
      PROVE  Next
  <2>1. PICK p \in Draw({q \in Procs : CanStart(q)}) :
          IF engine[l].pc = "register" THEN Register(p, l)
          ELSE engine[l].id # NoId /\ Poll(p, engine[l].id)
    BY <1>5 DEF Ask
  <2>2. p \in Procs
    BY <2>1 DEF Draw
  <2>3. engine[l].id \in Ids \cup {NoId}
    BY DEF ProgramTypeOK, Engines
  <2> QED
    BY <2>1, <2>2, <2>3 DEF Next
<1>6. ASSUME NEW p \in Procs, Handles(p)
      PROVE  Next
  BY <1>6 DEF Handles, Next
<1>7. CASE Panel \/ PanelCrash
  BY <1>7 DEF Panel, PanelCrash, Next
<1> QED
  BY <1>1, <1>2, <1>3, <1>4, <1>5, <1>6, <1>7 DEF OnboardingNext, EngineSteps

LEMMA PanelRestsInv ==
  ASSUME PanelInv, PanelRests
  PROVE  PanelInv'
<1>0. faults' \in 0..MaxFaults
  BY FaultsAssumption DEF PanelInv, Inv, TypeOK, PanelRests, NoFault, Fault
<1>1. UNCHANGED <<nodes, byFingerprint, disk, secrets, cluster, labelled, proc, watcher,
                  up, env, now>>
  BY DEF PanelRests, storeVars, k8sVars
<1>2. TypeOK'
  BY <1>0, <1>1 DEF PanelInv, Inv, TypeOK
<1>3. DownIsEmpty' /\ HandlersHaveRequest' /\ MintersAreDecided' /\ MarkersHaveSecret'
  BY <1>1 DEF PanelInv, Inv, DownIsEmpty, HandlersHaveRequest, MintersAreDecided,
              MarkersHaveSecret, Minting
<1>4. MintedHaveSecret' /\ WatcherFollows' /\ RecordsHaveLaptop'
  BY <1>1 DEF PanelInv, Inv, MintedHaveSecret, HasSecret, WatcherFollows, RecordsHaveLaptop
<1>5. OneRequestPerLaptop' /\ JoinedIsLabelled'
  BY <1>1 DEF PanelInv, Inv, OneRequestPerLaptop, JoinedIsLabelled
<1>6. GivenHaveRequest' /\ SameRequests'
  BY <1>1 DEF PanelInv, GivenHaveRequest, SameRequests
<1> QED
  BY <1>2, <1>3, <1>4, <1>5, <1>6 DEF PanelInv, Inv

LEMMA PanelNextInv ==
  ASSUME PanelInv, Next
  PROVE  PanelInv'
<1>s. Setting /\ Inv
  BY DEF PanelInv, Inv, Setting
<1>0. /\ nodes \in [Ids -> Records] /\ disk \in [Ids -> Records]
      /\ secrets \in [Tokens -> Secrets] /\ proc \in [Procs -> Handlers]
  BY <1>s DEF Inv, TypeOK
<1>1. Inv'
  BY <1>s, NextInv
<1>2. GivenHaveRequest'
  <2> SUFFICES ASSUME NEW t \in Tokens, secrets'[t].given
               PROVE  secrets'[t].node \in Ids
    BY DEF GivenHaveRequest
  <2>1. CASE secrets' = secrets
    BY <2>1 DEF PanelInv, GivenHaveRequest
  <2>2. ASSUME NEW p \in Procs, NEW u \in Tokens, SecretMinted(p, u)
        PROVE  secrets'[t].node \in Ids
    <3>1. u # t
      BY <1>0, <2>2 DEF SecretMinted, Secret
    <3> QED
      BY <1>0, <2>2, <3>1 DEF SecretMinted, PanelInv, GivenHaveRequest
  <2>3. ASSUME NEW u \in Tokens, SecretGiven(u)
        PROVE  secrets'[t].node \in Ids
    <3>1. secrets[u].node \in Ids
      BY <1>0, <2>3 DEF SecretGiven, Secrets
    <3>2. CASE u = t
      BY <1>0, <2>3, <3>1, <3>2, SecretsStay, <1>s, NamesAssumption DEF SecretGiven
    <3>3. CASE u # t
      BY <1>0, <2>3, <3>3 DEF SecretGiven, PanelInv, GivenHaveRequest
    <3> QED
      BY <3>2, <3>3
  <2> QED
    BY <1>s, <2>1, <2>2, <2>3, SecretSteps
<1>3. SameRequests'
  <2> SUFFICES ASSUME up', NEW id \in Ids
               PROVE  /\ Known(nodes', id) <=> Known(disk', id)
                      /\ Known(disk', id) => nodes'[id].laptop = disk'[id].laptop
    BY DEF SameRequests, Known
  <2>0. up => /\ Known(nodes, id) <=> Known(disk, id)
              /\ Known(disk, id) => nodes[id].laptop = disk[id].laptop
    BY DEF PanelInv, SameRequests
  <2>1. CASE StoreRests
    BY <2>0, <2>1 DEF StoreRests
  <2>2. CASE Registers
    BY <1>s, <2>0, <2>2, RegistersOne DEF Registers, Setting
  <2>3. CASE Changes
    <3>1. up /\ (disk' = nodes' \/ disk' = disk)
      BY <1>s, <2>3, ChangesOne DEF Changes, Setting
    <3>2. PICK i \in Ids, r \in Records : Changed(i, r)
      BY <1>s, <2>3, ChangesOne DEF Setting
    <3> QED
      BY <1>0, <2>0, <3>1, <3>2 DEF Changed, Known
  <2>4. CASE Loads
    BY <2>4 DEF Loads
  <2> QED
    BY <1>s, <2>1, <2>2, <2>3, <2>4, StoreSteps DEF Forgets
<1> QED
  BY <1>1, <1>2, <1>3 DEF PanelInv

(* What a handler may answer.  A poll tells the status of the handler's     *)
(* copy, or that it expired, or it carries the token it has minted.         *)
RegisterSays(a, p) ==
  /\ proc[p].pc = "autoApprove" /\ a.token = NoToken /\ a.id \in {proc[p].id, NoId}

PollSays(a, p) ==
  /\ proc[p].pc \in {"expire", "mint", "mark"} /\ a.id \in Ids \cup {NoId}
  /\ \/ a.kind = "error" /\ a.token = NoToken
     \/ /\ a.kind = "ok" /\ a.status \in {proc[p].status, "expired"} /\ a.token = NoToken
     \/ /\ proc[p].pc = "mark" /\ a.token = proc[p].token
        /\ a.kind = "ok" /\ a.status = "approved"

Says(p) ==
  answer'.to = p /\ (RegisterSays(answer', p) \/ PollSays(answer', p))

(* A handler that goes on answers when it is through, and not before.       *)
LEMMA ContinueSteps ==
  ASSUME PanelInv, NEW p \in Procs, Continue(p)
  PROVE  /\ proc[p].pc # "idle"
         /\ \A q \in Procs : q # p => proc'[q] = proc[q]
         /\ \/ Silent /\ proc'[p].pc \in {"mint", "mark"} /\ proc'[p].id = proc[p].id
               /\ proc[p].pc \in {"expire", "mint"}
            \/ proc'[p] = Idle /\ Says(p)
<1>0. /\ proc \in [Procs -> Handlers] /\ proc[p] \in Handlers
  BY DEF PanelInv, Inv, TypeOK
<1>1. ASSUME NEW kind, NEW id, NEW status, NEW token, Respond(p, kind, id, status, token)
      PROVE  /\ answer'.to = p /\ answer'.kind = kind /\ answer'.id = id
             /\ answer'.status = status /\ answer'.token = token
  BY <1>1 DEF Respond
<1>2. Finish(p) => proc'[p] = Idle /\ \A q \in Procs : q # p => proc'[q] = proc[q]
  BY <1>0 DEF Finish
<1>i. proc[p].pc # "idle" => proc[p].id \in Ids
  BY DEF PanelInv, Inv, HandlersHaveRequest
<1>3. CASE AutoApproval(p)
  <2>1. proc[p].pc = "autoApprove" /\ Finish(p)
    BY <1>3 DEF AutoApproval
  <2>2. \/ Respond(p, "ok", proc[p].id, "approved", NoToken)
        \/ Respond(p, "ok", NoId, "none", NoToken)
    BY <1>3 DEF AutoApproval
  <2> QED
    BY <1>1, <1>2, <2>1, <2>2 DEF Says, RegisterSays
<1>4. ASSUME NEW status \in {proc[p].status, "expired"}, proc[p].pc = "expire",
             AnswerPoll(p, status)
      PROVE  /\ \A q \in Procs : q # p => proc'[q] = proc[q]
             /\ \/ Silent /\ proc'[p].pc = "mint" /\ proc'[p].id = proc[p].id
                \/ proc'[p] = Idle /\ Says(p)
  <2>0. CASE status = "approved" /\ ~env.inCluster
    <3>1. Respond(p, "error", proc[p].id, "none", NoToken) /\ Finish(p)
      BY <1>4, <2>0 DEF AnswerPoll
    <3>2. PollSays(answer', p) /\ answer'.to = p
      BY <1>i, <1>1, <1>4, <3>1 DEF PollSays
    <3> QED
      BY <1>2, <3>1, <3>2 DEF Says
  <2>1. CASE ~(status = "approved" /\ ~env.inCluster)
             /\ status = "approved" /\ proc[p].token = NoToken
    <3>1. Silent /\ proc' = [proc EXCEPT ![p].pc = "mint"]
      BY <1>4, <2>1 DEF AnswerPoll
    <3> QED
      BY <1>0, <3>1 DEF Handlers
  <2>2. CASE ~(status = "approved" /\ ~env.inCluster)
             /\ ~(status = "approved" /\ proc[p].token = NoToken)
    <3>1. Respond(p, "ok", proc[p].id, status, NoToken) /\ Finish(p)
      BY <1>4, <2>2 DEF AnswerPoll
    <3>2. PollSays(answer', p) /\ answer'.to = p
      BY <1>i, <1>1, <1>4, <3>1 DEF PollSays
    <3> QED
      BY <1>2, <3>1, <3>2 DEF Says
  <2> QED
    BY <2>0, <2>1, <2>2
<1>5. CASE Expire(p)
  <2>1. \E status \in {proc[p].status, "expired"} : AnswerPoll(p, status)
    BY <1>5 DEF Expire
  <2> QED
    BY <1>4, <1>5, <2>1 DEF Expire
<1>6. CASE Mint(p) /\ Finish(p)
  <2>1. Respond(p, "error", proc[p].id, "none", NoToken)
    BY <1>0, <1>2, <1>6 DEF Mint, Idle, Handlers
  <2>2. PollSays(answer', p) /\ answer'.to = p
    BY <1>i, <1>1, <1>6, <2>1 DEF PollSays, Mint
  <2> QED
    BY <1>2, <1>6, <2>2 DEF Says, Mint
<1>7. CASE Mint(p) /\ ~Finish(p)
  <2>1. /\ proc[p].pc = "mint" /\ Silent
        /\ \E t \in Tokens : proc' = [proc EXCEPT ![p].pc = "mark", ![p].token = t]
    BY <1>7 DEF Mint, Draw, Unminted
  <2> QED
    BY <1>0, <2>1 DEF Handlers
<1>8. CASE Mark(p)
  <2>1. proc[p].pc = "mark" /\ Finish(p)
    BY <1>8 DEF Mark
  <2>2. \/ Respond(p, "ok", proc[p].id, "approved", proc[p].token)
        \/ Respond(p, "error", proc[p].id, "none", NoToken)
    BY <1>8 DEF Mark
  <2>3. PollSays(answer', p) /\ answer'.to = p
    BY <1>i, <1>1, <2>1, <2>2 DEF PollSays
  <2> QED
    BY <1>2, <2>1, <2>3 DEF Says
<1> QED
  BY <1>3, <1>5, <1>6, <1>7, <1>8 DEF Continue, Mint

(* The request is in the file, and it is that laptop's.                     *)
Belongs(id, l) == id \in Ids /\ Known(disk, id) /\ disk[id].laptop = l
BelongsNext(id, l) == id \in Ids /\ Known(disk', id) /\ disk'[id].laptop = l

(* A request is its laptop's for good.                                      *)
LEMMA BelongsStays ==
  ASSUME PanelInv, Next, NEW l \in Laptops, NEW id, Belongs(id, l)
  PROVE  BelongsNext(id, l)
<1>s. Setting /\ TypeOK
  BY DEF PanelInv, Inv, Setting
<1>0. nodes \in [Ids -> Records] /\ disk \in [Ids -> Records] /\ id \in Ids
  BY <1>s DEF TypeOK, Belongs
<1>1. up => Known(nodes, id) /\ nodes[id].laptop = disk[id].laptop
  BY DEF PanelInv, SameRequests, Belongs
<1>2. CASE StoreRests
  BY <1>2 DEF StoreRests, Belongs, BelongsNext
<1>3. CASE Registers
  BY <1>s, <1>0, <1>1, <1>3, RegistersOne DEF Registers, Unused, Belongs, BelongsNext, Known
<1>4. CASE Changes
  <2>1. up /\ (disk' = nodes' \/ disk' = disk)
    BY <1>s, <1>4, ChangesOne DEF Changes
  <2>2. PICK i \in Ids, r \in Records : Changed(i, r)
    BY <1>s, <1>4, ChangesOne
  <2> QED
    BY <1>0, <1>1, <2>1, <2>2 DEF Changed, Known, Belongs, BelongsNext
<1>5. CASE Forgets \/ Loads
  BY <1>5 DEF Forgets, Loads, Belongs, BelongsNext
<1> QED
  BY <1>s, <1>2, <1>3, <1>4, <1>5, StoreSteps

(* A registration is answered at once, or a handler approves it first.      *)
LEMMA RegisterAsks ==
  ASSUME PanelInv, NEW p \in Procs, NEW l \in Laptops, Register(p, l)
  PROVE  /\ proc[p].pc = "idle"
         /\ \A q \in Procs : q # p => proc'[q] = proc[q]
         /\ \/ Silent /\ proc'[p].pc = "autoApprove" /\ BelongsNext(proc'[p].id, l)
            \/ /\ proc' = proc /\ answer'.to = p /\ answer'.token = NoToken
               /\ answer'.kind = "ok" => BelongsNext(answer'.id, l)
<1>0. /\ nodes \in [Ids -> Records] /\ disk \in [Ids -> Records]
      /\ proc \in [Procs -> Handlers] /\ byFingerprint \in [Laptops -> Ids \cup {NoId}]
  BY DEF PanelInv, Inv, TypeOK
<1>1. proc[p].pc = "idle" /\ up
  BY DEF Register, CanStart
<1>2. CASE byFingerprint[l] # NoId
  <2> DEFINE id == byFingerprint[l]
  <2>1. id \in Ids
    BY <1>0, <1>2
  <2>2. Known(nodes, id) /\ nodes[id].laptop = l
    BY <1>1, <2>1 DEF PanelInv, Inv, OneRequestPerLaptop
  <2>3. Belongs(id, l)
    BY <1>1, <2>1, <2>2 DEF PanelInv, SameRequests, Belongs
  <2>4. /\ Respond(p, "ok", id, nodes[id].status, NoToken)
        /\ proc' = proc /\ disk' = disk
    BY <1>2 DEF Register, storeVars
  <2>5. BelongsNext(id, l)
    BY <2>3, <2>4 DEF Belongs, BelongsNext
  <2> HIDE DEF id
  <2> QED
    BY <1>1, <2>4, <2>5 DEF Respond
<1>3. CASE byFingerprint[l] = NoId
  <2>1. PICK id \in Draw(Unused), ok \in BOOLEAN :
          /\ RegisterNew(l, id, ok)
          /\ IF ~ok
             THEN Respond(p, "error", NoId, "none", NoToken) /\ UNCHANGED proc
             ELSE IF env.autoApprove
             THEN Silent /\ Start(p, "autoApprove", id, nodes'[id])
             ELSE Respond(p, "ok", id, "pending", NoToken) /\ UNCHANGED proc
    BY <1>3 DEF Register
  <2>2. id \in Ids
    BY <2>1 DEF Draw, Unused
  <2>3. CASE ~ok
    BY <1>1, <2>1, <2>3 DEF Respond
  <2>4. CASE ok
    <3>1. disk' = nodes' /\ nodes'[id].laptop = l /\ nodes'[id].status = "pending"
      BY <1>0, <2>1, <2>2, <2>4 DEF RegisterNew, Save
    <3>2. BelongsNext(id, l)
      BY <2>2, <3>1 DEF BelongsNext, Known
    <3>3. CASE env.autoApprove
      <4>1. Silent /\ Start(p, "autoApprove", id, nodes'[id])
        BY <2>1, <2>4, <3>3
      <4>2. /\ proc'[p].pc = "autoApprove" /\ proc'[p].id = id
            /\ \A q \in Procs : q # p => proc'[q] = proc[q]
        BY <1>0, <4>1 DEF Start
      <4> QED
        BY <1>1, <3>2, <4>1, <4>2
    <3>4. CASE ~env.autoApprove
      BY <1>1, <2>1, <2>4, <3>2, <3>4 DEF Respond
    <3> QED
      BY <3>3, <3>4
  <2> QED
    BY <2>3, <2>4
<1> QED
  BY <1>2, <1>3

(* A poll of a request that is not known is answered at once.               *)
LEMMA PollAsks ==
  ASSUME PanelInv, NEW p \in Procs, NEW id \in Ids, Poll(p, id)
  PROVE  /\ proc[p].pc = "idle"
         /\ \A q \in Procs : q # p => proc'[q] = proc[q]
         /\ \/ Silent /\ proc'[p].pc = "expire" /\ proc'[p].id = id
            \/ proc' = proc /\ answer'.to = p /\ answer'.kind = "error"
<1>0. proc \in [Procs -> Handlers]
  BY DEF PanelInv, Inv, TypeOK
<1>1. proc[p].pc = "idle"
  BY DEF Poll, CanStart
<1>2. CASE Known(nodes, id)
  <2>1. Silent /\ Start(p, "expire", id, nodes[id])
    BY <1>2 DEF Poll
  <2> QED
    BY <1>0, <1>1, <2>1 DEF Start
<1>3. CASE ~Known(nodes, id)
  BY <1>1, <1>3 DEF Poll, Respond
<1> QED
  BY <1>2, <1>3

-----------------------------------------------------------------------------
(* The invariant of the program *)

(* A handler that has read joined works on a request whose node is labelled. *)
JoinedCopies ==
  \A p \in Procs :
    proc[p].pc # "idle" /\ proc[p].status = "joined" => proc[p].id \in labelled

(* An engine's call is served by a handler that works on the engine's       *)
(* request, or has just created it.                                         *)
CallsServed ==
  \A l \in Laptops : engine[l].call # NoProc =>
    LET h == proc[engine[l].call] IN
    \/ engine[l].pc = "register" /\ h.pc = "autoApprove" /\ Belongs(h.id, l)
    \/ /\ engine[l].pc \in {"approval", "confirm"}
       /\ h.pc \in {"expire", "mint", "mark"} /\ h.id = engine[l].id

OwnRequests == \A l \in Laptops : engine[l].id # NoId => Belongs(engine[l].id, l)

OwnTokens ==
  \A l \in Laptops :
    engine[l].token # NoToken =>
      engine[l].id # NoId /\ secrets[engine[l].token].node = engine[l].id

OwnAgents == \A l \in Laptops : agent[l] # NoToken => Belongs(secrets[agent[l]].node, l)

(* A node of the cluster is the doing of the agent of the request's laptop. *)
NodesHaveAgent ==
  \A id \in Ids :
    cluster[id] # "none" => \E l \in Laptops : agent[l] # NoToken /\ Belongs(id, l)

UploadsAreTrue ==
  \A l \in Laptops :
    engine[l].pc \in {"upload", "done"} => agent[l] # NoToken /\ engine[l].id \in labelled

ProgramInv ==
  /\ PanelInv /\ ProgramTypeOK /\ JoinedCopies /\ CallsServed /\ OwnRequests
  /\ OwnTokens /\ OwnAgents /\ NodesHaveAgent /\ LabelledAreNodes /\ UploadsAreTrue

-----------------------------------------------------------------------------
(* What an engine does *)

(* What it may make of an answer.                                           *)
Learns(l, e, f) ==
  \/ f = Failed(e)
  \/ e.pc # "register" /\ f = [e EXCEPT !.call = NoProc]
  \/ /\ e.pc = "register"
     /\ \E id \in Ids \cup {NoId} :
          /\ id # NoId => BelongsNext(id, l)
          /\ f = [e EXCEPT !.pc = "approval", !.id = id, !.call = NoProc, !.since = now]
  \/ /\ e.pc # "register" /\ e.id \in labelled
     /\ f = [e EXCEPT !.pc = "upload", !.call = NoProc]
  \/ /\ e.pc = "approval" /\ e.id \in Ids
     /\ \E t \in Tokens, pc \in Installing :
          /\ secrets[t].node = e.id /\ (pc = "toolkit" => e.need)
          /\ f = [e EXCEPT !.pc = pc, !.token = t, !.call = NoProc]

(* What it must hear for that: its own request's id, status and token.      *)
Tells(l, e, a) ==
  \/ a = NoAnswer
  \/ /\ e.pc = "register"
     /\ a.kind = "ok" => a.id = NoId \/ BelongsNext(a.id, l)
  \/ /\ e.pc # "register"
     /\ \/ a.kind = "error"
        \/ /\ a.status = "joined" => e.id \in labelled
           /\ a.token # NoToken =>
                e.id \in Ids /\ a.token \in Tokens /\ secrets[a.token].node = e.id

LEMMA HearLearns ==
  ASSUME NEW l \in Laptops, NEW e, NEW a,
         e.pc \in {"register", "approval", "confirm"}, Tells(l, e, a)
  PROVE  Learns(l, e, Hear(e, a))
<1>a. a = NoAnswer => a.kind = "none" /\ a.status = "none" /\ a.token = NoToken
  BY DEF NoAnswer
<1>1. CASE e.pc = "register"
  <2>1. Hear(e, a) = HearRegistered(e, a)
    BY <1>1 DEF Hear
  <2>2. CASE a.kind = "ok"
    <3>1. a.id = NoId \/ BelongsNext(a.id, l)
      BY <1>1, <1>a, <2>2 DEF Tells
    <3>2. a.id \in Ids \cup {NoId}
      BY <3>1 DEF BelongsNext
    <3>3. Hear(e, a) = [e EXCEPT !.pc = "approval", !.id = a.id, !.call = NoProc, !.since = now]
      BY <2>1, <2>2 DEF HearRegistered
    <3> QED
      BY <1>1, <3>1, <3>2, <3>3 DEF Learns
  <2>3. CASE a.kind # "ok"
    BY <2>1, <2>3 DEF HearRegistered, Learns
  <2> QED
    BY <2>2, <2>3
<1>2. CASE e.pc = "approval"
  <2>1. Hear(e, a) = HearApproval(e, a)
    BY <1>2 DEF Hear
  <2>2. CASE a.kind = "error" \/ a.status = "pending"
    BY <1>2, <2>1, <2>2 DEF HearApproval, Learns
  <2>3. CASE a.kind # "error" /\ a.status = "joined"
    <3>1. e.id \in labelled
      BY <1>2, <1>a, <2>3 DEF Tells
    <3>2. Hear(e, a) = [e EXCEPT !.pc = "upload", !.call = NoProc]
      BY <2>1, <2>3 DEF HearApproval
    <3> QED
      BY <1>2, <3>1, <3>2 DEF Learns
  <2>4. CASE /\ a.kind # "error" /\ a.status # "pending" /\ a.status # "joined"
             /\ a.status = "denied" \/ a.token = NoToken
    <3>1. Hear(e, a) = Failed(e)
      BY <2>1, <2>4 DEF HearApproval
    <3> QED
      BY <3>1 DEF Learns
  <2>5. CASE /\ a.kind # "error" /\ a.status # "pending" /\ a.status # "joined"
             /\ a.status # "denied" /\ a.token # NoToken
    <3> DEFINE pc == IF e.need THEN "toolkit" ELSE "agent"
    <3>1. e.id \in Ids /\ a.token \in Tokens /\ secrets[a.token].node = e.id
      BY <1>2, <1>a, <2>5 DEF Tells
    <3>2. Hear(e, a) = [e EXCEPT !.pc = pc, !.token = a.token, !.call = NoProc]
      BY <2>1, <2>5 DEF HearApproval
    <3>3. pc \in Installing /\ (pc = "toolkit" => e.need)
      BY DEF Installing
    <3> HIDE DEF pc
    <3> QED
      BY <1>2, <3>1, <3>2, <3>3 DEF Learns
  <2> QED
    BY <2>2, <2>3, <2>4, <2>5
<1>3. CASE e.pc = "confirm"
  <2>1. Hear(e, a) = HearJoined(e, a)
    BY <1>3 DEF Hear
  <2>2. CASE a.kind = "ok" /\ a.status = "joined"
    <3>1. e.id \in labelled
      BY <1>3, <1>a, <2>2 DEF Tells
    <3>2. Hear(e, a) = [e EXCEPT !.pc = "upload", !.call = NoProc]
      BY <2>1, <2>2 DEF HearJoined
    <3> QED
      BY <1>3, <3>1, <3>2 DEF Learns
  <2>3. CASE ~(a.kind = "ok" /\ a.status = "joined")
    <3>1. Hear(e, a) = [e EXCEPT !.call = NoProc]
      BY <2>1, <2>3 DEF HearJoined
    <3> QED
      BY <1>3, <3>1 DEF Learns
  <2> QED
    BY <2>2, <2>3
<1> QED
  BY <1>1, <1>2, <1>3

(* A call that fails in the client tells it nothing.                        *)
LEMMA LostLearns ==
  ASSUME NEW l \in Laptops, NEW e, e.pc \in {"register", "approval", "confirm"}
  PROVE  Learns(l, e, Lost(e))
<1> DEFINE a == [NoAnswer EXCEPT !.kind = "error"]
<1>1. a.kind = "error"
  BY DEF NoAnswer
<1>2. Tells(l, e, a)
  <2> HIDE DEF a
  <2> QED
    BY <1>1 DEF Tells
<1>3. Lost(e) = Hear(e, a)
  BY DEF Lost
<1> HIDE DEF a
<1> QED
  BY <1>2, <1>3, HearLearns

(* The call of e is served as CallsServed says, after the step.             *)
ServedNext(l, e) ==
  LET h == proc'[e.call] IN
  \/ e.pc = "register" /\ h.pc = "autoApprove" /\ BelongsNext(h.id, l)
  \/ /\ e.pc \in {"approval", "confirm"}
     /\ h.pc \in {"expire", "mint", "mark"} /\ h.id = e.id

(* What a step may do to an engine that runs.                               *)
Works(l) ==
  LET e == engine[l]  f == engine'[l] IN
  \/ f = e /\ (e.call # NoProc => ServedNext(l, e))
  \/ /\ Waits(l) /\ e.call = NoProc
     /\ \E p \in Procs : f = [e EXCEPT !.call = p] /\ ServedNext(l, f)
  \/ Waits(l) /\ Learns(l, e, f)
  \/ e.pc \in {"approval", "confirm"} \cup Installing /\ f = Failed(e)
  \/ e.pc = "toolkit" /\ f = [e EXCEPT !.pc = "agent"]
  \/ e.pc = "agent" /\ f = [e EXCEPT !.pc = "confirm", !.since = now]
  \/ e.pc = "upload" /\ f = [e EXCEPT !.pc = "done"]

LEMMA LearnsEither ==
  ASSUME NEW l \in Laptops, NEW e \in Engines, NEW p, NEW f,
         Learns(l, [e EXCEPT !.call = p], f)
  PROVE  Learns(l, e, f)
<1> DEFINE c == [e EXCEPT !.call = p]
<1>1. c.pc = e.pc /\ c.id = e.id /\ c.need = e.need
  BY DEF Engines
<1>2. /\ Failed(c) = Failed(e)
      /\ [c EXCEPT !.call = NoProc] = [e EXCEPT !.call = NoProc]
  BY DEF Engines, Failed
<1>3. \A id : [c EXCEPT !.pc = "approval", !.id = id, !.call = NoProc, !.since = now]
            = [e EXCEPT !.pc = "approval", !.id = id, !.call = NoProc, !.since = now]
  BY DEF Engines
<1>4. [c EXCEPT !.pc = "upload", !.call = NoProc] = [e EXCEPT !.pc = "upload", !.call = NoProc]
  BY DEF Engines
<1>5. \A pc, t : [c EXCEPT !.pc = pc, !.token = t, !.call = NoProc]
               = [e EXCEPT !.pc = pc, !.token = t, !.call = NoProc]
  BY DEF Engines
<1>6. Learns(l, c, f)
  OBVIOUS
<1> HIDE DEF c
<1>7. CASE f = Failed(c)
  BY <1>2, <1>7 DEF Learns
<1>8. CASE c.pc # "register" /\ f = [c EXCEPT !.call = NoProc]
  BY <1>1, <1>2, <1>8 DEF Learns
<1>9. ASSUME c.pc = "register", NEW id \in Ids \cup {NoId}, id # NoId => BelongsNext(id, l),
             f = [c EXCEPT !.pc = "approval", !.id = id, !.call = NoProc, !.since = now]
      PROVE  Learns(l, e, f)
  <2>1. f = [e EXCEPT !.pc = "approval", !.id = id, !.call = NoProc, !.since = now]
    BY <1>3, <1>9
  <2> QED
    BY <1>1, <1>9, <2>1 DEF Learns
<1>10. CASE /\ c.pc # "register" /\ c.id \in labelled
            /\ f = [c EXCEPT !.pc = "upload", !.call = NoProc]
  BY <1>1, <1>4, <1>10 DEF Learns
<1>11. ASSUME c.pc = "approval", c.id \in Ids, NEW t \in Tokens, NEW pc \in Installing,
              secrets[t].node = c.id, pc = "toolkit" => c.need,
              f = [c EXCEPT !.pc = pc, !.token = t, !.call = NoProc]
       PROVE  Learns(l, e, f)
  <2>1. f = [e EXCEPT !.pc = pc, !.token = t, !.call = NoProc]
    BY <1>5, <1>11
  <2>2. secrets[t].node = e.id /\ (pc = "toolkit" => e.need)
    BY <1>1, <1>11
  <2> QED
    BY <1>1, <1>11, <2>1, <2>2 DEF Learns
<1> QED
  BY <1>6, <1>7, <1>8, <1>9, <1>10, <1>11 DEF Learns

(* A call that its handler is still at is still served.                     *)
LEMMA ServedStays ==
  ASSUME ProgramInv, Next \/ PanelRests, NEW l \in Laptops, engine[l].call # NoProc,
         proc'[engine[l].call] = proc[engine[l].call]
  PROVE  ServedNext(l, engine[l])
<1>1. \A id : Belongs(id, l) => BelongsNext(id, l)
  <2>1. CASE Next
    BY <2>1, BelongsStays DEF ProgramInv
  <2>2. CASE PanelRests
    BY <2>2 DEF PanelRests, storeVars, Belongs, BelongsNext
  <2> QED
    BY <2>1, <2>2
<1> QED
  BY <1>1 DEF ProgramInv, CallsServed, ServedNext

(* An engine that hears a step of the panel that is not about its handler.  *)
LEMMA OthersWork ==
  ASSUME ProgramInv, Next, NEW l \in Laptops,
         engine[l].call # NoProc => proc'[engine[l].call] = proc[engine[l].call],
         Silent \/ answer'.to # engine[l].call,
         engine'[l] = IF engine[l].call # NoProc /\ engine[l].call = answer'.to
                      THEN Hear(engine[l], answer') ELSE engine[l]
  PROVE  Works(l)
<1>1. CASE engine[l].call # NoProc /\ engine[l].call = answer'.to
  <2>1. engine[l].pc \in {"register", "approval", "confirm"}
    BY <1>1 DEF ProgramInv, CallsServed
  <2>2. Tells(l, engine[l], answer')
    BY <1>1 DEF Silent, Tells
  <2>3. Learns(l, engine[l], engine'[l])
    BY <1>1, <2>1, <2>2, HearLearns
  <2> QED
    BY <2>1, <2>3 DEF Works, Waits
<1>2. CASE ~(engine[l].call # NoProc /\ engine[l].call = answer'.to)
  BY <1>2, ServedStays DEF Works
<1> QED
  BY <1>1, <1>2

LEMMA AskWorks ==
  ASSUME ProgramInv, NEW k \in Laptops, Ask(k), NEW l \in Laptops
  PROVE  Works(l)
<1>0. engine \in [Laptops -> Engines] /\ engine[l] \in Engines
  BY DEF ProgramInv, ProgramTypeOK
<1>1. PICK p \in Draw({q \in Procs : CanStart(q)}) :
        /\ IF engine[k].pc = "register" THEN Register(p, k)
           ELSE engine[k].id # NoId /\ Poll(p, engine[k].id)
        /\ engine' = Heard(CallWith(k, p))
  BY DEF Ask
<1>2. p \in Procs /\ p # NoProc
  BY <1>1, ProgramAssumption DEF Draw
<1>3. engine[k].id \in Ids \cup {NoId}
  BY DEF ProgramInv, ProgramTypeOK, Engines
<1>n. Next
  BY <1>1, <1>2, <1>3 DEF Next
<1>p. PanelInv
  BY DEF ProgramInv
<1>4. /\ proc[p].pc = "idle" /\ \A q \in Procs : q # p => proc'[q] = proc[q]
      /\ \/ Silent
         \/ proc' = proc /\ answer'.to = p
  BY <1>1, <1>2, <1>3, <1>p, RegisterAsks, PollAsks
<1>5. CASE l # k
  <2>1. engine'[l] = IF engine[l].call # NoProc /\ engine[l].call = answer'.to
                     THEN Hear(engine[l], answer') ELSE engine[l]
    BY <1>0, <1>1, <1>5 DEF Heard, CallWith
  <2>2. engine[l].call # NoProc => engine[l].call \in Procs /\ engine[l].call # p
    BY <1>0, <1>4 DEF ProgramInv, CallsServed, Engines
  <2> QED
    BY <1>n, <1>2, <1>4, <2>1, <2>2, OthersWork
<1>6. CASE l = k
  <2> DEFINE c == [engine[l] EXCEPT !.call = p]
  <2>1. engine[l].call = NoProc /\ Waits(l)
    BY <1>6 DEF Ask
  <2>2. c.call = p /\ c.pc = engine[l].pc /\ c.id = engine[l].id
    BY <1>0 DEF Engines
  <2>3. engine'[l] = IF p = answer'.to THEN Hear(c, answer') ELSE c
    <3>1. CallWith(k, p)[l] = c
      BY <1>0, <1>6 DEF CallWith
    <3> HIDE DEF c
    <3> QED
      BY <1>1, <1>2, <2>2, <3>1 DEF Heard
  <2>4. /\ c.pc \in {"register", "approval", "confirm"}
        /\ c.pc = "register" => Register(p, l)
        /\ c.pc # "register" => engine[l].id # NoId /\ Poll(p, engine[l].id)
    BY <1>1, <1>6, <2>1, <2>2 DEF Waits
  <2> HIDE DEF c
  <2>5. CASE p = answer'.to
    <3>1. Tells(l, c, answer')
      <4>1. CASE Silent
        BY <4>1 DEF Silent, Tells
      <4>2. CASE c.pc = "register" /\ ~Silent
        BY <1>2, <1>p, <2>4, <4>2, RegisterAsks DEF Tells
      <4>3. CASE c.pc # "register" /\ ~Silent
        BY <1>2, <1>3, <1>6, <1>p, <2>4, <4>3, PollAsks DEF Tells
      <4> QED
        BY <4>1, <4>2, <4>3
    <3>2. Learns(l, c, engine'[l])
      BY <2>3, <2>4, <2>5, <3>1, HearLearns
    <3>3. Learns(l, engine[l], engine'[l])
      BY <1>0, <3>2, LearnsEither DEF c
    <3> QED
      BY <2>1, <3>3 DEF Works
  <2>6. CASE p # answer'.to
    <3>1. engine'[l] = c
      BY <2>3, <2>6
    <3>2. ServedNext(l, c)
      <4>1. CASE c.pc = "register"
        BY <1>2, <1>p, <2>2, <2>4, <2>6, <4>1, RegisterAsks DEF ServedNext
      <4>2. CASE c.pc # "register"
        BY <1>2, <1>3, <1>6, <1>p, <2>2, <2>4, <2>6, <4>2, PollAsks DEF ServedNext
      <4> QED
        BY <4>1, <4>2
    <3> QED
      BY <1>2, <2>1, <3>1, <3>2 DEF Works, c
  <2> QED
    BY <2>5, <2>6
<1> QED
  BY <1>5, <1>6

LEMMA HandlesWorks ==
  ASSUME ProgramInv, NEW p \in Procs, Handles(p), NEW l \in Laptops
  PROVE  Works(l)
<1>0. engine \in [Laptops -> Engines] /\ engine[l] \in Engines
  BY DEF ProgramInv, ProgramTypeOK
<1>p. PanelInv /\ Next
  BY DEF ProgramInv, Handles, Next
<1>1. /\ proc[p].pc # "idle" /\ \A q \in Procs : q # p => proc'[q] = proc[q]
      /\ \/ Silent /\ proc'[p].pc \in {"mint", "mark"} /\ proc'[p].id = proc[p].id
            /\ proc[p].pc \in {"expire", "mint"}
         \/ proc'[p] = Idle /\ Says(p)
  BY <1>p, ContinueSteps DEF Handles
<1>2. engine'[l] = IF engine[l].call # NoProc /\ engine[l].call = answer'.to
                   THEN Hear(engine[l], answer') ELSE engine[l]
  BY DEF Handles, Heard
<1>3. engine[l].call # NoProc => engine[l].call \in Procs
  BY <1>0 DEF Engines
<1>4. CASE engine[l].call # p
  BY <1>p, <1>1, <1>2, <1>3, <1>4, OthersWork DEF Says
<1>5. CASE engine[l].call = p
  <2>0. engine[l].call # NoProc
    BY <1>5, ProgramAssumption
  <2>1. \/ engine[l].pc = "register" /\ proc[p].pc = "autoApprove" /\ Belongs(proc[p].id, l)
        \/ /\ engine[l].pc \in {"approval", "confirm"}
           /\ proc[p].pc \in {"expire", "mint", "mark"} /\ proc[p].id = engine[l].id
    BY <1>5, <2>0 DEF ProgramInv, CallsServed
  <2>2. CASE answer'.to = p
    <3>1. Tells(l, engine[l], answer')
      <4>1. CASE Silent
        BY <4>1 DEF Silent, Tells
      <4>2. CASE Says(p) /\ engine[l].pc = "register"
        BY <1>p, <2>1, <4>2, BelongsStays DEF Says, RegisterSays, PollSays, Tells
      <4>3. CASE Says(p) /\ engine[l].pc # "register"
        <5>1. PollSays(answer', p) /\ proc[p].id = engine[l].id
          BY <2>1, <4>3 DEF Says, RegisterSays
        <5>2. engine[l].id \in Ids
          BY <1>p, <1>1, <5>1 DEF PanelInv, Inv, HandlersHaveRequest
        <5>3. proc[p].status = "joined" => engine[l].id \in labelled
          BY <1>1, <5>1 DEF ProgramInv, JoinedCopies
        <5>4. proc[p].pc = "mark" => /\ proc[p].token \in Tokens
                                     /\ secrets[proc[p].token].node = engine[l].id
          BY <1>p, <5>1 DEF PanelInv, Inv, MarkersHaveSecret
        <5> QED
          BY <4>3, <5>1, <5>2, <5>3, <5>4 DEF PollSays, Tells
      <4> QED
        BY <1>1, <4>1, <4>2, <4>3
    <3>2. Learns(l, engine[l], engine'[l])
      BY <1>2, <1>5, <2>0, <2>1, <2>2, <3>1, HearLearns
    <3> QED
      BY <2>1, <3>2 DEF Works, Waits
  <2>3. CASE answer'.to # p
    <3>1. engine'[l] = engine[l]
      BY <1>2, <1>5, <2>3
    <3>2. ServedNext(l, engine[l])
      BY <1>1, <1>5, <2>1, <2>3 DEF Says, ServedNext
    <3> QED
      BY <3>1, <3>2 DEF Works
  <2> QED
    BY <2>2, <2>3
<1> QED
  BY <1>4, <1>5

(* What a step may do to the laptop itself.                                 *)
Fits(l) ==
  /\ hw' = hw
  /\ agent'[l] = agent[l] \/ (engine[l].pc = "agent" /\ agent'[l] = engine[l].token)
  /\ l \in toolkit' => l \in toolkit \/ engine[l].pc = "toolkit"

LEMMA LaptopSteps ==
  ASSUME ProgramTypeOK, [OnboardingNext]_onboardingVars, NEW l \in Laptops
  PROVE  Fits(l)
<1>0. agent \in [Laptops -> Tokens \cup {NoToken}]
  BY DEF ProgramTypeOK
<1>1. CASE UNCHANGED laptopVars
  BY <1>1 DEF laptopVars, Fits
<1>2. ASSUME NEW k \in Laptops, Quit(k)
      PROVE  Fits(l)
  BY <1>0, <1>2 DEF Quit, Fits
<1>3. ASSUME NEW k \in Laptops, InstallsToolkit(k)
      PROVE  Fits(l)
  BY <1>3 DEF InstallsToolkit, Fits
<1>4. ASSUME NEW k \in Laptops, InstallsAgent(k)
      PROVE  Fits(l)
  BY <1>0, <1>4 DEF InstallsAgent, Fits
<1>5. ASSUME NEW k \in Laptops,
             Launch(k) \/ Press(k) \/ ShowDone(k) \/ GiveUp(k) \/ LaptopJoins(k) \/ Refused(k)
               \/ TimesOut(k) \/ Uploads(k) \/ Ask(k)
      PROVE  UNCHANGED laptopVars
  BY <1>5 DEF Launch, Press, ShowDone, GiveUp, LaptopJoins, Refused, TimesOut, Uploads, Ask,
              programVars
<1>6. CASE PanelCrash \/ (Panel /\ UNCHANGED programVars) \/ UNCHANGED onboardingVars
             \/ \E p \in Procs : Handles(p)
  BY <1>1, <1>6 DEF PanelCrash, Handles, programVars, onboardingVars
<1> QED
  BY <1>1, <1>2, <1>3, <1>4, <1>5, <1>6 DEF OnboardingNext, EngineSteps

(* What its user may do; the engine is launched by Update or by nobody.     *)
Uses(l) == Launch(l) \/ Press(l) \/ ShowDone(l) \/ Quit(l)

(* The step leaves a laptop's screen alone.                                 *)
ScreenRests(l) == tui'[l] = tui[l] /\ (l \in consented' <=> l \in consented)

LEMMA ProgramSteps ==
  ASSUME ProgramInv, [OnboardingNext]_onboardingVars, NEW l \in Laptops
  PROVE  Uses(l) \/ (ScreenRests(l) /\ Works(l))
<1>0. /\ engine \in [Laptops -> Engines] /\ tui \in [Laptops -> Tuis]
      /\ engine[l].call # NoProc => engine[l].call \in Procs
  BY DEF ProgramInv, ProgramTypeOK, Engines
<1>n. Next \/ PanelRests
  BY PanelSteps DEF ProgramInv
<1>1. CASE engine'[l] = engine[l] /\ proc' = proc /\ ScreenRests(l)
  BY <1>1, <1>n, ServedStays DEF Works
<1>2. ASSUME NEW k \in Laptops, k # l, Launch(k) \/ Press(k) \/ ShowDone(k) \/ Quit(k)
      PROVE  engine'[l] = engine[l] /\ proc' = proc /\ ScreenRests(l)
  BY <1>0, <1>2 DEF Launch, Press, ShowDone, Quit, Update, ScreenRests
<1>3. ASSUME NEW k \in Laptops,
             GiveUp(k) \/ Refused(k) \/ TimesOut(k) \/ InstallsToolkit(k) \/ InstallsAgent(k)
               \/ Uploads(k)
      PROVE  proc' = proc /\ ScreenRests(l) /\ (k # l => engine'[l] = engine[l])
  BY <1>0, <1>3 DEF GiveUp, Refused, TimesOut, InstallsToolkit, InstallsAgent, Uploads,
                    tuiVars, ScreenRests
<1>4. ASSUME GiveUp(l) \/ Refused(l)
      PROVE  Works(l)
  <2>1. engine'[l] = Lost(engine[l])
    BY <1>0, <1>4 DEF GiveUp, Refused
  <2>2. engine[l].pc \in {"register", "approval", "confirm"}
    BY <1>4 DEF GiveUp, Refused, ProgramInv, CallsServed
  <2> QED
    BY <2>1, <2>2, LostLearns DEF Works, Waits
<1>5. ASSUME TimesOut(l)
      PROVE  Works(l)
  BY <1>0, <1>5 DEF TimesOut, DeadlinePassed, Works
<1>6. ASSUME InstallsToolkit(l)
      PROVE  Works(l)
  BY <1>0, <1>6 DEF InstallsToolkit, Works, Installing
<1>7. ASSUME InstallsAgent(l)
      PROVE  Works(l)
  BY <1>0, <1>7 DEF InstallsAgent, Works, Installing
<1>8. ASSUME Uploads(l)
      PROVE  Works(l)
  BY <1>0, <1>8 DEF Uploads, Works
<1>9. ASSUME NEW k \in Laptops, Ask(k)
      PROVE  ScreenRests(l) /\ Works(l)
  BY <1>9, AskWorks DEF Ask, tuiVars, ScreenRests
<1>10. ASSUME NEW p \in Procs, Handles(p)
       PROVE  ScreenRests(l) /\ Works(l)
  BY <1>10, HandlesWorks DEF Handles, tuiVars, ScreenRests
<1>11. ASSUME PanelCrash
       PROVE  ScreenRests(l) /\ Works(l)
  <2>1. engine'[l] = IF engine[l].call = NoProc THEN engine[l] ELSE Lost(engine[l])
    BY <1>11 DEF PanelCrash
  <2>2. engine[l].call # NoProc => engine[l].pc \in {"register", "approval", "confirm"}
    BY DEF ProgramInv, CallsServed
  <2>3. Works(l)
    BY <2>1, <2>2, LostLearns DEF Works, Waits
  <2> QED
    BY <1>11, <2>3 DEF PanelCrash, tuiVars, ScreenRests
<1>12. ASSUME \/ Panel /\ UNCHANGED programVars
              \/ UNCHANGED onboardingVars
              \/ \E k \in Laptops : LaptopJoins(k)
       PROVE  engine'[l] = engine[l] /\ proc' = proc /\ ScreenRests(l)
  BY <1>12 DEF Panel, LaptopJoins, AgentJoins, Approve, Deny, NodeReady, NodeUnready, Watch,
               WatcherTick, WatcherLooks, WatcherMisses, WatcherLabels, WatcherMarks, Boot,
               Tick, onboardingVars, vars, programVars, tuiVars, ScreenRests
<1> QED
  BY <1>1, <1>2, <1>3, <1>4, <1>5, <1>6, <1>7, <1>8, <1>9, <1>10, <1>11, <1>12
  DEF OnboardingNext, EngineSteps, Uses

-----------------------------------------------------------------------------
(* The program keeps its types *)

Pcs == {"off", "register", "approval", "confirm", "upload"} \cup Ended \cup Installing

AnyEngines ==
  [pc : Pcs, id : Ids \cup {NoId}, token : Tokens \cup {NoToken}, need : BOOLEAN,
   call : Procs \cup {NoProc}, since : 0..MaxTime]

LEMMA EngineTypes ==
  ASSUME NEW e
  PROVE  e \in Engines <=>
           /\ e \in AnyEngines
           /\ e.pc \in Installing => e.id \in Ids /\ e.token \in Tokens /\ e.call = NoProc
<1>1. ASSUME e \in Engines
      PROVE  /\ e \in AnyEngines
             /\ e.pc \in Installing => e.id \in Ids /\ e.token \in Tokens /\ e.call = NoProc
  BY <1>1 DEF Engines, AnyEngines, Pcs, Installing, Ended
<1>2. ASSUME e \in AnyEngines, e.pc \notin Installing
      PROVE  e \in Engines
  BY <1>2 DEF Engines, AnyEngines, Pcs, Installing, Ended
<1>3. ASSUME e \in AnyEngines, e.pc \in Installing, e.id \in Ids, e.token \in Tokens,
             e.call = NoProc
      PROVE  e \in Engines
  BY <1>3 DEF Engines, AnyEngines, Pcs, Installing, Ended
<1> QED
  BY <1>1, <1>2, <1>3

LEMMA LearnsTypes ==
  ASSUME TypeOK, NEW l \in Laptops, NEW e \in Engines, NEW f, Learns(l, e, f),
         e.pc \in {"register", "approval", "confirm"}
  PROVE  f \in Engines
<1>0. e \in AnyEngines /\ now \in 0..MaxTime
  BY EngineTypes DEF TypeOK
<1>p. /\ \A pc \in {"failed", "approval", "upload", "toolkit", "agent"} : pc \in Pcs
      /\ \A pc \in {"failed", "approval", "upload", "register", "confirm"} : pc \notin Installing
  BY DEF Pcs, Ended, Installing
<1>1. CASE f = Failed(e)
  <2>1. f \in AnyEngines /\ f.pc = "failed"
    BY <1>0, <1>1, <1>p DEF Failed, AnyEngines
  <2> QED
    BY <1>p, <2>1, EngineTypes
<1>2. CASE f = [e EXCEPT !.call = NoProc]
  <2>1. f \in AnyEngines /\ f.pc = e.pc
    BY <1>0, <1>2 DEF AnyEngines
  <2> QED
    BY <1>p, <2>1, EngineTypes
<1>3. ASSUME NEW id \in Ids \cup {NoId},
             f = [e EXCEPT !.pc = "approval", !.id = id, !.call = NoProc, !.since = now]
      PROVE  f \in Engines
  <2>1. f \in AnyEngines /\ f.pc = "approval"
    BY <1>0, <1>3, <1>p DEF AnyEngines
  <2> QED
    BY <1>p, <2>1, EngineTypes
<1>4. CASE f = [e EXCEPT !.pc = "upload", !.call = NoProc]
  <2>1. f \in AnyEngines /\ f.pc = "upload"
    BY <1>0, <1>4, <1>p DEF AnyEngines
  <2> QED
    BY <1>p, <2>1, EngineTypes
<1>5. ASSUME NEW t \in Tokens, NEW pc \in Installing, e.id \in Ids,
             f = [e EXCEPT !.pc = pc, !.token = t, !.call = NoProc]
      PROVE  f \in Engines
  <2>0. pc \in Pcs
    BY DEF Pcs
  <2>1. f \in AnyEngines /\ f.token = t /\ f.call = NoProc /\ f.id = e.id
    BY <1>0, <1>5, <2>0 DEF AnyEngines
  <2> QED
    BY <1>5, <2>1, EngineTypes
<1> QED
  BY <1>1, <1>2, <1>3, <1>4, <1>5 DEF Learns

LEMMA WorksTypes ==
  ASSUME TypeOK, NEW l \in Laptops, engine[l] \in Engines, Works(l)
  PROVE  engine'[l] \in Engines
<1> DEFINE e == engine[l]
<1>0. e \in AnyEngines /\ now \in 0..MaxTime /\ e \in Engines
  BY EngineTypes DEF TypeOK
<1>i. e.pc \in Installing => e.id \in Ids /\ e.token \in Tokens /\ e.call = NoProc
  BY <1>0, EngineTypes
<1>p. /\ \A pc \in {"failed", "agent", "confirm", "done"} : pc \in Pcs
      /\ \A pc \in {"failed", "confirm", "done", "register", "approval"} : pc \notin Installing
      /\ Installing = {"toolkit", "agent"}
  BY DEF Pcs, Ended, Installing
<1>1. ASSUME NEW p \in Procs, Waits(l), engine'[l] = [e EXCEPT !.call = p]
      PROVE  engine'[l] \in Engines
  <2>1. engine'[l] \in AnyEngines /\ engine'[l].pc = e.pc
    BY <1>0, <1>1 DEF AnyEngines
  <2> QED
    BY <1>1, <1>p, <2>1, EngineTypes DEF Waits
<1>2. CASE Waits(l) /\ Learns(l, e, engine'[l])
  BY <1>0, <1>2, LearnsTypes DEF Waits
<1>3. CASE engine'[l] = Failed(e)
  <2>1. engine'[l] \in AnyEngines /\ engine'[l].pc = "failed"
    BY <1>0, <1>3, <1>p DEF Failed, AnyEngines
  <2> QED
    BY <1>p, <2>1, EngineTypes
<1>4. CASE e.pc = "toolkit" /\ engine'[l] = [e EXCEPT !.pc = "agent"]
  <2>1. /\ engine'[l] \in AnyEngines /\ engine'[l].id = e.id /\ engine'[l].token = e.token
        /\ engine'[l].call = e.call
    BY <1>0, <1>4, <1>p DEF AnyEngines
  <2> QED
    BY <1>i, <1>p, <1>4, <2>1, EngineTypes
<1>5. CASE engine'[l] = [e EXCEPT !.pc = "confirm", !.since = now]
  <2>1. engine'[l] \in AnyEngines /\ engine'[l].pc = "confirm"
    BY <1>0, <1>5, <1>p DEF AnyEngines
  <2> QED
    BY <1>p, <2>1, EngineTypes
<1>6. CASE engine'[l] = [e EXCEPT !.pc = "done"]
  <2>1. engine'[l] \in AnyEngines /\ engine'[l].pc = "done"
    BY <1>0, <1>6, <1>p DEF AnyEngines
  <2> QED
    BY <1>p, <2>1, EngineTypes
<1> QED
  BY <1>0, <1>1, <1>2, <1>3, <1>4, <1>5, <1>6 DEF Works

(* What becomes of an engine that runs, field by field.                     *)
Follows(l, e, f) ==
  /\ e.pc = "off" => f.pc = "off"
  /\ Stage(e.pc) <= Stage(f.pc)
  /\ f.need = e.need
  /\ f.pc = "toolkit" => e.pc = "toolkit" \/ e.need
  /\ \/ f.id = e.id
     \/ e.pc = "register" /\ f.token = e.token /\ (f.id # NoId => BelongsNext(f.id, l))
  /\ \/ f.token = e.token
     \/ f.id = e.id /\ e.id \in Ids /\ f.token \in Tokens /\ secrets[f.token].node = e.id
  /\ f.pc \in {"upload", "done"} =>
       f.id = e.id /\ (e.pc \in {"upload", "done"} \/ e.id \in labelled)
  /\ f.call # NoProc => ServedNext(l, f)
  /\ f.pc = "register" => e.pc = "register" /\ f.token = e.token

LEMMA StagesAre ==
  /\ Stage("off") = 0 /\ Stage("register") = 1 /\ Stage("approval") = 2
  /\ Stage("toolkit") = 3 /\ Stage("agent") = 4 /\ Stage("confirm") = 5
  /\ Stage("upload") = 6 /\ Stage("done") = 7 /\ Stage("failed") = 7
BY DEF Stage, Ended

LEMMA StagesEnd ==
  ASSUME NEW e \in AnyEngines
  PROVE  Stage(e.pc) \in 0..7
<1>1. e.pc \in {"off", "register", "approval", "confirm", "upload", "done", "failed",
                "toolkit", "agent"}
  BY DEF AnyEngines, Pcs, Ended, Installing
<1> QED
  BY <1>1, StagesAre

LEMMA LearnsFollows ==
  ASSUME NEW l \in Laptops, NEW e \in Engines, NEW f, Learns(l, e, f),
         e.pc \in {"register", "approval", "confirm"}, e.pc = "register" => e.token = NoToken
  PROVE  Follows(l, e, f)
<1>0. e \in AnyEngines /\ Stage(e.pc) \in 0..7
  BY EngineTypes, StagesEnd
<1>1. CASE f = Failed(e)
  <2>1. /\ f.pc = "failed" /\ f.id = e.id /\ f.token = e.token /\ f.need = e.need
        /\ f.call = NoProc
    BY <1>0, <1>1 DEF Failed, AnyEngines
  <2> QED
    BY <1>0, <2>1, StagesAre DEF Follows
<1>2. CASE e.pc # "register" /\ f = [e EXCEPT !.call = NoProc]
  <2>1. /\ f.pc = e.pc /\ f.id = e.id /\ f.token = e.token /\ f.need = e.need
        /\ f.call = NoProc
    BY <1>0, <1>2 DEF AnyEngines
  <2> QED
    BY <1>0, <2>1, StagesAre DEF Follows
<1>3. ASSUME e.pc = "register", NEW id \in Ids \cup {NoId}, id # NoId => BelongsNext(id, l),
             f = [e EXCEPT !.pc = "approval", !.id = id, !.call = NoProc, !.since = now]
      PROVE  Follows(l, e, f)
  <2>1. /\ f.pc = "approval" /\ f.id = id /\ f.token = e.token /\ f.need = e.need
        /\ f.call = NoProc
    BY <1>0, <1>3 DEF AnyEngines
  <2> QED
    BY <1>0, <1>3, <2>1, StagesAre DEF Follows
<1>4. CASE /\ e.pc # "register" /\ e.id \in labelled
           /\ f = [e EXCEPT !.pc = "upload", !.call = NoProc]
  <2>1. /\ f.pc = "upload" /\ f.id = e.id /\ f.token = e.token /\ f.need = e.need
        /\ f.call = NoProc
    BY <1>0, <1>4 DEF AnyEngines
  <2> QED
    BY <1>0, <1>4, <2>1, StagesAre DEF Follows
<1>5. ASSUME e.pc = "approval", e.id \in Ids, NEW t \in Tokens, NEW pc \in Installing,
             secrets[t].node = e.id, pc = "toolkit" => e.need,
             f = [e EXCEPT !.pc = pc, !.token = t, !.call = NoProc]
      PROVE  Follows(l, e, f)
  <2>1. /\ f.pc = pc /\ f.id = e.id /\ f.token = t /\ f.need = e.need
        /\ f.call = NoProc
    BY <1>0, <1>5 DEF AnyEngines
  <2>2. pc = "toolkit" \/ pc = "agent"
    BY DEF Installing
  <2> QED
    BY <1>0, <1>5, <2>1, <2>2, StagesAre DEF Follows
<1> QED
  BY <1>1, <1>2, <1>3, <1>4, <1>5 DEF Learns

LEMMA WorksFollows ==
  ASSUME NEW l \in Laptops, engine[l] \in Engines, Works(l),
         engine[l].pc = "register" => engine[l].token = NoToken,
         engine[l].pc = "upload" => engine[l].call = NoProc
  PROVE  Follows(l, engine[l], engine'[l])
<1> DEFINE e == engine[l]
           f == engine'[l]
<1>0. e \in Engines /\ e \in AnyEngines /\ Stage(e.pc) \in 0..7
  BY EngineTypes, StagesEnd
<1> SUFFICES Follows(l, e, f)
  OBVIOUS
<1>i. e.pc \in Installing => e.call = NoProc
  BY <1>0, EngineTypes
<1>1. CASE f = e /\ (e.call # NoProc => ServedNext(l, e))
  BY <1>0, <1>1 DEF Follows
<1>2. ASSUME NEW p \in Procs, f = [e EXCEPT !.call = p], ServedNext(l, f), Waits(l)
      PROVE  Follows(l, e, f)
  <2>1. /\ f.pc = e.pc /\ f.id = e.id /\ f.token = e.token /\ f.need = e.need
    BY <1>0, <1>2 DEF AnyEngines
  <2> HIDE DEF f, e
  <2> QED
    BY <1>0, <1>2, <2>1 DEF Follows, Waits, e
<1>3. CASE Waits(l) /\ Learns(l, e, f)
  BY <1>0, <1>3, LearnsFollows DEF Waits
<1>4. CASE e.pc \in {"approval", "confirm"} \cup Installing /\ f = Failed(e)
  <2>1. /\ f.pc = "failed" /\ f.id = e.id /\ f.token = e.token /\ f.need = e.need
        /\ f.call = NoProc
    BY <1>0, <1>4 DEF Failed, AnyEngines
  <2>2. e.pc # "off"
    BY <1>4 DEF Installing
  <2> HIDE DEF f, e
  <2> QED
    BY <1>0, <2>1, <2>2, StagesAre DEF Follows
<1>5. CASE e.pc = "toolkit" /\ f = [e EXCEPT !.pc = "agent"]
  <2>1. /\ f.pc = "agent" /\ f.id = e.id /\ f.token = e.token /\ f.need = e.need
        /\ f.call = NoProc
    BY <1>0, <1>i, <1>5 DEF AnyEngines, Installing
  <2> HIDE DEF f, e
  <2> QED
    BY <1>0, <1>5, <2>1, StagesAre DEF Follows
<1>6. CASE e.pc = "agent" /\ f = [e EXCEPT !.pc = "confirm", !.since = now]
  <2>1. /\ f.pc = "confirm" /\ f.id = e.id /\ f.token = e.token /\ f.need = e.need
        /\ f.call = NoProc
    BY <1>0, <1>i, <1>6 DEF AnyEngines, Installing
  <2> HIDE DEF f, e
  <2> QED
    BY <1>0, <1>6, <2>1, StagesAre DEF Follows
<1>7. ASSUME e.pc = "upload", f = [e EXCEPT !.pc = "done"], e.call = NoProc
      PROVE  Follows(l, e, f)
  <2>1. /\ f.pc = "done" /\ f.id = e.id /\ f.token = e.token /\ f.need = e.need
        /\ f.call = NoProc
    BY <1>0, <1>7 DEF AnyEngines
  <2> HIDE DEF f, e
  <2> QED
    BY <1>0, <1>7, <2>1, StagesAre DEF Follows
<1> QED
  BY <1>1, <1>2, <1>3, <1>4, <1>5, <1>6, <1>7 DEF Works

-----------------------------------------------------------------------------
(* The screens *)

(* Screen, engine and consent of a laptop: an engine runs behind the last   *)
(* two screens, which are reached without a red row and take the client     *)
(* away, and it installs the toolkit by consent.                            *)
Guarded(h, t, e, consent) ==
  /\ e.pc # "off" => t.screen \in {"join", "done"}
  /\ t.client => e.pc = "off"
  /\ t.screen \in {"join", "done"} => ~t.client
  /\ t.screen \in {"confirm", "join", "done"} => ~t.red
  /\ t.screen # "off" /\ ~t.red => Qualify(Probed(h, t.online)) = "Host"
  /\ e.need => consent
  /\ e.pc = "toolkit" => e.need

ScreensGuard ==
  \A l \in Laptops : Guarded(hw[l], tui[l], engine[l], l \in consented)

(* An engine that is off or has just been launched.                         *)
Fresh(f) ==
  /\ f \in Engines /\ f.id = NoId /\ f.token = NoToken /\ f.call = NoProc
  /\ f.pc \in {"off", "register"}

LEMMA FreshEngines ==
  /\ Fresh(NotRun) /\ NotRun.pc = "off" /\ NotRun.need = FALSE
  /\ \A need \in BOOLEAN :
       LET f == [NotRun EXCEPT !.pc = "register", !.need = need] IN
       Fresh(f) /\ f.pc = "register" /\ f.need = need
<1>1. 0 \in 0..MaxTime
  BY TimeAssumption
<1>2. NotRun \in AnyEngines /\ NotRun.pc = "off"
  BY <1>1 DEF NotRun, AnyEngines, Pcs
<1>3. ASSUME NEW need \in BOOLEAN
      PROVE  /\ [NotRun EXCEPT !.pc = "register", !.need = need] \in AnyEngines
             /\ [NotRun EXCEPT !.pc = "register", !.need = need].pc = "register"
  BY <1>1 DEF NotRun, AnyEngines, Pcs
<1>4. "off" \notin Installing /\ "register" \notin Installing
  BY DEF Installing
<1> QED
  BY <1>2, <1>3, <1>4, EngineTypes DEF Fresh, NotRun

(* Update, for a model that went to another screen.                         *)
LEMMA UpdateSays ==
  ASSUME ProgramTypeOK, NEW l \in Laptops, NEW t \in Tuis, Update(l, t)
  PROVE  /\ tui'[l] \in Tuis /\ tui'[l].screen = t.screen /\ tui'[l].red = t.red
         /\ tui'[l].online = t.online /\ (tui'[l].client <=> t.client /\ ~Starts(t))
         /\ Starts(t) => /\ Fresh(engine'[l]) /\ engine'[l].pc = "register"
                         /\ engine'[l].need = t.need
         /\ ~Starts(t) => engine'[l] = engine[l]
<1>0. tui \in [Laptops -> Tuis] /\ engine \in [Laptops -> Engines]
  BY DEF ProgramTypeOK
<1>1. t.need \in BOOLEAN /\ t.client \in BOOLEAN
  BY DEF Tuis
<1>2. CASE Starts(t)
  <2> DEFINE u == [t EXCEPT !.client = FALSE]
  <2>1. u \in Tuis /\ u.screen = t.screen /\ u.red = t.red /\ u.online = t.online
        /\ u.client = FALSE
    BY DEF Tuis
  <2> HIDE DEF u
  <2>2. tui'[l] = u /\ engine'[l] = [NotRun EXCEPT !.pc = "register", !.need = t.need]
    BY <1>0, <1>2 DEF Update, u
  <2> QED
    BY <1>1, <1>2, <2>1, <2>2, FreshEngines
<1>3. CASE ~Starts(t)
  BY <1>0, <1>3 DEF Update
<1> QED
  BY <1>2, <1>3

LEMMA UpdateGuarded ==
  ASSUME ProgramTypeOK, NEW l \in Laptops, NEW t \in Tuis, Update(l, t),
         Guarded(hw[l], tui[l], engine[l], l \in consented), tui[l].screen # "off",
         t.red = tui[l].red, t.online = tui[l].online, t.client = tui[l].client,
         t.screen \in {"confirm", "join", "done"} => ~t.red,
         engine[l].pc # "off" => t.screen \in {"join", "done"},
         Starts(t) /\ t.need => l \in consented',
         l \in consented => l \in consented'
  PROVE  Guarded(hw[l], tui'[l], engine'[l], l \in consented')
<1>1. t.client \in BOOLEAN
  BY DEF Tuis
<1>2. Starts(t) <=> t.screen \in {"join", "done"} /\ t.client
  BY DEF Starts
<1>3. t.client => engine[l].pc = "off"
  BY DEF Guarded
<1>4. CASE Starts(t)
  BY <1>1, <1>2, <1>4, UpdateSays DEF Guarded
<1>5. CASE ~Starts(t)
  BY <1>1, <1>2, <1>3, <1>5, UpdateSays DEF Guarded
<1> QED
  BY <1>4, <1>5

(* What a user's step makes of screen and engine.                           *)
LEMMA UsesGuarded ==
  ASSUME ProgramTypeOK, NEW l \in Laptops, Uses(l),
         Guarded(hw[l], tui[l], engine[l], l \in consented)
  PROVE  /\ tui'[l] \in Tuis /\ Guarded(hw[l], tui'[l], engine'[l], l \in consented')
         /\ engine'[l] = engine[l] \/ Fresh(engine'[l])
         /\ tui'[l].screen # "off" =>
              engine'[l] = engine[l] \/ (engine[l].pc = "off" /\ engine'[l].pc = "register")
<1> DEFINE s == tui[l]
<1>0. /\ tui \in [Laptops -> Tuis] /\ s \in Tuis /\ engine \in [Laptops -> Engines]
      /\ hw[l] \in Hardware
  BY ProgramAssumption DEF ProgramTypeOK
<1>g. s.client => engine[l].pc = "off"
  BY DEF Guarded
<1>u. ASSUME NEW t \in Tuis, Update(l, t), t.client = s.client,
             Guarded(hw[l], tui'[l], engine'[l], l \in consented')
      PROVE  /\ tui'[l] \in Tuis
             /\ engine'[l] = engine[l] \/ Fresh(engine'[l])
             /\ engine'[l] = engine[l] \/ (engine[l].pc = "off" /\ engine'[l].pc = "register")
  BY <1>g, <1>u, UpdateSays DEF Starts
<1>1. CASE Launch(l)
  <2>1. PICK hasMaster, online, test \in BOOLEAN :
          /\ Discovered(hasMaster, online)
          /\ tui' = [tui EXCEPT ![l] =
               [screen |-> "checks", online |-> online, client |-> TRUE,
                red |-> HasRed(CheckRows(hw[l], hasMaster, online)),
                need |-> hw[l].GPU /\ l \notin toolkit /\ ~test]]
    BY <1>1 DEF Launch
  <2> DEFINE red == HasRed(CheckRows(hw[l], hasMaster, online))
             need == hw[l].GPU /\ l \notin toolkit /\ ~test
             t == [screen |-> "checks", online |-> online, client |-> TRUE, red |-> red,
                   need |-> need]
  <2>2. red \in BOOLEAN /\ need \in BOOLEAN
    BY DEF HasRed
  <2>3. tui'[l] = t
    BY <1>0, <2>1
  <2>4. ~red => Qualify(Probed(hw[l], online)) = "Host"
    BY <1>0, <2>1, RowsAgree DEF Discovered
  <2> HIDE DEF red, need
  <2>5. t \in Tuis
    BY <2>2 DEF Tuis
  <2>6. engine'[l] = engine[l] /\ s.screen = "off" /\ consented' = consented
    BY <1>1 DEF Launch
  <2>7. engine[l].pc = "off" /\ (engine[l].need => l \in consented)
    BY <2>6 DEF Guarded
  <2>8. Guarded(hw[l], t, engine[l], l \in consented)
    BY <2>4, <2>7 DEF Guarded
  <2> QED
    BY <2>3, <2>5, <2>6, <2>8
<1>2. ASSUME NEW screen \in {"checks", "fix", "confirm", "join", "done"}
      PROVE  LET t == [s EXCEPT !.screen = screen] IN
             /\ t \in Tuis /\ t.screen = screen /\ t.red = s.red /\ t.online = s.online
             /\ t.client = s.client /\ t.need = s.need
  BY <1>0 DEF Tuis
<1>3. ASSUME NEW t \in Tuis, Update(l, t), s.screen # "off",
             t.red = s.red, t.online = s.online, t.client = s.client,
             t.screen \in {"confirm", "join", "done"} => ~t.red,
             engine[l].pc # "off" => t.screen \in {"join", "done"},
             Starts(t) /\ t.need => l \in consented',
             l \in consented => l \in consented'
      PROVE  /\ tui'[l] \in Tuis /\ Guarded(hw[l], tui'[l], engine'[l], l \in consented')
             /\ engine'[l] = engine[l] \/ Fresh(engine'[l])
             /\ engine'[l] = engine[l] \/ (engine[l].pc = "off" /\ engine'[l].pc = "register")
  BY <1>u, <1>3, UpdateGuarded
<1>o. s.screen \in {"checks", "fix", "confirm"} => engine[l].pc = "off"
  BY DEF Guarded
<1>4. CASE Press(l)
  <2>1. CASE s.screen = "checks" /\ s.red /\ Update(l, [s EXCEPT !.screen = "fix"])
             /\ UNCHANGED consented
    BY <1>o, <1>2, <1>3, <2>1 DEF Starts
  <2>2. CASE s.screen = "fix" /\ Update(l, [s EXCEPT !.screen = "checks"])
             /\ UNCHANGED consented
    BY <1>o, <1>2, <1>3, <2>2 DEF Starts
  <2>3. CASE /\ s.screen = "checks" /\ ~s.red /\ UNCHANGED consented
             /\ Update(l, [s EXCEPT !.screen = IF s.need THEN "confirm" ELSE "join"])
    BY <1>o, <1>2, <1>3, <2>3 DEF Starts
  <2>4. CASE s.screen = "confirm"
    <3>0. ~s.red
      BY <2>4 DEF Guarded
    <3>1. CASE Update(l, [s EXCEPT !.screen = "join"]) /\ consented' = consented \cup {l}
      BY <1>o, <1>2, <1>3, <2>4, <3>0, <3>1 DEF Starts
    <3>2. CASE Update(l, Declined(s)) /\ UNCHANGED consented
      <4>1. LET t == Declined(s) IN
            /\ t \in Tuis /\ t.screen = "join" /\ t.red = s.red /\ t.online = s.online
            /\ t.client = s.client /\ t.need = FALSE
        BY <1>0 DEF Tuis, Declined
      <4> QED
        BY <1>o, <1>3, <2>4, <3>0, <3>2, <4>1 DEF Starts
    <3>3. CASE Update(l, [s EXCEPT !.screen = "checks"]) /\ UNCHANGED consented
      BY <1>o, <1>2, <1>3, <2>4, <3>3 DEF Starts
    <3> QED
      BY <1>4, <2>4, <3>1, <3>2, <3>3 DEF Press
  <2> QED
    BY <1>4, <2>1, <2>2, <2>3, <2>4 DEF Press
<1>5. CASE ShowDone(l)
  <2>1. /\ s.screen = "join" /\ Update(l, [s EXCEPT !.screen = "done"])
        /\ consented' = consented
    BY <1>5 DEF ShowDone
  <2>2. ~s.red /\ ~s.client
    BY <2>1 DEF Guarded
  <2> QED
    BY <1>2, <1>3, <2>1, <2>2 DEF Starts
<1>6. CASE Quit(l)
  <2>1. tui'[l] = Closed /\ engine'[l] = NotRun
    BY <1>0, <1>6 DEF Quit
  <2>2. Closed \in Tuis /\ Closed.screen = "off" /\ ~Closed.client
    BY DEF Closed, Tuis
  <2>3. Guarded(hw[l], Closed, NotRun, l \in consented')
    BY <2>2, FreshEngines DEF Guarded
  <2> QED
    BY <2>1, <2>2, <2>3, FreshEngines
<1> QED
  BY <1>1, <1>4, <1>5, <1>6 DEF Uses

-----------------------------------------------------------------------------
(* The invariant is inductive *)

(* An engine that registers has no token yet.                               *)
NewEnginesHaveNone ==
  \A l \in Laptops : engine[l].pc = "register" => engine[l].token = NoToken

OnboardingInv == ProgramInv /\ ScreensGuard /\ NewEnginesHaveNone

LEMMA PanelStays ==
  ASSUME OnboardingInv, [OnboardingNext]_onboardingVars
  PROVE  /\ PanelInv'
         /\ \A l \in Laptops, id \in Ids : Belongs(id, l) => BelongsNext(id, l)
         /\ \A t \in Tokens : secrets[t].node # NoId => secrets'[t].node = secrets[t].node
         /\ labelled \subseteq labelled'
         /\ \A id \in Ids : cluster[id] # "none" => cluster'[id] # "none"
<1>p. PanelInv /\ ProgramTypeOK /\ Setting
  BY DEF OnboardingInv, ProgramInv, PanelInv, Inv, Setting
<1>1. CASE Next
  BY <1>p, <1>1, PanelNextInv, BelongsStays, SecretsStay, ClusterSteps
<1>2. CASE PanelRests
  BY <1>p, <1>2, PanelRestsInv DEF PanelRests, storeVars, k8sVars, Belongs, BelongsNext
<1> QED
  BY <1>p, <1>1, <1>2, PanelSteps

(* What each step makes of an engine: it works, or is fresh.                *)
LEMMA EngineChanges ==
  ASSUME OnboardingInv, [OnboardingNext]_onboardingVars, NEW l \in Laptops
  PROVE  /\ engine'[l] \in Engines /\ tui'[l] \in Tuis
         /\ Guarded(hw'[l], tui'[l], engine'[l], l \in consented')
         /\ \/ engine'[l] = engine[l] /\ proc' = proc
            \/ Fresh(engine'[l])
            \/ Follows(l, engine[l], engine'[l])
         /\ tui'[l].screen # "off" => Stage(engine[l].pc) <= Stage(engine'[l].pc)
<1>0. /\ ProgramInv /\ ProgramTypeOK /\ engine[l] \in Engines /\ tui[l] \in Tuis /\ TypeOK
      /\ engine[l] \in AnyEngines /\ Stage(engine[l].pc) \in 0..7
  BY EngineTypes, StagesEnd
  DEF OnboardingInv, ProgramInv, ProgramTypeOK, PanelInv, Inv
<1>1. hw' = hw /\ Guarded(hw[l], tui[l], engine[l], l \in consented)
  BY <1>0, LaptopSteps DEF OnboardingInv, ScreensGuard, Fits
<1>2. CASE Uses(l)
  <2>1. /\ tui'[l] \in Tuis /\ Guarded(hw'[l], tui'[l], engine'[l], l \in consented')
        /\ engine'[l] = engine[l] \/ Fresh(engine'[l])
        /\ tui'[l].screen # "off" =>
             engine'[l] = engine[l] \/ (engine[l].pc = "off" /\ engine'[l].pc = "register")
    BY <1>0, <1>1, <1>2, UsesGuarded
  <2>2. proc' = proc
    BY <1>2 DEF Uses, Launch, Press, ShowDone, Quit
  <2> QED
    BY <1>0, <2>1, <2>2, StagesAre DEF Fresh
<1>3. CASE ScreenRests(l) /\ Works(l)
  <2>1. engine'[l] \in Engines
    BY <1>0, <1>3, WorksTypes
  <2>2. Follows(l, engine[l], engine'[l])
    <3>1. engine[l].pc = "register" => engine[l].token = NoToken
      BY DEF OnboardingInv, NewEnginesHaveNone
    <3>2. engine[l].pc = "upload" => engine[l].call = NoProc
      BY <1>0 DEF ProgramInv, CallsServed
    <3> QED
      BY <1>0, <1>3, <3>1, <3>2, WorksFollows
  <2>3. Guarded(hw'[l], tui'[l], engine'[l], l \in consented')
    BY <1>1, <1>3, <2>2 DEF Guarded, ScreenRests, Follows
  <2>4. Stage(engine[l].pc) <= Stage(engine'[l].pc)
    BY <2>2 DEF Follows
  <2> QED
    BY <1>0, <1>3, <2>1, <2>2, <2>3, <2>4 DEF ScreenRests
<1> QED
  BY <1>0, <1>2, <1>3, ProgramSteps

(* The program's variables are functions and sets over the laptops.         *)
LEMMA ProgramShapes ==
  ASSUME OnboardingInv, [OnboardingNext]_onboardingVars
  PROVE  /\ hw' \in [Laptops -> Profiles] /\ toolkit' \subseteq Laptops
         /\ agent' \in [Laptops -> Tokens \cup {NoToken}]
         /\ tui' = [l \in Laptops |-> tui'[l]] /\ engine' = [l \in Laptops |-> engine'[l]]
         /\ consented' \subseteq Laptops /\ diagnostics' \subseteq Ids
         /\ runs' \in [Laptops -> 0..MaxRuns]
<1> DEFINE Shapes ==
      /\ hw' \in [Laptops -> Profiles] /\ toolkit' \subseteq Laptops
      /\ agent' \in [Laptops -> Tokens \cup {NoToken}]
      /\ tui' = [l \in Laptops |-> tui'[l]] /\ engine' = [l \in Laptops |-> engine'[l]]
      /\ consented' \subseteq Laptops /\ diagnostics' \subseteq Ids
      /\ runs' \in [Laptops -> 0..MaxRuns]
<1>0. /\ hw \in [Laptops -> Profiles] /\ toolkit \subseteq Laptops
      /\ agent \in [Laptops -> Tokens \cup {NoToken}]
      /\ tui = [l \in Laptops |-> tui[l]] /\ engine = [l \in Laptops |-> engine[l]]
      /\ consented \subseteq Laptops /\ diagnostics \subseteq Ids
      /\ runs \in [Laptops -> 0..MaxRuns] /\ MaxRuns \in Nat
  BY ProgramAssumption DEF OnboardingInv, ProgramInv, ProgramTypeOK
<1>t. \A l \in Laptops : engine[l].pc = "agent" => engine[l].token \in Tokens
  <2> TAKE l \in Laptops
  <2>1. engine[l] \in Engines
    BY DEF OnboardingInv, ProgramInv, ProgramTypeOK
  <2> QED
    BY <2>1, EngineTypes DEF Installing
<1>1. CASE UNCHANGED programVars
  BY <1>0, <1>1 DEF programVars, laptopVars, tuiVars
<1>2. ASSUME NEW l \in Laptops, Launch(l)
      PROVE  Shapes
  <2>1. runs' \in [Laptops -> 0..MaxRuns]
    BY <1>0, <1>2 DEF Launch
  <2> QED
    BY <1>0, <1>2, <2>1 DEF Launch, laptopVars
<1>3. ASSUME NEW l \in Laptops, Press(l)
      PROVE  Shapes
  <2>1. \E t : Update(l, t)
    BY <1>3 DEF Press
  <2>2. consented' \subseteq Laptops
    BY <1>0, <1>3 DEF Press
  <2> QED
    BY <1>0, <1>3, <2>1, <2>2 DEF Press, laptopVars, Update
<1>4. ASSUME NEW l \in Laptops, ShowDone(l)
      PROVE  Shapes
  <2>1. PICK t : Update(l, t)
    BY <1>4 DEF ShowDone
  <2>2. /\ tui' = [k \in Laptops |-> tui'[k]]
        /\ engine' = [k \in Laptops |-> engine'[k]]
    BY <1>0, <2>1 DEF Update
  <2>3. UNCHANGED <<hw, toolkit, agent, consented, diagnostics, runs>>
    BY <1>4 DEF ShowDone, laptopVars
  <2> QED
    BY <1>0, <2>2, <2>3
<1>5. ASSUME NEW l \in Laptops, Quit(l)
      PROVE  Shapes
  BY <1>0, <1>t, <1>5 DEF Quit
<1>6. ASSUME NEW l \in Laptops, GiveUp(l) \/ Refused(l) \/ TimesOut(l)
      PROVE  Shapes
  BY <1>0, <1>6 DEF GiveUp, Refused, TimesOut, laptopVars, tuiVars
<1>7. ASSUME NEW l \in Laptops, InstallsToolkit(l) \/ InstallsAgent(l)
      PROVE  Shapes
  BY <1>0, <1>t, <1>7 DEF InstallsToolkit, InstallsAgent, tuiVars
<1>8. ASSUME NEW l \in Laptops, Uploads(l)
      PROVE  Shapes
  <2>1. engine[l].id \in Ids
    BY <1>8 DEF Uploads, OnboardingInv, ProgramInv, UploadsAreTrue, PanelInv, Inv, TypeOK
  <2>2. diagnostics' \subseteq Ids
    BY <1>0, <1>8, <2>1 DEF Uploads, SaveDiagnostics
  <2> QED
    BY <1>0, <1>8, <2>2 DEF Uploads, laptopVars, tuiVars
<1>9. ASSUME NEW l \in Laptops, Ask(l)
      PROVE  Shapes
  <2>1. \E es : engine' = Heard(es)
    BY <1>9 DEF Ask
  <2> QED
    BY <1>0, <1>9, <2>1 DEF Ask, Heard, laptopVars, tuiVars
<1>10. ASSUME NEW p \in Procs, Handles(p)
       PROVE  Shapes
  BY <1>0, <1>10 DEF Handles, Heard, laptopVars, tuiVars
<1>11. CASE PanelCrash
  BY <1>0, <1>11 DEF PanelCrash, laptopVars, tuiVars
<1>12. CASE \/ Panel /\ UNCHANGED programVars
            \/ UNCHANGED onboardingVars
            \/ \E l \in Laptops : LaptopJoins(l)
  BY <1>1, <1>12 DEF LaptopJoins, onboardingVars
<1> QED
  BY <1>2, <1>3, <1>4, <1>5, <1>6, <1>7, <1>8, <1>9, <1>10, <1>11, <1>12
  DEF OnboardingNext, EngineSteps

LEMMA ProgramTypeStep ==
  ASSUME OnboardingInv, [OnboardingNext]_onboardingVars
  PROVE  ProgramTypeOK' /\ ScreensGuard'
<1>1. \A l \in Laptops : /\ engine'[l] \in Engines /\ tui'[l] \in Tuis
                         /\ Guarded(hw'[l], tui'[l], engine'[l], l \in consented')
  BY EngineChanges
<1>2. tui' \in [Laptops -> Tuis] /\ engine' \in [Laptops -> Engines]
  BY <1>1, ProgramShapes
<1> QED
  BY <1>1, <1>2, ProgramShapes DEF ProgramTypeOK, ScreensGuard

-----------------------------------------------------------------------------
(* The parts of the invariant of the program, each kept by every step *)

LEMMA CopiesStep ==
  ASSUME OnboardingInv, [OnboardingNext]_onboardingVars
  PROVE  JoinedCopies'
<1> SUFFICES ASSUME NEW q \in Procs, proc'[q].pc # "idle", proc'[q].status = "joined"
             PROVE  proc'[q].id \in labelled'
  BY DEF JoinedCopies
<1>0. /\ PanelInv /\ ProgramTypeOK /\ Setting /\ proc[q] \in Handlers
      /\ JoinedCopies /\ JoinedIsLabelled
  BY DEF OnboardingInv, ProgramInv, PanelInv, Inv, Setting, TypeOK
<1>1. labelled \subseteq labelled'
  BY PanelStays
<1>2. CASE PanelRests
  BY <1>0, <1>1, <1>2 DEF PanelRests, JoinedCopies
<1>3. CASE Next
  <2>1. HandlerStep(q)
    BY <1>0, <1>3, HandlerSteps
  <2>2. CASE proc'[q] = proc[q]
    BY <1>0, <1>1, <2>2 DEF JoinedCopies
  <2>3. CASE proc'[q] = Idle
    BY <2>3 DEF Idle
  <2>4. ASSUME NEW id \in Ids, StartsOn(q, "autoApprove", id, nodes'[id]),
               nodes'[id].status = "pending"
        PROVE  proc'[q].id \in labelled'
    BY <2>4 DEF StartsOn
  <2>5. ASSUME NEW id \in Ids, StartsOn(q, "expire", id, nodes[id])
        PROVE  proc'[q].id \in labelled'
    BY <1>0, <1>1, <2>5 DEF StartsOn, JoinedIsLabelled
  <2>6. CASE ToMint(q)
    BY <1>0, <2>6 DEF ToMint, Handlers
  <2>7. ASSUME NEW t \in Tokens, ToMark(q, t)
        PROVE  proc'[q].id \in labelled'
    <3>1. /\ proc[q].pc = "mint" /\ proc'[q].status = proc[q].status
          /\ proc'[q].id = proc[q].id
      BY <1>0, <2>7 DEF ToMark, SecretMinted, Handlers
    <3> QED
      BY <1>0, <1>1, <3>1 DEF JoinedCopies
  <2> QED
    BY <2>1, <2>2, <2>3, <2>4, <2>5, <2>6, <2>7 DEF HandlerStep
<1> QED
  BY <1>0, <1>2, <1>3, PanelSteps

LEMMA CallsStep ==
  ASSUME OnboardingInv, [OnboardingNext]_onboardingVars
  PROVE  CallsServed'
<1> SUFFICES ASSUME NEW l \in Laptops, engine'[l].call # NoProc
             PROVE  ServedNext(l, engine'[l])
  BY DEF CallsServed, ServedNext, Belongs, BelongsNext
<1>1. CASE engine'[l] = engine[l] /\ proc' = proc
  <2>1. \A id : Belongs(id, l) => BelongsNext(id, l)
    BY PanelStays DEF Belongs
  <2> QED
    BY <1>1, <2>1 DEF OnboardingInv, ProgramInv, CallsServed, ServedNext
<1>2. CASE Fresh(engine'[l])
  BY <1>2 DEF Fresh
<1>3. CASE Follows(l, engine[l], engine'[l])
  BY <1>3 DEF Follows
<1> QED
  BY <1>1, <1>2, <1>3, EngineChanges

LEMMA RequestsStep ==
  ASSUME OnboardingInv, [OnboardingNext]_onboardingVars
  PROVE  OwnRequests'
<1> SUFFICES ASSUME NEW l \in Laptops, engine'[l].id # NoId
             PROVE  BelongsNext(engine'[l].id, l)
  BY DEF OwnRequests, Belongs, BelongsNext
<1>1. engine[l].id # NoId => BelongsNext(engine[l].id, l)
  BY PanelStays DEF OnboardingInv, ProgramInv, OwnRequests, Belongs
<1>2. CASE engine'[l].id = engine[l].id
  BY <1>1, <1>2
<1>3. CASE Fresh(engine'[l])
  BY <1>3 DEF Fresh
<1>4. CASE Follows(l, engine[l], engine'[l])
  BY <1>2, <1>4 DEF Follows
<1> QED
  BY <1>2, <1>3, <1>4, EngineChanges

LEMMA TokensStep ==
  ASSUME OnboardingInv, [OnboardingNext]_onboardingVars
  PROVE  OwnTokens' /\ NewEnginesHaveNone'
<1> SUFFICES ASSUME NEW l \in Laptops
             PROVE  /\ engine'[l].token # NoToken =>
                         /\ engine'[l].id # NoId
                         /\ secrets'[engine'[l].token].node = engine'[l].id
                    /\ engine'[l].pc = "register" => engine'[l].token = NoToken
  BY DEF OwnTokens, NewEnginesHaveNone
<1>0. /\ engine[l].token \in Tokens \cup {NoToken}
      /\ engine[l].token # NoToken =>
           engine[l].id # NoId /\ secrets[engine[l].token].node = engine[l].id
      /\ engine[l].pc = "register" => engine[l].token = NoToken
  <2>1. engine[l] \in AnyEngines
    BY EngineTypes DEF OnboardingInv, ProgramInv, ProgramTypeOK
  <2> QED
    BY <2>1 DEF AnyEngines, OnboardingInv, ProgramInv, OwnTokens, NewEnginesHaveNone
<1>1. \A t \in Tokens : secrets[t].node # NoId => secrets'[t].node = secrets[t].node
  BY PanelStays
<1>2. CASE engine'[l] = engine[l]
  BY <1>0, <1>1, <1>2
<1>3. CASE Fresh(engine'[l])
  BY <1>3 DEF Fresh
<1>4. CASE Follows(l, engine[l], engine'[l])
  <2>1. engine'[l].token # NoToken => engine'[l].id = engine[l].id
    BY <1>0, <1>4 DEF Follows
  <2>2. CASE engine'[l].token = engine[l].token
    BY <1>0, <1>1, <1>4, <2>1, <2>2 DEF Follows
  <2>3. CASE engine'[l].token # engine[l].token
    BY <1>1, <1>4, <2>1, <2>3, NamesAssumption DEF Follows
  <2> QED
    BY <2>2, <2>3
<1> QED
  BY <1>2, <1>3, <1>4, EngineChanges

(* A laptop that has an agent keeps one.                                    *)
LEMMA AgentsStay ==
  ASSUME OnboardingInv, [OnboardingNext]_onboardingVars, NEW l \in Laptops
  PROVE  /\ agent[l] # NoToken => agent'[l] # NoToken
         /\ agent'[l] = agent[l] \/ (/\ agent'[l] = engine[l].token
                                     /\ engine[l].id \in Ids /\ engine[l].token \in Tokens)
<1>1. engine[l].pc = "agent" => engine[l].id \in Ids /\ engine[l].token \in Tokens
  BY EngineTypes DEF OnboardingInv, ProgramInv, ProgramTypeOK, Installing
<1>2. Fits(l)
  BY LaptopSteps DEF OnboardingInv, ProgramInv
<1> QED
  BY <1>1, <1>2, NamesAssumption DEF Fits

LEMMA AgentsStep ==
  ASSUME OnboardingInv, [OnboardingNext]_onboardingVars
  PROVE  OwnAgents'
<1> SUFFICES ASSUME NEW l \in Laptops, agent'[l] # NoToken
             PROVE  BelongsNext(secrets'[agent'[l]].node, l)
  BY DEF OwnAgents, Belongs, BelongsNext
<1>0. /\ agent[l] \in Tokens \cup {NoToken}
      /\ OwnAgents /\ OwnTokens /\ OwnRequests
  BY DEF OnboardingInv, ProgramInv, ProgramTypeOK
<1>1. agent'[l] \in Tokens /\ Belongs(secrets[agent'[l]].node, l)
  <2>1. CASE agent'[l] = agent[l]
    BY <1>0, <2>1 DEF OwnAgents
  <2>2. CASE /\ agent'[l] = engine[l].token
             /\ engine[l].id \in Ids /\ engine[l].token \in Tokens
    BY <1>0, <2>2, NamesAssumption DEF OwnTokens, OwnRequests
  <2> QED
    BY <2>1, <2>2, AgentsStay
<1>2. secrets'[agent'[l]].node = secrets[agent'[l]].node
  BY <1>1, PanelStays, NamesAssumption DEF Belongs
<1> QED
  BY <1>1, <1>2, PanelStays DEF Belongs

(* Only a laptop's agent makes a cluster node, and only the watcher labels. *)
LEMMA ClusterChanges ==
  ASSUME OnboardingInv, [OnboardingNext]_onboardingVars, NEW id \in Ids
  PROVE  /\ cluster'[id] # "none" =>
              \/ cluster[id] # "none"
              \/ \E l \in Laptops : LaptopJoins(l) /\ id = secrets[agent[l]].node
         /\ id \in labelled' => id \in labelled \/ (watcher.pc = "label" /\ id = watcher.id)
<1> DEFINE Joins ==
      cluster'[id] # "none" =>
        \/ cluster[id] # "none"
        \/ \E l \in Laptops : LaptopJoins(l) /\ id = secrets[agent[l]].node
<1> DEFINE Labels ==
      id \in labelled' => id \in labelled \/ (watcher.pc = "label" /\ id = watcher.id)
<1>0. /\ cluster \in [Ids -> {"none", "unready", "ready"}] /\ PanelInv /\ ProgramTypeOK
      /\ agent \in [Laptops -> Tokens \cup {NoToken}]
  BY DEF OnboardingInv, ProgramInv, PanelInv, Inv, TypeOK, ProgramTypeOK
<1>1. CASE cluster' = cluster /\ labelled' = labelled
  BY <1>1
<1>2. ASSUME NEW p \in Procs, Continue(p)
      PROVE  cluster' = cluster /\ labelled' = labelled
  BY <1>2 DEF Continue, AutoApproval, Expire, Mint, Mark, k8sVars
<1>3. ASSUME NEW p \in Procs, NEW l, Register(p, l) \/ Poll(p, l)
      PROVE  cluster' = cluster /\ labelled' = labelled
  BY <1>3 DEF Register, Poll, k8sVars
<1>4. ASSUME NEW l \in Laptops, Ask(l)
      PROVE  cluster' = cluster /\ labelled' = labelled
  <2>1. \E p \in Draw({q \in Procs : CanStart(q)}) :
          Register(p, l) \/ Poll(p, engine[l].id)
    BY <1>4 DEF Ask
  <2> QED
    BY <2>1 DEF Register, Poll, k8sVars
<1>5. ASSUME NEW l \in Laptops, LaptopJoins(l)
      PROVE  Joins /\ Labels
  BY <1>0, <1>5 DEF LaptopJoins, AgentJoins
<1>6. ASSUME NEW i \in Ids, Approve(i) \/ Deny(i)
      PROVE  cluster' = cluster /\ labelled' = labelled
  BY <1>6 DEF Approve, Deny, k8sVars
<1>7. ASSUME NEW i \in Ids, NodeReady(i) \/ NodeUnready(i)
      PROVE  Joins /\ Labels
  BY <1>0, <1>7 DEF NodeReady, NodeUnready
<1>8. CASE Watch
  <2>1. CASE WatcherLabels
    BY <2>1 DEF WatcherLabels
  <2>2. CASE WatcherTick \/ WatcherLooks \/ WatcherMisses \/ WatcherMarks
    BY <2>2 DEF WatcherTick, WatcherLooks, WatcherMisses, WatcherMarks, k8sVars
  <2> QED
    BY <1>8, <2>1, <2>2 DEF Watch
<1>9. CASE Crash \/ Boot \/ Tick
  BY <1>9 DEF Crash, Boot, Tick, k8sVars
<1>10. CASE Panel
  BY <1>6, <1>7, <1>8, <1>9, <1>10 DEF Panel
<1>11. ASSUME NEW l \in Laptops,
              \/ Launch(l) \/ Press(l) \/ ShowDone(l) \/ Quit(l) \/ GiveUp(l) \/ Refused(l)
              \/ TimesOut(l) \/ InstallsToolkit(l) \/ InstallsAgent(l) \/ Uploads(l)
       PROVE  cluster' = cluster /\ labelled' = labelled
  BY <1>11 DEF Launch, Press, ShowDone, Quit, GiveUp, Refused, TimesOut, InstallsToolkit,
               InstallsAgent, Uploads, k8sVars
<1>12. CASE UNCHANGED onboardingVars
  BY <1>12 DEF onboardingVars, vars
<1> HIDE DEF Joins, Labels
<1>13. (cluster' = cluster /\ labelled' = labelled) => Joins /\ Labels
  BY DEF Joins, Labels
<1>14. Joins /\ Labels
  <2>1. ASSUME NEW p \in Procs, Handles(p)
        PROVE  Joins /\ Labels
    <3>1. Continue(p)
      BY <2>1 DEF Handles
    <3> QED
      BY <1>2, <1>13, <3>1
  <2>2. CASE PanelCrash \/ UNCHANGED onboardingVars
    BY <1>9, <1>12, <2>2 DEF PanelCrash, Joins, Labels
  <2>3. CASE Panel /\ UNCHANGED programVars
    BY <1>10, <2>3 DEF Joins, Labels
  <2>4. CASE \E l \in Laptops : EngineSteps(l)
    BY <1>4, <1>11, <1>13, <2>4 DEF EngineSteps
  <2>5. CASE \E l \in Laptops : \/ Launch(l) \/ Press(l) \/ ShowDone(l) \/ Quit(l)
                               \/ GiveUp(l) \/ LaptopJoins(l)
    BY <1>5, <1>11, <1>13, <2>5 DEF Joins, Labels
  <2> QED
    BY <2>1, <2>2, <2>3, <2>4, <2>5 DEF OnboardingNext
<1> QED
  BY <1>14 DEF Joins, Labels

LEMMA ClusterStep ==
  ASSUME OnboardingInv, [OnboardingNext]_onboardingVars
  PROVE  NodesHaveAgent' /\ LabelledAreNodes'
<1>0. /\ NodesHaveAgent /\ LabelledAreNodes /\ OwnAgents /\ WatcherFollows
      /\ labelled \subseteq Ids
  BY DEF OnboardingInv, ProgramInv, PanelInv, Inv, TypeOK
<1>1. NodesHaveAgent'
  <2> SUFFICES ASSUME NEW id \in Ids, cluster'[id] # "none"
               PROVE  \E l \in Laptops : agent'[l] # NoToken /\ BelongsNext(id, l)
    BY DEF NodesHaveAgent, Belongs, BelongsNext
  <2>1. \E l \in Laptops : agent[l] # NoToken /\ Belongs(id, l)
    <3>1. CASE cluster[id] # "none"
      BY <1>0, <3>1 DEF NodesHaveAgent
    <3>2. ASSUME NEW l \in Laptops, LaptopJoins(l), id = secrets[agent[l]].node
          PROVE  agent[l] # NoToken /\ Belongs(id, l)
      BY <1>0, <3>2 DEF LaptopJoins, OwnAgents
    <3> QED
      BY <3>1, <3>2, ClusterChanges
  <2> QED
    BY <2>1, AgentsStay, PanelStays
<1>2. LabelledAreNodes'
  <2> SUFFICES ASSUME NEW id \in labelled'
               PROVE  cluster'[id] # "none"
    BY DEF LabelledAreNodes
  <2>1. labelled' \subseteq Ids
    <3>1. PanelInv'
      BY PanelStays
    <3> QED
      BY <3>1 DEF PanelInv, Inv, TypeOK
  <2>2. cluster[id] # "none"
    BY <1>0, <2>1, ClusterChanges DEF LabelledAreNodes, WatcherFollows
  <2> QED
    BY <2>1, <2>2, PanelStays
<1> QED
  BY <1>1, <1>2

LEMMA UploadsStep ==
  ASSUME OnboardingInv, [OnboardingNext]_onboardingVars
  PROVE  UploadsAreTrue'
<1> SUFFICES ASSUME NEW l \in Laptops, engine'[l].pc \in {"upload", "done"}
             PROVE  agent'[l] # NoToken /\ engine'[l].id \in labelled'
  BY DEF UploadsAreTrue
<1>0. /\ UploadsAreTrue /\ OwnRequests /\ NodesHaveAgent /\ LabelledAreNodes
      /\ labelled \subseteq Ids
  BY DEF OnboardingInv, ProgramInv, PanelInv, Inv, TypeOK
<1>1. ASSUME agent[l] # NoToken, engine[l].id \in labelled, engine'[l].id = engine[l].id
      PROVE  agent'[l] # NoToken /\ engine'[l].id \in labelled'
  BY <1>1, AgentsStay, PanelStays
<1>2. CASE engine'[l] = engine[l]
  BY <1>0, <1>1, <1>2 DEF UploadsAreTrue
<1>3. CASE Fresh(engine'[l])
  BY <1>3 DEF Fresh
<1>4. CASE Follows(l, engine[l], engine'[l])
  <2>1. /\ engine'[l].id = engine[l].id
        /\ engine[l].pc \in {"upload", "done"} \/ engine[l].id \in labelled
    BY <1>4 DEF Follows
  <2>2. CASE engine[l].pc \in {"upload", "done"}
    BY <1>0, <1>1, <2>1, <2>2 DEF UploadsAreTrue
  <2>3. CASE engine[l].id \in labelled
    <3>1. engine[l].id \in Ids /\ cluster[engine[l].id] # "none"
      BY <1>0, <2>3 DEF LabelledAreNodes
    <3>2. PICK k \in Laptops : agent[k] # NoToken /\ Belongs(engine[l].id, k)
      BY <1>0, <3>1 DEF NodesHaveAgent
    <3>3. Belongs(engine[l].id, l)
      BY <1>0, <3>1, NamesAssumption DEF OwnRequests
    <3>4. k = l
      BY <3>2, <3>3 DEF Belongs
    <3> QED
      BY <1>1, <2>1, <2>3, <3>2, <3>4
  <2> QED
    BY <2>1, <2>2, <2>3
<1> QED
  BY <1>2, <1>3, <1>4, EngineChanges

LEMMA OnboardingStep ==
  ASSUME OnboardingInv, [OnboardingNext]_onboardingVars
  PROVE  OnboardingInv'
<1>1. PanelInv' /\ ProgramTypeOK' /\ ScreensGuard'
  BY PanelStays, ProgramTypeStep
<1>2. JoinedCopies' /\ CallsServed' /\ OwnRequests' /\ OwnTokens' /\ NewEnginesHaveNone'
  BY CopiesStep, CallsStep, RequestsStep, TokensStep
<1>3. OwnAgents' /\ NodesHaveAgent' /\ LabelledAreNodes' /\ UploadsAreTrue'
  BY AgentsStep, ClusterStep, UploadsStep
<1> QED
  BY <1>1, <1>2, <1>3 DEF OnboardingInv, ProgramInv

-----------------------------------------------------------------------------
(* The theorems *)

LEMMA OnboardingInitInv == OnboardingInit => OnboardingInv
<1> SUFFICES ASSUME OnboardingInit PROVE OnboardingInv
  OBVIOUS
<1>0. Init /\ Inv
  BY InitInv DEF OnboardingInit
<1>1. PanelInv
  <2>1. GivenHaveRequest
    BY <1>0 DEF Init, GivenHaveRequest, NoSecret
  <2>2. SameRequests
    BY <1>0 DEF Init, SameRequests
  <2> QED
    BY <1>0, <2>1, <2>2 DEF PanelInv
<1>2. ProgramTypeOK
  <2>1. Closed \in Tuis
    BY DEF Closed, Tuis
  <2>2. NotRun \in Engines
    BY FreshEngines DEF Fresh
  <2>3. 0 \in 0..MaxRuns
    BY ProgramAssumption
  <2>4. runs \in [Laptops -> 0..MaxRuns]
    BY <2>3 DEF OnboardingInit
  <2> QED
    BY <2>1, <2>2, <2>4 DEF OnboardingInit, ProgramTypeOK
<1>3. /\ JoinedCopies /\ NodesHaveAgent /\ LabelledAreNodes
  BY <1>0 DEF Init, JoinedCopies, NodesHaveAgent, LabelledAreNodes, Idle
<1>4. OwnAgents
  BY DEF OnboardingInit, OwnAgents
<1>5. /\ CallsServed /\ OwnRequests /\ OwnTokens /\ UploadsAreTrue /\ NewEnginesHaveNone
  BY DEF OnboardingInit, CallsServed, OwnRequests, OwnTokens, UploadsAreTrue,
         NewEnginesHaveNone, NotRun
<1>6. ScreensGuard
  BY DEF OnboardingInit, ScreensGuard, Guarded, NotRun, Closed
<1> QED
  BY <1>1, <1>2, <1>3, <1>4, <1>5, <1>6 DEF OnboardingInv, ProgramInv

(* The panel's invariant and the program's hold together, however calls,    *)
(* keys, crashes and lost answers are mixed (router.go, 133-283; runner.go). *)
THEOREM OnboardingInvariant == OnboardingSpec => []OnboardingInv
<1>1. OnboardingInv /\ [OnboardingNext]_onboardingVars => OnboardingInv'
  BY OnboardingStep
<1> QED
  BY <1>1, OnboardingInitInv, PTL DEF OnboardingSpec

(* The UI's and the engine's state have their types; an installer is never  *)
(* run without an id and a token (runner.go, 80-110).                       *)
THEOREM ProgramTypes == OnboardingSpec => []ProgramTypeOK
<1>1. OnboardingInv => ProgramTypeOK
  BY DEF OnboardingInv, ProgramInv
<1> QED
  BY <1>1, OnboardingInvariant, PTL

(* The panel's promises hold with the real clients in front of it: a laptop *)
(* has one request and joined means labelled (nodes/store.go).              *)
THEOREM PanelPromises == OnboardingSpec => [](OneRequestPerLaptop /\ JoinedIsLabelled)
<1>1. OnboardingInv => OneRequestPerLaptop /\ JoinedIsLabelled
  BY DEF OnboardingInv, ProgramInv, PanelInv, Inv
<1> QED
  BY <1>1, OnboardingInvariant, PTL

(* No engine runs on a machine that Qualify makes a Guest, although the UI  *)
(* goes by the colours of the rows only (model.go, handleKey; hardware.go). *)
THEOREM HostsOnly == OnboardingSpec => []OnlyHostsJoin
<1>1. OnboardingInv => OnlyHostsJoin
  <2> SUFFICES ASSUME OnboardingInv, NEW l \in Laptops, engine[l].pc # "off"
               PROVE  Qualify([hw[l] EXCEPT !.MasterOnline = tui[l].online]) = "Host"
    BY DEF OnlyHostsJoin
  <2> QED
    BY DEF OnboardingInv, ScreensGuard, Guarded, Probed
<1> QED
  BY <1>1, OnboardingInvariant, PTL

(* "This laptop is now a cluster Host" is true when it is said: the poll    *)
(* that told it works on a copy of the laptop's own request, whose node is  *)
(* labelled and was made by the laptop's own agent (runner.go, 120-140).    *)
THEOREM DoneIsTrue == OnboardingSpec => []DoneMeansHost
<1>1. OnboardingInv => DoneMeansHost
  <2> SUFFICES ASSUME OnboardingInv, NEW l \in Laptops, engine[l].pc = "done"
               PROVE  /\ agent[l] # NoToken
                      /\ cluster[engine[l].id] # "none" /\ engine[l].id \in labelled
    BY DEF DoneMeansHost
  <2>1. agent[l] # NoToken /\ engine[l].id \in labelled
    BY DEF OnboardingInv, ProgramInv, UploadsAreTrue
  <2> QED
    BY <2>1 DEF OnboardingInv, ProgramInv, LabelledAreNodes
<1> QED
  BY <1>1, OnboardingInvariant, PTL

(* The toolkit comes with the user's y in this run only: the engine takes   *)
(* the wish with it when it is launched (model.go, handleKey; main.go).     *)
THEOREM Consent == OnboardingSpec => ToolkitNeedsConsent
<1>1. OnboardingInv /\ [OnboardingNext]_onboardingVars
        => [\A l \in Laptops : l \in toolkit' \ toolkit => l \in consented]_onboardingVars
  <2> SUFFICES ASSUME OnboardingInv, [OnboardingNext]_onboardingVars,
                      NEW l \in Laptops, l \in toolkit' \ toolkit
               PROVE  l \in consented
    OBVIOUS
  <2>1. engine[l].pc = "toolkit"
    BY LaptopSteps DEF OnboardingInv, ProgramInv, Fits
  <2> QED
    BY <2>1 DEF OnboardingInv, ScreensGuard, Guarded
<1> QED
  BY <1>1, OnboardingInvariant, PTL DEF OnboardingSpec, ToolkitNeedsConsent

(* A program launches one engine, and it never goes back a stage, whatever  *)
(* keys and answers arrive in whatever order (main.go, 45-80).              *)
THEOREM SingleEngine == OnboardingSpec => OneEngine
<1>1. OnboardingInv /\ [OnboardingNext]_onboardingVars
        => [\A l \in Laptops :
              tui'[l].screen # "off" => Stage(engine[l].pc) <= Stage(engine'[l].pc)
            ]_onboardingVars
  BY EngineChanges
<1> QED
  BY <1>1, OnboardingInvariant, PTL DEF OnboardingSpec, OneEngine

(* Where saves succeed, who has a Secret stays approved.                    *)
CredentialsAreDecided ==
  \A id \in Ids : HasSecret(id) => disk[id].status \in Decided

LEMMA DecidedStep ==
  ASSUME "save" \notin FaultKinds, Inv, FileCurrent, CredentialsAreDecided, Next
  PROVE  CredentialsAreDecided'
<1> SUFFICES ASSUME NEW id \in Ids, HasSecret(id)'
             PROVE  disk'[id].status \in Decided
  BY DEF CredentialsAreDecided
<1>0. /\ Setting /\ FileCurrent'
      /\ secrets \in [Tokens -> Secrets] /\ proc \in [Procs -> Handlers]
  BY FileStaysCurrent DEF Inv, Setting, TypeOK
<1>1. disk[id].status \in Decided
  <2>1. CASE HasSecret(id)
    BY <2>1 DEF CredentialsAreDecided
  <2>2. ASSUME NEW p \in Procs, NEW t \in Tokens, SecretMinted(p, t), proc[p].id = id
        PROVE  disk[id].status \in Decided
    <3>1. up
      BY <2>2 DEF SecretMinted, Inv, DownIsEmpty, Idle
    <3>2. nodes[id].status \in Decided
      BY <2>2 DEF SecretMinted, Inv, MintersAreDecided, Minting
    <3> QED
      BY <3>1, <3>2 DEF FileCurrent
  <2>3. HasSecret(id) \/ \E p \in Procs, t \in Tokens : SecretMinted(p, t) /\ proc[p].id = id
    <3>1. PICK t \in Tokens : secrets'[t].node = id
      BY DEF HasSecret
    <3>2. CASE secrets' = secrets
      BY <3>1, <3>2 DEF HasSecret
    <3>3. ASSUME NEW p \in Procs, NEW u \in Tokens, SecretMinted(p, u)
          PROVE  HasSecret(id) \/ (SecretMinted(p, u) /\ proc[p].id = id)
      <4>1. CASE u = t
        BY <1>0, <3>1, <3>3, <4>1 DEF SecretMinted, Secret
      <4>2. CASE u # t
        BY <1>0, <3>1, <3>3, <4>2 DEF SecretMinted, HasSecret
      <4> QED
        BY <4>1, <4>2
    <3>4. ASSUME NEW u \in Tokens, SecretGiven(u)
          PROVE  HasSecret(id)
      <4>1. secrets'[t].node = secrets[t].node
        BY <1>0, <3>4 DEF SecretGiven, Secrets
      <4> QED
        BY <3>1, <4>1 DEF HasSecret
    <3> QED
      BY <1>0, <3>2, <3>3, <3>4, SecretSteps
  <2> QED
    BY <2>1, <2>2, <2>3
<1>2. CASE up /\ up'
  <2>1. Known(nodes, id) /\ nodes[id].status \in Decided
    BY <1>1, <1>2 DEF FileCurrent, Known, Decided
  <2>2. nodes'[id].status \in Decided
    BY <1>0, <1>2, <2>1, RecordsPersist
  <2> QED
    BY <1>0, <1>2, <2>2 DEF FileCurrent
<1>3. CASE ~(up /\ up')
  BY <1>0, <1>1, <1>3, StoreSteps DEF StoreRests, Registers, Changes, Forgets, Loads
<1> QED
  BY <1>2, <1>3

(* Where saves succeed, no laptop has an agent of a request that was denied *)
(* or never approved, in memory or after a restart (router.go, 205-283).    *)
THEOREM AgentApproved ==
  ASSUME "save" \notin FaultKinds
  PROVE  OnboardingSpec => []AgentMeansApproved
<1> DEFINE I == OnboardingInv /\ FileCurrent /\ CredentialsAreDecided
<1>1. OnboardingInit => I
  <2> SUFFICES ASSUME OnboardingInit PROVE I
    OBVIOUS
  <2>1. FileCurrent /\ CredentialsAreDecided
    BY NamesAssumption
    DEF OnboardingInit, Init, FileCurrent, CredentialsAreDecided, HasSecret, NoSecret
  <2> QED
    BY <2>1, OnboardingInitInv
<1>2. I /\ [OnboardingNext]_onboardingVars => I'
  <2> SUFFICES ASSUME I, [OnboardingNext]_onboardingVars PROVE I'
    OBVIOUS
  <2>0. /\ OnboardingInv /\ FileCurrent /\ CredentialsAreDecided /\ Inv /\ PanelInv
        /\ ProgramTypeOK
    BY DEF OnboardingInv, ProgramInv, PanelInv
  <2>1. OnboardingInv'
    BY <2>0, OnboardingStep
  <2>2. CASE Next
    BY <2>0, <2>1, <2>2, FileStaysCurrent, DecidedStep
  <2>3. CASE PanelRests
    BY <2>0, <2>1, <2>3
    DEF PanelRests, storeVars, k8sVars, FileCurrent, CredentialsAreDecided, HasSecret
  <2> QED
    BY <2>0, <2>2, <2>3, PanelSteps
<1>3. I => AgentMeansApproved
  <2> SUFFICES ASSUME I, NEW l \in Laptops, agent[l] # NoToken
               PROVE  Durable[secrets[agent[l]].node].status \in Decided
    BY DEF AgentMeansApproved, Decided
  <2> DEFINE id == secrets[agent[l]].node
  <2>1. agent[l] \in Tokens /\ id \in Ids
    BY DEF OnboardingInv, ProgramInv, ProgramTypeOK, OwnAgents, Belongs
  <2>2. disk[id].status \in Decided
    BY <2>1 DEF CredentialsAreDecided, HasSecret
  <2>3. Durable = disk
    BY DEF Durable, FileCurrent
  <2> QED
    BY <2>2, <2>3
<1> QED
  BY <1>1, <1>2, <1>3, PTL DEF OnboardingSpec

-----------------------------------------------------------------------------
(* The composition implements the life cycle *)

(* A step of the composition that loses nothing to a restart is a step of   *)
(* NodeLifecycle: the panel's, or one that shows nothing of it.             *)
LEMMA ProgramLifecycle ==
  ASSUME OnboardingInv, [OnboardingNext]_onboardingVars, up /\ ~up' => disk = nodes
  PROVE  [Lifecycle!Next]_<<StatusTable, Credentials>>
<1>0. PanelInv /\ Inv /\ ProgramTypeOK
  BY DEF OnboardingInv, ProgramInv, PanelInv
<1>1. CASE Next
  BY <1>0, <1>1, LifecycleSteps
<1>2. CASE PanelRests
  <2>1. UNCHANGED <<nodes, disk, up, secrets>>
    BY <1>2 DEF PanelRests, storeVars, k8sVars
  <2>2. StatusTable' = StatusTable
    BY <2>1 DEF StatusTable, Durable, Known
  <2>3. Credentials' = Credentials
    BY <2>1 DEF Credentials, Unminted
  <2> QED
    BY <2>2, <2>3
<1> QED
  BY <1>0, <1>1, <1>2, PanelSteps

LEMMA ProgramFileCurrent ==
  ASSUME "save" \notin FaultKinds, OnboardingInv, FileCurrent,
         [OnboardingNext]_onboardingVars
  PROVE  FileCurrent'
<1>0. PanelInv /\ Inv /\ ProgramTypeOK
  BY DEF OnboardingInv, ProgramInv, PanelInv
<1>1. CASE Next
  BY <1>0, <1>1, FileStaysCurrent
<1>2. CASE PanelRests
  BY <1>2 DEF PanelRests, storeVars, FileCurrent
<1> QED
  BY <1>0, <1>1, <1>2, PanelSteps

(* With real laptops, users who quit and calls that get lost in front of    *)
(* it, the panel still follows the life cycle of a request: only a restart  *)
(* that finds the file behind the memory departs from it.                   *)
THEOREM ProgramDepartsOnlyByRestart == OnboardingSpec => LifecycleUnlessStaleRestart
<1>1. OnboardingInv /\ [OnboardingNext]_onboardingVars =>
        [(up /\ ~up' => disk = nodes) => Lifecycle!Next]_<<StatusTable, Credentials>>
  BY ProgramLifecycle
<1> QED
  BY <1>1, OnboardingInvariant, PTL DEF OnboardingSpec, LifecycleUnlessStaleRestart

(* As long as no save fails, join programs, panel and cluster together      *)
(* implement the life cycle of a request, whatever the users do.            *)
THEOREM ProgramImplementsLifecycle ==
  ASSUME "save" \notin FaultKinds
  PROVE  OnboardingSpec => ImplementsLifecycle
<1>1. OnboardingInit => Lifecycle!Init /\ FileCurrent
  <2>1. OnboardingInit => StatusTable = [id \in Ids |-> "unknown"]
    BY DEF OnboardingInit, Init, StatusTable, Durable, EmptyMap, NoRecord, Known
  <2>2. OnboardingInit => Credentials = {}
    BY DEF OnboardingInit, Init, Credentials, Unminted
  <2> QED
    BY <2>1, <2>2 DEF Lifecycle!Init, OnboardingInit, Init, FileCurrent
<1>2. OnboardingInv /\ FileCurrent /\ [OnboardingNext]_onboardingVars => FileCurrent'
  BY ProgramFileCurrent
<1>3. OnboardingInv /\ FileCurrent /\ [OnboardingNext]_onboardingVars
        => [Lifecycle!Next]_<<StatusTable, Credentials>>
  BY ProgramLifecycle DEF FileCurrent
<1> QED
  BY <1>1, <1>2, <1>3, OnboardingInvariant, PTL
  DEF OnboardingSpec, ImplementsLifecycle, Lifecycle!Spec, Lifecycle!lifecycle

(* The token a laptop installs, and the one its engine holds, was minted    *)
(* for a request that the panel has under this laptop's name, in memory and *)
(* in the file.                                                             *)
TokensStayHome ==
  \A l \in Laptops : \A t \in {agent[l], engine[l].token} \ {NoToken} :
    /\ Known(Durable, secrets[t].node) /\ Known(disk, secrets[t].node)
    /\ Durable[secrets[t].node].laptop = l /\ disk[secrets[t].node].laptop = l

(* A laptop joins as the node of its own request and of no other's, though  *)
(* answers get lost or come late and programs are quit and started again    *)
(* between the poll and the installer (router.go, 186-217; runner.go,       *)
(* 84-119): no two laptops ever hold one token.                             *)
THEOREM JoinsAsItself == OnboardingSpec => []TokensStayHome
<1>1. OnboardingInv => TokensStayHome
  <2> SUFFICES ASSUME OnboardingInv, NEW l \in Laptops,
                      NEW t \in {agent[l], engine[l].token} \ {NoToken}
               PROVE  /\ Known(Durable, secrets[t].node) /\ Known(disk, secrets[t].node)
                      /\ Durable[secrets[t].node].laptop = l
                      /\ disk[secrets[t].node].laptop = l
    BY DEF TokensStayHome
  <2>1. Belongs(secrets[t].node, l)
    BY DEF OnboardingInv, ProgramInv, OwnAgents, OwnTokens, OwnRequests
  <2>2. up => /\ Known(nodes, secrets[t].node)
              /\ nodes[secrets[t].node].laptop = disk[secrets[t].node].laptop
    BY <2>1 DEF OnboardingInv, ProgramInv, PanelInv, SameRequests, Belongs
  <2> QED
    BY <2>1, <2>2 DEF Belongs, Durable
<1> QED
  BY <1>1, OnboardingInvariant, PTL
=============================================================================
