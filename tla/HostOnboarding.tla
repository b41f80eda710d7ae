--------------------------- MODULE HostOnboarding ---------------------------
(***************************************************************************)
(* Host onboarding end to end: ldndrc-join on the laptops, composed with   *)
(* the control panel of NodeOnboarding.                                    *)
(*                                                                         *)
(* The program has two threads: the terminal UI, which handles one key or  *)
(* message at a time (internal/join/model.go, cmd/join/main.go), and the   *)
(* engine it launches, RunJoin (internal/join/runner.go), which calls the  *)
(* panel (internal/join/register.go) and runs the installers               *)
(* (internal/join/install_linux.go).  A call is handed to a request        *)
(* handler of the panel; the step in which the handler answers is the step *)
(* in which the engine hears it, unless it has given up by then: the       *)
(* handler then goes on, and answers nobody.                               *)
(*                                                                         *)
(* External: the installers' effect on the laptop, and its user.           *)
(***************************************************************************)
EXTENDS NodeOnboarding, Qualification

CONSTANTS
  Profiles,   (* hardware the laptops may have, MasterOnline left open      *)
  NoProc,     (* no call is under way                                       *)
  Timeout,    (* how long WaitApproval and WaitJoined wait, in ticks        *)
  MaxRuns     (* bound on how often a laptop starts the program             *)

ASSUME ProgramAssumption ==
  /\ Profiles \subseteq Hardware /\ NoProc \notin Procs
  /\ Timeout \in Nat /\ MaxRuns \in Nat

VARIABLES
  hw,           (* per laptop: its hardware                                 *)
  toolkit,      (* the laptops that have the NVIDIA container toolkit       *)
  agent,        (* per laptop: the token its k3s agent was installed with   *)
  tui,          (* per laptop: the UI                                       *)
  engine,       (* per laptop: the engine                                   *)
  consented,    (* the laptops whose user said y in the running program     *)
  diagnostics,  (* the requests whose diagnostics the panel has stored      *)
  runs          (* how often each laptop has started the program            *)

laptopVars == <<hw, toolkit, agent>>
tuiVars    == <<tui, consented, runs>>
programVars == <<laptopVars, tuiVars, engine, diagnostics>>
onboardingVars == <<vars, programVars>>

(* need: install the toolkit; client: the engine has not been launched yet. *)
(* JoinStarted is that the screen is join or, after it, done.               *)
Closed == [screen |-> "off", red |-> FALSE, online |-> FALSE, need |-> FALSE,
           client |-> FALSE]

Tuis == [screen : {"off", "checks", "fix", "confirm", "join", "done"},
         red : BOOLEAN, online : BOOLEAN, need : BOOLEAN, client : BOOLEAN]

NotRun == [pc |-> "off", id |-> NoId, token |-> NoToken, need |-> FALSE,
           call |-> NoProc, since |-> 0]

Installing == {"toolkit", "agent"}
Ended      == {"done", "failed"}

Engines ==
  [pc : {"off", "register", "approval", "confirm", "upload"} \cup Ended,
   id : Ids \cup {NoId}, token : Tokens \cup {NoToken}, need : BOOLEAN,
   call : Procs \cup {NoProc}, since : 0..MaxTime]
  \cup
  [pc : Installing, id : Ids, token : Tokens, need : BOOLEAN,
   call : {NoProc}, since : 0..MaxTime]

-----------------------------------------------------------------------------
(* The terminal UI *)

(* Mutant: every message after the start launches an engine.                *)
Starts_Always(t) == t.screen \in {"join", "done"}

Starts(t) == t.screen \in {"join", "done"} /\ t.client

(* appModel.Update, the model's next state being t: the engine is launched  *)
(* once, with the consent the model has by then.                            *)
Update(l, t) ==
  /\ tui' = [tui EXCEPT ![l] = IF Starts(t) THEN [t EXCEPT !.client = FALSE] ELSE t]
  /\ engine' = IF Starts(t)
               THEN [engine EXCEPT ![l] = [NotRun EXCEPT !.pc = "register",
                                                         !.need = t.need]]
               ELSE engine

(* DiscoverMaster and ProbeMaster: a master may be missed, also because the *)
(* browse looks at its result too early, and one that is found may be down. *)
Discovered(hasMaster, online) == online => hasMaster

(* runTUI: detection, discovery and the probe, then the checks screen.  A   *)
(* TEST_GPU override waives the toolkit.                                    *)
Launch(l) ==
  /\ tui[l].screen = "off" /\ runs[l] < MaxRuns
  /\ \E hasMaster, online, test \in BOOLEAN :
       /\ Discovered(hasMaster, online)
       /\ tui' = [tui EXCEPT ![l] =
            [screen |-> "checks", online |-> online, client |-> TRUE,
             red |-> HasRed(CheckRows(hw[l], hasMaster, online)),
             need |-> hw[l].GPU /\ l \notin toolkit /\ ~test]]
  /\ runs' = [runs EXCEPT ![l] = @ + 1]
  /\ Silent /\ NoFault
  /\ UNCHANGED <<storeVars, k8sVars, proc, watcher, up, env, now, laptopVars,
                 consented, engine, diagnostics>>

(* Mutant: a declined toolkit is skipped in the log only.                   *)
Declined_KeepsNeed(t) == [t EXCEPT !.screen = "join"]

(* The n key of the confirm screen.                                         *)
Declined(t) == [t EXCEPT !.screen = "join", !.need = FALSE]

(* handleKey, for the keys that do something on the screen.                 *)
Press(l) ==
  LET t == tui[l] IN
  /\ \/ /\ t.screen = "checks" /\ t.red
        /\ Update(l, [t EXCEPT !.screen = "fix"]) /\ UNCHANGED consented
     \/ /\ t.screen = "fix"
        /\ Update(l, [t EXCEPT !.screen = "checks"]) /\ UNCHANGED consented
     \/ /\ t.screen = "checks" /\ ~t.red
        /\ Update(l, [t EXCEPT !.screen = IF t.need THEN "confirm" ELSE "join"])
        /\ UNCHANGED consented
     \/ /\ t.screen = "confirm"
        /\ \/ /\ Update(l, [t EXCEPT !.screen = "join"])
              /\ consented' = consented \cup {l}
           \/ Update(l, Declined(t)) /\ UNCHANGED consented
           \/ Update(l, [t EXCEPT !.screen = "checks"]) /\ UNCHANGED consented
  /\ Silent /\ NoFault
  /\ UNCHANGED <<storeVars, k8sVars, proc, watcher, up, env, now, laptopVars,
                 runs, diagnostics>>

(* DoneMsgS arrives.                                                        *)
ShowDone(l) ==
  /\ tui[l].screen = "join" /\ engine[l].pc \in Ended
  /\ Update(l, [tui[l] EXCEPT !.screen = "done"])
  /\ Silent /\ NoFault
  /\ UNCHANGED <<storeVars, k8sVars, proc, watcher, up, env, now, laptopVars,
                 consented, runs, diagnostics>>

(* q, ctrl+c or the last enter: the process ends, its engine with it.  An   *)
(* installer it has started is a process of its own and may go on.          *)
Quit(l) ==
  /\ tui[l].screen # "off"
  /\ tui' = [tui EXCEPT ![l] = Closed]
  /\ engine' = [engine EXCEPT ![l] = NotRun]
  /\ consented' = consented \ {l}
  /\ \/ UNCHANGED <<toolkit, agent>>
     \/ engine[l].pc = "toolkit" /\ toolkit' = toolkit \cup {l} /\ UNCHANGED agent
     \/ /\ engine[l].pc = "agent" /\ UNCHANGED toolkit
        /\ agent' = [agent EXCEPT ![l] = engine[l].token]
  /\ Silent /\ NoFault
  /\ UNCHANGED <<storeVars, k8sVars, proc, watcher, up, env, now, hw, runs,
                 diagnostics>>

-----------------------------------------------------------------------------
(* The engine: what it does with an answer *)

Failed(e) == [e EXCEPT !.pc = "failed", !.call = NoProc]

HearRegistered(e, a) ==
  IF a.kind = "ok"
  THEN [e EXCEPT !.pc = "approval", !.id = a.id, !.call = NoProc, !.since = now]
  ELSE Failed(e)

(* Mutant: an approved answer without a token goes on to the installers.    *)
HearApproval_NoPayload(e, a) ==
  IF a.kind = "error" \/ a.status = "pending" THEN [e EXCEPT !.call = NoProc]
  ELSE IF a.status = "joined" THEN [e EXCEPT !.pc = "upload", !.call = NoProc]
  ELSE IF a.status = "denied" THEN Failed(e)
  ELSE [e EXCEPT !.pc = IF e.need THEN "toolkit" ELSE "agent",
                 !.token = a.token, !.call = NoProc]

(* WaitApproval goes on after an error and while the request is pending;    *)
(* every other status ends it, also one that is neither decided nor joined, *)
(* and then an answer without a token ends the run.                         *)
HearApproval(e, a) ==
  IF a.kind = "error" \/ a.status = "pending" THEN [e EXCEPT !.call = NoProc]
  ELSE IF a.status = "joined" THEN [e EXCEPT !.pc = "upload", !.call = NoProc]
  ELSE IF a.status = "denied" \/ a.token = NoToken THEN Failed(e)
  ELSE [e EXCEPT !.pc = IF e.need THEN "toolkit" ELSE "agent",
                 !.token = a.token, !.call = NoProc]

(* Mutant: WaitJoined ends as WaitApproval does.                            *)
HearJoined_NotPending(e, a) ==
  IF a.kind = "ok" /\ a.status # "pending"
  THEN [e EXCEPT !.pc = "upload", !.call = NoProc]
  ELSE [e EXCEPT !.call = NoProc]

HearJoined(e, a) ==
  IF a.kind = "ok" /\ a.status = "joined"
  THEN [e EXCEPT !.pc = "upload", !.call = NoProc]
  ELSE [e EXCEPT !.call = NoProc]

Hear(e, a) ==
  CASE e.pc = "register" -> HearRegistered(e, a)
    [] e.pc = "approval" -> HearApproval(e, a)
    [] e.pc = "confirm"  -> HearJoined(e, a)

(* A call that fails in the client: refused, reset or given up after 10 s.  *)
Lost(e) == Hear(e, [NoAnswer EXCEPT !.kind = "error"])

(* The engines after a step of the panel, those of es being the callers.    *)
Heard(es) ==
  [l \in Laptops |-> IF es[l].call # NoProc /\ es[l].call = answer'.to
                     THEN Hear(es[l], answer') ELSE es[l]]

-----------------------------------------------------------------------------
(* The engine's calls and the panel's steps *)

Waits(l)     == engine[l].pc \in {"register", "approval", "confirm"}
CallWith(l, p) == [engine EXCEPT ![l].call = p]

(* Register, and one poll of WaitApproval or WaitJoined.  The empty id of a *)
(* Register that was answered without one is polled as /api/nodes/, which   *)
(* is no JSON: an error, each time.  Which handler serves a call does not   *)
(* matter.                                                                  *)
Ask(l) ==
  /\ Waits(l) /\ engine[l].call = NoProc
  /\ \E p \in Draw({q \in Procs : CanStart(q)}) :
       /\ IF engine[l].pc = "register" THEN Register(p, l)
          ELSE engine[l].id # NoId /\ Poll(p, engine[l].id)
       /\ engine' = Heard(CallWith(l, p))
  /\ UNCHANGED <<laptopVars, tuiVars, diagnostics>>

(* Register while the panel is down; a poll would only be repeated.         *)
Refused(l) ==
  /\ engine[l].pc = "register" /\ engine[l].call = NoProc /\ ~up
  /\ engine' = [engine EXCEPT ![l] = Lost(@)]
  /\ Silent /\ NoFault
  /\ UNCHANGED <<storeVars, k8sVars, proc, watcher, up, env, now, laptopVars,
                 tuiVars, diagnostics>>

(* The client gives up on a call whose handler is still at it, or whose     *)
(* answer is lost on the way.                                               *)
GiveUp(l) ==
  /\ engine[l].call # NoProc /\ Fault("lost")
  /\ engine' = [engine EXCEPT ![l] = Lost(@)]
  /\ Silent
  /\ UNCHANGED <<storeVars, k8sVars, proc, watcher, up, env, now, laptopVars,
                 tuiVars, diagnostics>>

(* Mutant: WaitJoined has no deadline.                                      *)
DeadlinePassed_ApprovalOnly(l) ==
  engine[l].pc = "approval" /\ (now >= engine[l].since + Timeout \/ now = MaxTime)

(* The clock of the model stops at MaxTime, which stands for all that comes *)
(* after it.                                                                *)
DeadlinePassed(l) ==
  /\ engine[l].pc \in {"approval", "confirm"}
  /\ now >= engine[l].since + Timeout \/ now = MaxTime

TimesOut(l) ==
  /\ DeadlinePassed(l)
  /\ engine' = [engine EXCEPT ![l] = Failed(@)]
  /\ Silent /\ NoFault
  /\ UNCHANGED <<storeVars, k8sVars, proc, watcher, up, env, now, laptopVars,
                 tuiVars, diagnostics>>

(* InstallToolkit; it may fail, and may have done its work all the same.    *)
InstallsToolkit(l) ==
  /\ engine[l].pc = "toolkit"
  /\ \/ /\ engine' = [engine EXCEPT ![l].pc = "agent"]
        /\ toolkit' = toolkit \cup {l}
     \/ /\ engine' = [engine EXCEPT ![l] = Failed(@)]
        /\ toolkit' \in {toolkit, toolkit \cup {l}}
  /\ Silent /\ NoFault
  /\ UNCHANGED <<storeVars, k8sVars, proc, watcher, up, env, now, hw, agent,
                 tuiVars, diagnostics>>

(* InstallAgent, likewise.                                                  *)
InstallsAgent(l) ==
  /\ engine[l].pc = "agent"
  /\ \/ /\ engine' = [engine EXCEPT ![l].pc = "confirm", ![l].since = now]
        /\ agent' = [agent EXCEPT ![l] = engine[l].token]
     \/ /\ engine' = [engine EXCEPT ![l] = Failed(@)]
        /\ agent' \in {agent, [agent EXCEPT ![l] = engine[l].token]}
  /\ Silent /\ NoFault
  /\ UNCHANGED <<storeVars, k8sVars, proc, watcher, up, env, now, hw, toolkit,
                 tuiVars, diagnostics>>

(* SaveDiagnostics: one file per request that is known, the last upload in  *)
(* place of the one before it.                                              *)
SaveDiagnostics(id) ==
  up /\ Known(nodes, id) /\ diagnostics' = diagnostics \cup {id}

(* doneWithBundle: the upload, whose outcome changes one word of the        *)
(* message.  failWithBundle writes its bundle to the laptop only.           *)
Uploads(l) ==
  /\ engine[l].pc = "upload"
  /\ \/ UNCHANGED diagnostics
     \/ SaveDiagnostics(engine[l].id)
  /\ engine' = [engine EXCEPT ![l].pc = "done"]
  /\ Silent /\ NoFault
  /\ UNCHANGED <<storeVars, k8sVars, proc, watcher, up, env, now, laptopVars,
                 tuiVars>>

(* A handler of the panel goes on.                                          *)
Handles(p) ==
  Continue(p) /\ engine' = Heard(engine)
  /\ UNCHANGED <<laptopVars, tuiVars, diagnostics>>

(* A crash resets the connections.                                          *)
PanelCrash ==
  /\ Crash
  /\ engine' = [l \in Laptops |-> IF engine[l].call = NoProc THEN engine[l]
                                  ELSE Lost(engine[l])]
  /\ UNCHANGED <<laptopVars, tuiVars, diagnostics>>

(* The agent on a laptop joins with the token it was installed with.        *)
LaptopJoins(l) ==
  /\ agent[l] # NoToken /\ Valid(agent[l])
  /\ AgentJoins(secrets[agent[l]].node) /\ UNCHANGED programVars

Panel ==
  \/ \E id \in Ids : Approve(id) \/ Deny(id) \/ NodeReady(id) \/ NodeUnready(id)
  \/ Watch \/ Boot \/ Tick

-----------------------------------------------------------------------------

(* A laptop that comes with the toolkit behaves like one with a TEST_GPU    *)
(* override, so that all start without it.                                  *)
OnboardingInit ==
  /\ Init
  /\ hw \in [Laptops -> Profiles]
  /\ toolkit = {}
  /\ agent = [l \in Laptops |-> NoToken]
  /\ tui = [l \in Laptops |-> Closed]
  /\ engine = [l \in Laptops |-> NotRun]
  /\ consented = {} /\ diagnostics = {}
  /\ runs = [l \in Laptops |-> 0]

EngineSteps(l) ==
  \/ Refused(l) \/ TimesOut(l) \/ InstallsToolkit(l) \/ InstallsAgent(l)
  \/ Uploads(l) \/ Ask(l)

OnboardingNext ==
  \/ \E l \in Laptops :
       Launch(l) \/ Press(l) \/ ShowDone(l) \/ Quit(l) \/ GiveUp(l) \/ LaptopJoins(l)
  \/ \E l \in Laptops : EngineSteps(l)
  \/ \E p \in Procs : Handles(p)
  \/ Panel /\ UNCHANGED programVars
  \/ PanelCrash

OnboardingSpec == OnboardingInit /\ [][OnboardingNext]_onboardingVars

(* The engine is a thread that does not wait for the user, its timers fire, *)
(* and the panel's handlers run; nobody has to press a key, approve a       *)
(* request or restart a program.                                            *)
OnboardingFairness ==
  /\ \A l \in Laptops : WF_onboardingVars(EngineSteps(l)) /\ WF_onboardingVars(ShowDone(l))
  /\ \A l \in Laptops : WF_onboardingVars(TimesOut(l))
  /\ \A p \in Procs : WF_onboardingVars(Handles(p))
  /\ WF_onboardingVars(Tick /\ UNCHANGED programVars)

FairOnboarding == OnboardingSpec /\ OnboardingFairness

-----------------------------------------------------------------------------
(* Properties *)

(* The type invariant; an installer runs only with a token and an id.       *)
ProgramTypeOK ==
  /\ hw \in [Laptops -> Profiles] /\ toolkit \subseteq Laptops
  /\ agent \in [Laptops -> Tokens \cup {NoToken}]
  /\ tui \in [Laptops -> Tuis] /\ engine \in [Laptops -> Engines]
  /\ consented \subseteq Laptops /\ diagnostics \subseteq Ids
  /\ runs \in [Laptops -> 0..MaxRuns]

(* The engine runs only on a machine that Qualify makes a Host, though the  *)
(* UI never calls it and goes by the colours of CheckRows: there is no way  *)
(* around a gate (hardware.go, 52-54).                                      *)
OnlyHostsJoin ==
  \A l \in Laptops :
    engine[l].pc # "off"
      => Qualify([hw[l] EXCEPT !.MasterOnline = tui[l].online]) = "Host"

(* The toolkit is never installed without the user's y in this run of the   *)
(* program, whatever was declined or backed out of before (D4).             *)
ToolkitNeedsConsent ==
  [][\A l \in Laptops : l \in toolkit' \ toolkit => l \in consented]_onboardingVars

(* A program launches one engine, which goes through its stages once,       *)
(* however keys, messages and answers arrive (main.go, 45-80).              *)
Stage(pc) ==
  CASE pc = "off" -> 0 [] pc = "register" -> 1 [] pc = "approval" -> 2
    [] pc = "toolkit" -> 3 [] pc = "agent" -> 4 [] pc = "confirm" -> 5
    [] pc = "upload" -> 6 [] pc \in Ended -> 7

OneEngine ==
  [][\A l \in Laptops :
       tui'[l].screen # "off" => Stage(engine[l].pc) <= Stage(engine'[l].pc)
     ]_onboardingVars

(* "This laptop is now a cluster Host" (runner.go, 135) is true when it is  *)
(* said: the laptop's own agent was let in and its node is labelled, also   *)
(* in a second run that finds the request joined.  True of laptops that     *)
(* differ in their fingerprint.                                             *)
DoneMeansHost ==
  \A l \in Laptops :
    engine[l].pc = "done" =>
      /\ agent[l] # NoToken
      /\ cluster[engine[l].id] # "none" /\ engine[l].id \in labelled

(* Once a laptop has an agent its request was approved and cannot be denied *)
(* any more, while the panel is up or down.  True as long as no save fails. *)
AgentMeansApproved ==
  \A l \in Laptops :
    agent[l] # NoToken =>
      Durable[secrets[agent[l]].node].status \in {"approved", "joined", "expired"}

(* Every run of the engine ends, with the panel down, an answer lost or the *)
(* operator absent: each of its waits has a deadline.                       *)
RunsEnd ==
  \A l \in Laptops : engine[l].pc # "off" ~> engine[l].pc \in Ended \cup {"off"}

=============================================================================
