---------------------------- MODULE StudentPortal ----------------------------
(***************************************************************************)
(* A student's browser in front of the session store: the launch page and  *)
(* the workspace page (web/src/pages/Launch.tsx, Workspace.tsx), the       *)
(* session routes they call (internal/httpapi/router.go, 76-130) and the   *)
(* gateway that serves the tools in the workspace's frames                 *)
(* (internal/gateway/session_gateway.go).                                  *)
(*                                                                         *)
(* It composes BrowserLogin, which says what token and what cookie a call  *)
(* carries, with SessionStore, which says what the panel does with it.  A  *)
(* call takes time on its way, in the panel and on its way back, so what a *)
(* page is told may be old when it is told.                                *)
(***************************************************************************)
EXTENDS SessionStore, BrowserLogin

CONSTANT Home   (* the tab whose pages are modelled; the other tabs only    *)
                (* sign in and out                                          *)

ASSUME PortalAssumption == Home \in Tabs /\ Names \subseteq Users

VARIABLES
  page,   (* the page open in Home and the React state of it                *)
  calls   (* per handler: the request it is for, or the answer to it        *)

portalVars == <<vars, loginVars, page, calls>>

ReadKinds     == {"detail", "poll", "appDetail", "appPoll"}
MutationKinds == {"create", "stop", "appStop"}
CallKinds     == ReadKinds \cup MutationKinds \cup {"list", "appList", "frame", "elsewhere"}

Free == [at |-> "free", kind |-> "list", id |-> NoId, token |-> NoToken,
         mounted |-> FALSE, reply |-> "none", status |-> "absent"]

(* The pages.  id and status are the page's session, NoId for null.         *)
Out == [at |-> "out", phase |-> "loading", id |-> NoId, status |-> "absent"]

Mounted(at) == [Out EXCEPT !.at = at]

Shown(pg, id, status, phase) == [pg EXCEPT !.id = id, !.status = status, !.phase = phase]

-----------------------------------------------------------------------------
(* Calls *)

(* A call as the browser sends it.  A frame carries the cookie, an API call *)
(* the tab's token; of a mutation the guard has compared the two before it  *)
(* reaches its route, and a refused one comes back at once with a 403.      *)
Call(kind, id) ==
  [Free EXCEPT !.kind = kind, !.id = id, !.mounted = TRUE,
     !.token = IF kind = "frame" THEN cookie ELSE creds[Home],
     !.at    = IF kind \in MutationKinds /\ ~Guard(cookie, creds[Home])
               THEN "answered" ELSE "sent",
     !.reply = IF kind \in MutationKinds /\ ~Guard(cookie, creds[Home])
               THEN "failed" ELSE "none"]

Send(p, kind, id) ==
  /\ calls[p].at = "free"
  /\ calls' = [calls EXCEPT ![p] = Call(kind, id)]

Answered(c, reply, id, status) ==
  [c EXCEPT !.at = "answered", !.token = NoToken, !.reply = reply, !.id = id,
            !.status = status]

(* bearerClaims and VerifyCookie: a 401 before the store is asked.          *)
Unauthorized(p) ==
  /\ calls[p].at = "sent" /\ server = "serving" /\ ~Live(calls[p].token)
  /\ calls' = [calls EXCEPT ![p] = Answered(@, "failed", NoId, "absent")]
  /\ UNCHANGED <<vars, loginVars, page>>

(* No panel answers, or the panel goes away under the request.              *)
Unanswered(p) ==
  /\ calls[p].at = "sent" /\ server # "serving"
  /\ calls' = [calls EXCEPT ![p] = Answered(@, "failed", NoId, "absent")]
  /\ UNCHANGED <<vars, loginVars, page>>

(* The store's part of the route.                                           *)
Route(p, kind, u, id) ==
  \/ kind \in ReadKinds /\ Get(p, u, id)
  \/ kind \in {"stop", "appStop"} /\ Delete(p, u, id)
  \/ kind = "create" /\ \/ CreateRefused(p, u)
                         \/ \E new \in Ids : Create(p, u, new)
  \/ kind \in {"list", "appList"} /\ List(p, u)
  \/ kind = "frame" /\ Current(p, u)

(* The record that goes into a good answer: what List copied, the new       *)
(* session as it was created, the stopped one, or the copy Get and Current  *)
(* read before they probed, unless they promoted it.                        *)
Told(kind, id, pc, u) ==
  CASE kind \in {"list", "appList"} ->
         IF HasActive(u) THEN <<byUser[u], sessions[byUser[u]].status>>
         ELSE <<NoId, "absent">>
    [] kind \in {"stop", "appStop"} -> <<id, "stopped">>
    [] kind = "create" -> <<id, "provisioning">>
    [] OTHER -> <<id, CASE pc = "probe" -> "provisioning"
                        [] pc = "promote" -> "ready"
                        [] OTHER -> sessions[id].status>>

(* Where the call is after its handler p has taken a step.                  *)
AfterStep(p, u) ==
  LET c == calls[p] IN
  calls' = [calls EXCEPT ![p] =
    IF proc'[p].pc # "idle" THEN [@ EXCEPT !.at = "running"]
    ELSE IF c.kind = "elsewhere" THEN Free
    ELSE IF answer'.reply \notin {"ok", "accepted"}
    THEN Answered(c, "failed", NoId, "absent")
    ELSE LET told == Told(c.kind, answer'.id, proc[p].pc, u)
         IN Answered(c, "ok", told[1], told[2])]

Arrive(p) ==
  LET c == calls[p] IN
  /\ c.at = "sent" /\ Live(c.token)
  /\ Route(p, c.kind, issued[c.token], c.id)
  /\ AfterStep(p, issued[c.token])
  /\ UNCHANGED <<loginVars, page>>

Work(p) ==
  /\ calls[p].at = "running" /\ Continue(p)
  /\ AfterStep(p, proc[p].user)
  /\ UNCHANGED <<loginVars, page>>

(* The same user in another browser, or through the API.                    *)
Elsewhere(p, u, id) ==
  /\ calls[p].at = "free"
  /\ Create(p, u, id) \/ Delete(p, u, id)
  /\ calls' = [calls EXCEPT ![p] =
                 IF proc'[p].pc = "idle" THEN Free
                 ELSE [Free EXCEPT !.at = "running", !.kind = "elsewhere"]]
  /\ UNCHANGED <<loginVars, page>>

(* Mutant: the requests that were in it are never answered.                 *)
PanelCrash_Hangs == Crash /\ UNCHANGED <<loginVars, page, calls>>

(* The panel crashes: every request in it comes back as an error.           *)
PanelCrash ==
  /\ Crash
  /\ calls' = [p \in Procs |->
                 IF calls[p].at # "running" THEN calls[p]
                 ELSE IF calls[p].kind = "elsewhere" THEN Free
                 ELSE Answered(calls[p], "failed", NoId, "absent")]
  /\ UNCHANGED <<loginVars, page>>

(* What goes on in the panel and in Kubernetes without the browser.         *)
Aside == UNCHANGED <<loginVars, page, calls>>

Around ==
  /\ Aside
  /\ \/ Boot \/ Serve
     \/ \E id \in Ids : Adopt(id) \/ Tombstone(id) \/ PodAvailable(id) \/ PodUnavailable(id)

-----------------------------------------------------------------------------
(* Pages *)

(* Mutant: the state outlives the page, as in a store of the whole module.  *)
Unmount_Never == calls

(* Leaving a page: its calls go on, but set no state of a page any more.    *)
Unmount == [p \in Procs |-> [calls[p] EXCEPT !.mounted = FALSE]]

(* The page at "to" is mounted with what table holds of the calls; its      *)
(* first effect lists the sessions.                                         *)
Mount(to, p, table) ==
  /\ page' = Mounted(to)
  /\ table[p].at = "free"
  /\ calls' = [table EXCEPT ![p] = Call(IF to = "launch" THEN "list" ELSE "appList", NoId)]

(* "/" and the end of a login lead a signed-in tab to the launch page, or   *)
(* to the page it was sent to the login from; the login page awaits its     *)
(* request, which does not outlive it.                                      *)
OpenPage(p) ==
  /\ page.at = "out" /\ creds[Home] # NoToken /\ form[Home].at = "quiet"
  /\ \E to \in {"launch", "app"} : Mount(to, p, calls)
  /\ UNCHANGED <<vars, loginVars>>

(* The browser's back button in the workspace.                              *)
Back(p) ==
  /\ page.at = "app" /\ Mount("launch", p, Unmount)
  /\ UNCHANGED <<vars, loginVars>>

(* What the launch page renders.                                            *)
Launching == page.at = "launch" /\ page.phase \in {"loading", "creating"}
Broken    == page.at = "launch" /\ page.phase = "error" /\ page.id = NoId
Panel     == page.at = "launch" /\ ~Launching /\ ~Broken
Waiting   == Panel /\ page.status \in {"provisioning", "stopping"}
Ready     == Panel /\ page.status = "ready"
Offering  == Panel /\ page.status \in {"absent", "stopped", "error"}

(* Retry: refresh() again.                                                  *)
Retry(p) ==
  /\ Broken /\ Send(p, "list", NoId)
  /\ UNCHANGED <<vars, loginVars, page>>

(* onLaunch, from the Launch button or from Retry after an error.           *)
Launch(p) ==
  /\ Offering
  /\ page' = [page EXCEPT !.phase = "creating"]
  /\ Send(p, "create", NoId)
  /\ UNCHANGED <<vars, loginVars>>

(* onStop, from Cancel or from "Yes, stop"; confirmStopNow.                 *)
ClickStop(p) ==
  /\ \/ (Waiting \/ Ready) /\ Send(p, "stop", page.id)
     \/ page.at = "app" /\ page.id # NoId /\ Send(p, "appStop", page.id)
  /\ UNCHANGED <<vars, loginVars, page>>

(* Mutant: only a session that stops is polled.                             *)
PollsWhile_Stopping == {"stopping"}

PollsWhile == {"provisioning", "stopping"}

(* The launch page's interval: every two seconds while the session is under *)
(* way, whether or not the last poll has been answered.                     *)
Poll(p) ==
  /\ page.at = "launch" /\ page.status \in PollsWhile
  /\ Send(p, "poll", page.id)
  /\ UNCHANGED <<vars, loginVars, page>>

(* The workspace's interval, every fifteen seconds.                         *)
AppPoll(p) ==
  /\ page.at = "app" /\ page.id # NoId
  /\ Send(p, "appPoll", page.id)
  /\ UNCHANGED <<vars, loginVars, page>>

(* "Open workspace" on the ready panel.                                     *)
OpenApp(p) ==
  /\ Ready /\ Mount("app", p, Unmount)
  /\ UNCHANGED <<vars, loginVars>>

(* A frame of the workspace asks the gateway for its tool.                  *)
LoadFrame(p) ==
  /\ page.at = "app" /\ Send(p, "frame", NoId)
  /\ UNCHANGED <<vars, loginVars, page>>

(* The tab signs out: RequireAuth unmounts the page.                        *)
SignOut ==
  /\ Logout(Home) /\ page' = Out /\ calls' = Unmount
  /\ UNCHANGED vars

(* The rest of what happens to tokens and cookies; the login page is not    *)
(* open in Home while another page is.                                      *)
Signing ==
  /\ \/ \E t \in Tabs, u \in Names : (t = Home => page.at = "out") /\ Submit(t, u)
     \/ \E t \in Tabs : \/ LoginRefused(t) \/ LoginDone(t) \/ LoginLost(t)
                        \/ server = "serving" /\ LoginServed(t)
     \/ \E t \in Tabs \ {Home} : Logout(t) \/ Duplicate(Home, t)
     \/ Expire \/ CookieDropped
  /\ UNCHANGED <<vars, page, calls>>

-----------------------------------------------------------------------------
(* Answers.  Free(p) is the table without the answer; what an unmounted     *)
(* page's call would set is not set.                                        *)

Taken(p) == [calls EXCEPT ![p] = Free]

SetPage(c, pg) == page' = IF c.mounted THEN pg ELSE page

(* The next call of the same callback.                                      *)
Follow(p, kind, id) ==
  calls' = [calls EXCEPT ![p] = [Call(kind, id) EXCEPT !.mounted = calls[p].mounted]]

(* refresh: list, then the detail of the active session, if there is one.   *)
ReceiveList(p) ==
  LET c == calls[p] IN
  /\ c.kind = "list"
  /\ \/ c.reply = "ok" /\ c.id # NoId /\ Follow(p, "detail", c.id) /\ UNCHANGED page
     \/ /\ c.reply = "ok" /\ c.id = NoId /\ calls' = Taken(p)
        /\ SetPage(c, Shown(page, NoId, "absent", "none"))
     \/ /\ c.reply = "failed" /\ calls' = Taken(p)
        /\ SetPage(c, [page EXCEPT !.phase = "error"])

ReceiveDetail(p) ==
  LET c == calls[p] IN
  /\ c.kind = "detail" /\ calls' = Taken(p)
  /\ SetPage(c, IF c.reply = "ok" THEN Shown(page, c.id, c.status, "live")
                ELSE [page EXCEPT !.phase = "error"])

(* The interval's callback: setSession with whatever came, however late.    *)
ReceivePoll(p) ==
  LET c == calls[p] IN
  /\ c.kind = "poll" /\ calls' = Taken(p)
  /\ SetPage(c, IF c.reply = "ok" THEN Shown(page, c.id, c.status, page.phase) ELSE page)

(* onLaunch goes on to refresh(); onStop does, and only warns of an error.  *)
ReceiveCreate(p) ==
  LET c == calls[p] IN
  /\ c.kind = "create"
  /\ \/ /\ c.reply = "ok" /\ Follow(p, "list", NoId)
        /\ SetPage(c, Shown(page, c.id, c.status, "live"))
     \/ /\ c.reply = "failed" /\ calls' = Taken(p)
        /\ SetPage(c, [page EXCEPT !.phase = "error"])

ReceiveStop(p) ==
  LET c == calls[p] IN
  /\ c.kind = "stop" /\ UNCHANGED page
  /\ IF c.reply = "ok" THEN Follow(p, "list", NoId) ELSE calls' = Taken(p)

(* navigate("/launch") from the workspace.                                  *)
ToLaunch(p) == Mount("launch", p, [Unmount EXCEPT ![p] = Free])

(* An effect of the workspace that ends in navigate(), which reaches the    *)
(* router also from an unmounted page, but moves only a page at "/app".     *)
Navigate(p) ==
  IF page.at = "app" THEN ToLaunch(p) ELSE calls' = Taken(p) /\ UNCHANGED page

ReceiveAppList(p) ==
  LET c == calls[p] IN
  /\ c.kind = "appList"
  /\ IF c.reply = "ok" /\ c.status = "ready"
     THEN Follow(p, "appDetail", c.id) /\ UNCHANGED page
     ELSE Navigate(p)

ReceiveAppDetail(p) ==
  LET c == calls[p] IN
  /\ c.kind = "appDetail"
  /\ IF c.reply = "ok"
     THEN calls' = Taken(p) /\ SetPage(c, Shown(page, c.id, c.status, page.phase))
     ELSE Navigate(p)

(* Mutant: the callback shows the status and stays.                         *)
ReceiveAppPoll_Stays(p) ==
  LET c == calls[p] IN
  /\ c.kind = "appPoll" /\ calls' = Taken(p)
  /\ SetPage(c, IF c.reply = "ok" THEN Shown(page, c.id, c.status, page.phase) ELSE page)

(* An error leaves the shell as it is; a session that is not ready is left. *)
ReceiveAppPoll(p) ==
  LET c == calls[p] IN
  /\ c.kind = "appPoll"
  /\ IF c.reply = "ok" /\ c.status # "ready" THEN Navigate(p)
     ELSE /\ calls' = Taken(p)
          /\ SetPage(c, IF c.reply = "ok" THEN Shown(page, c.id, c.status, page.phase)
                        ELSE page)

ReceiveAppStop(p) ==
  LET c == calls[p] IN
  /\ c.kind = "appStop"
  /\ IF c.reply = "ok" THEN Navigate(p) ELSE calls' = Taken(p) /\ UNCHANGED page

ReceiveFrame(p) == calls[p].kind = "frame" /\ calls' = Taken(p) /\ UNCHANGED page

Receive(p) ==
  /\ calls[p].at = "answered"
  /\ \/ ReceiveList(p) \/ ReceiveDetail(p) \/ ReceivePoll(p) \/ ReceiveCreate(p)
     \/ ReceiveStop(p) \/ ReceiveAppList(p) \/ ReceiveAppDetail(p)
     \/ ReceiveAppPoll(p) \/ ReceiveAppStop(p) \/ ReceiveFrame(p)
  /\ UNCHANGED <<vars, loginVars>>

-----------------------------------------------------------------------------

PortalInit ==
  /\ Init /\ LoginInit
  /\ page = Out /\ calls = [p \in Procs |-> Free]

Click(p) ==
  \/ OpenPage(p) \/ Back(p) \/ Retry(p) \/ Launch(p) \/ ClickStop(p)
  \/ OpenApp(p) \/ LoadFrame(p)

Answer(p) == Unauthorized(p) \/ Unanswered(p) \/ Arrive(p) \/ Work(p)

PortalNext ==
  \/ \E p \in Procs : Click(p) \/ Poll(p) \/ AppPoll(p) \/ Answer(p) \/ Receive(p)
  \/ \E p \in Procs, u \in Names, id \in Ids : Elsewhere(p, u, id)
  \/ PanelCrash \/ Around \/ SignOut \/ Signing

PortalSpec == PortalInit /\ [][PortalNext]_portalVars

(* Go runs its handlers and React its callbacks, the panel boots, pods come *)
(* up, and the two intervals go on firing for as long as their page wants   *)
(* them; strongly fair only because Procs bounds the calls under way.       *)
PortalRuns ==
  /\ \A p \in Procs : WF_portalVars(Answer(p) \/ Receive(p))
  /\ SF_portalVars(\E p \in Procs : Poll(p) \/ AppPoll(p))
  /\ WF_portalVars(Aside /\ (Boot \/ Serve \/ \E id \in Ids : Adopt(id) \/ Tombstone(id)))
  /\ WF_portalVars(Aside /\ \E id \in Ids : PodAvailable(id))

FairPortalSpec == PortalSpec /\ PortalRuns

-----------------------------------------------------------------------------
(* Properties *)

Statuses == ActiveStatuses \cup TerminalStatuses \cup {"absent"}

Pages ==
  [at : {"out", "launch", "app"}, id : Ids \cup {NoId}, status : Statuses,
   phase : {"loading", "none", "creating", "live", "error"}]

Calls ==
  [at : {"free", "sent", "running", "answered"}, kind : CallKinds,
   id : Ids \cup {NoId}, token : Tokens, mounted : BOOLEAN,
   reply : {"none", "ok", "failed"}, status : Statuses]

(* The type invariant.  A page shows a status if and only if it has a       *)
(* session, and a handler works for a call that is running.                 *)
PortalTypeOK ==
  /\ LoginTypeOK /\ page \in Pages /\ calls \in [Procs -> Calls]
  /\ page.id = NoId <=> page.status = "absent"
  /\ \A p \in Procs : calls[p].at = "running" <=> proc[p].pc # "idle"

(* However late its answer, no call shows a student the session of whoever  *)
(* was signed in before in the same tab.                                    *)
PageShowsOwnSession ==
  page.id # NoId => /\ creds[Home] # NoToken
                    /\ Durable[page.id].user = issued[creds[Home]]

(* While a signed-in workspace page shows a session that is active, the     *)
(* gateway never answers its frames that there is none and never shows them *)
(* another: Current, which goes by the cookie and byUser, and Get, which    *)
(* goes by the tab's token and the id, mean the same session.               *)
FrameAnswered(p) ==
  /\ calls[p].kind = "frame" /\ calls[p].mounted
  /\ calls[p].at \in {"sent", "running"} /\ calls'[p].at = "answered"
  /\ answer'.op = "current"

FramesShowPage ==
  [][\A p \in Procs :
       /\ FrameAnswered(p) /\ ~overlapped /\ Live(creds[Home])
       /\ page.at = "app" /\ page.id # NoId /\ Active(sessions, page.id)
       => /\ answer'.reply # "notFound"
          /\ calls'[p].status = "ready" => calls'[p].id = page.id]_portalVars

(* A stop that failed half-way: the session is still provisioning, and its  *)
(* Deployment is gone.                                                      *)
HalfDeleted ==
  /\ page.id # NoId /\ sessions[page.id].status = "provisioning"
  /\ "deployment" \notin cluster[page.id]

(* The stepper terminates (the comment at Launch.tsx:55): a launch page     *)
(* does not load, create or wait for ever, whatever answers overtake each   *)
(* other, whoever stops the session and whatever fails, with two            *)
(* exceptions: the token expires, after which every poll is a 401 and the   *)
(* page goes on polling; or the session is half deleted for good.           *)
Stepping == Launching \/ Waiting

StepperTerminates ==
  Stepping ~> (~Stepping \/ ~Live(creds[Home]) \/ []HalfDeleted)

(* A session that ended does not strand the user in an empty shell (the     *)
(* comment at Workspace.tsx:65), again unless the token expires first.      *)
Stranded ==
  /\ page.at = "app" /\ page.id # NoId
  /\ sessions[page.id].status \in TerminalStatuses

ShellIsLeft == Stranded ~> (page.at # "app" \/ ~Live(creds[Home]))

=============================================================================
