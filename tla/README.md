# Verification of LDNDRC

LDNDRC turns the laptops of a robotics lab into one K3s cluster and gives each
student a ROS 2 desktop on it. A Go control panel creates sessions (one
Kubernetes workload per user) and lets laptops join as hosts; a terminal
program, `ldndrc-join`, runs on the laptops; a React client and a small Gazebo
viewer run in browsers. This directory holds TLA+ models of it, the TLC
configurations that check them on small instances, and proofs checked by TLAPS.
Paths below are relative to `src/`; `control-panel/` is left out where the
rest of the path is clear.

## 1. Inventory

| Component | State | Operations | Interacts with |
|---|---|---|---|
| Session store, `internal/sessions/store.go` | `sessions`, `byUser` under one lock; `sessions.json` | Create, Get, Current, List, Delete, SetStatus, load, Reconcile | calls the provisioner outside the lock; called by routes, gateway, start-up |
| Kubernetes provisioner, `internal/sessions/kubernetes.go` | the PVC, Deployment and Service of each session, in the cluster | Apply (3 creates, undone on failure), Delete (3 deletes), Ready, WorkloadExists | Kubernetes API |
| Node store, `internal/nodes/store.go` | `nodes`, `byFingerprint` under one lock; `nodes.json` (written, then renamed) | Register, Approve, Deny, MarkMinted, MarkJoined, ExpireIfElapsed, SaveDiagnostics | routes, watcher |
| Token minter, `internal/nodes/tokens.go` | bootstrap-token Secrets with an expiry | MintToken (create, then read the CA hash) | Kubernetes API; the poll route |
| Node watcher, `internal/nodes/watcher.go` | none; works on a copy of the list | RunOnce every tick: Get, Patch the label, MarkJoined | node store, Kubernetes API |
| HTTP routes, `internal/httpapi/router.go` | the copy of a record a handler has read | five session routes; register, poll, approve, deny, diagnostics | both stores, minter |
| Panel process, `cmd/server/main.go` | running or not; its environment | load both files, reconcile, serve; crash and restart | everything above |
| Laptop program, `cmd/join`, `internal/join` | the screen, what was detected, the consent; the engine's stage, id and token | keys, `RunJoin`: register, wait, install, confirm, upload | node routes over HTTP, installers |
| Installers, hardware detection, discovery | the laptop: toolkit, k3s agent | `InstallToolkit`, `InstallAgent`, `Detect`, `DiscoverMaster` | the operating system, mDNS |
| Authentication and CSRF, `internal/auth/auth.go`, `internal/httpapi/csrf.go` | none: tokens are signed, the CSRF token is a function of the token | Issue, Verify, SetSessionCookie, IssueCSRF, VerifyCSRF, the guard of every mutation | login route, session routes, gateway |
| Session gateway, `internal/gateway/session_gateway.go` | none | verify the cookie, ask `Current`, proxy to the Service | session store, the frames of the workspace |
| Rate limiter, `newRateLimiter` in `router.go` | the times of hits per address, under a lock | allow | the registration route |
| Web client, `web/src` | a token per tab in sessionStorage, one cookie per browser, a page's copy of its session, intervals | Login, Launch, Workspace and Admin pages | session and node routes, gateway |
| Simulation viewer, `sim-web-app/src/main.js` | scene manager, subscription, retry timer, badge | connect, disconnect, retry | the Gazebo websocket |
| mDNS advertiser | none | announce at start, withdraw at exit | |
| Image scripts, join scripts, manifests, CI | none worth a model | | |

What is hard here, and what makes each part correct:

* **Sessions.** Two handlers run between any two Kubernetes calls; a save may
  fail after the memory was changed; the panel may die between any two steps.
  Correct means: one active session per user and per ROS domain, in memory and
  in what a restart would load; `byUser` names it; no workload without a
  record; ended sessions stay ended; a failed create ends; provisioning ends.
* **Join requests.** Polls, the operator and the watcher act on one record
  from copies; tokens expire; laptops retry. Correct means: one request per
  laptop, a life cycle without short cuts, no live token for an expired
  request, and *joined* only for a labelled node.
* **The laptop program.** Keys and messages race with the engine; calls are
  lost; the user quits at any moment. Correct means: only machines that
  qualify join, nothing is installed without consent or approval, "is now a
  cluster Host" is true when it is said, and every run ends.
* **The student's browser.** Every call takes time on its way in and back, so
  a page learns what was true once; answers overtake each other; pages go while
  their calls are under way; tabs share the cookie and not the token. Correct
  means: a page shows a session of whoever is signed in, the frames (which go
  by the cookie) show the session of the page (which goes by the token), and no
  page waits or stays empty for ever.
* **The limiter.** It forgets hits as it goes and does not record refused ones.
  Correct means: exact over every window.
* **The viewer.** Calls of `connect()` overlap and nothing cancels them.
  Correct means: one scene, one retry, and it does go on trying.

The full list of hazards, each at its line, is in `PROJECT.json`.

## 2. Modules

| Module | What it is |
|---|---|
| `SessionLease` | what the session store promises: a table of leases that forgets nothing |
| `SessionStore` | the store, the provisioner, the session handlers, start-up, crashes |
| `SessionStoreProofs` | its theorems, refinement of `SessionLease` included |
| `NodeLifecycle` | what onboarding promises for each join request |
| `NodeOnboarding` | the node store, its handlers, the minter, the watcher, crashes |
| `NodeOnboardingProofs` | its theorems, refinement of `NodeLifecycle` included |
| `Qualification` | the gates of `hardware.go` and the rows of `checks.go`, as operators |
| `QualificationProofs` | the rows agree with the gates, for every machine |
| `HostOnboarding` | the laptop program; extends `NodeOnboarding` and `Qualification`, and composes with both |
| `HostOnboardingProofs` | its theorems, over those of `NodeOnboarding` and `Qualification` |
| `BrowserLogin`, `BrowserLoginProofs` | signing in: tokens, the cookie, the CSRF guard, several tabs; its theorems |
| `StudentPortal` | the launch and workspace pages and the gateway; extends `SessionStore` and `BrowserLogin`, and composes with both |
| `StudentPortalProofs` | its theorems, over those of `SessionStore` and `BrowserLogin` |
| `RateLimiter`, `RateLimiterProofs` | the limiter in front of registrations and its theorems |
| `SimViewer`, `SimViewerProofs` | the viewer page and its theorems |
| `MCSessionStore`, `MCNodeOnboarding`, `MCHostOnboarding`, `MCFrontEnd` | symmetry, views, hardware profiles and scopes for TLC |

Definitions that begin with "Mutant:" in their comment are the same operators
with a plausible bug; no specification uses them. Each property of a passing
run is broken by one of them, which shows that the property depends on the
code it is about.

### SessionStore

`sessions` and `byUser` are the two maps, `disk` is what `sessions.json` holds
and `intact` whether it can be parsed. `cluster` and `available` are
Kubernetes. A request handler is a process of `Procs` with a program counter: a
section under the lock (with the save it ends in) is one step, each Kubernetes
call is one step. `Create` is the whole locked section of `store.go:169-212`;
then `ApplyCreates` runs once per resource, `Undo` and `FailCreate` are the
failure path. `Delete` reads, `DeleteResource` runs three times, `Stop` is the
last `setStatus`. `Get` and `Current` read, `Probe` asks Kubernetes,
`Promote` sets *ready*. `Crash`, `Boot`, `Adopt`, `Tombstone` and `Serve` are
the death of the process, the load and `Reconcile`, one record at a time.

A save has three outcomes (`Save`): it succeeds, it is refused and leaves the
file, or it is torn and leaves a file no start can parse. The code rolls
`Create` back by hand on a failed save and does not roll `setStatus` back;
both are as in the code. `Fault` bounds faults by `MaxFaults` and by kind.

ROS domains run from `FirstDomain` to `LastDomain` (100 to 232 in the code).
An id is drawn at most once (it is six random bytes). Status `stopping`
reaches the store through `SetStatus` only; `ApiStatuses` says which statuses
a caller of that function uses.

### NodeOnboarding

`nodes`, `byFingerprint`, `disk`: the node store. `secrets` are bootstrap
tokens with their expiry and whether a response has carried them. A poll takes
the lock up to three times around the call that mints (`router.go:184-223`), so
its handler carries the copy it read. `watcher` is one tick: the records it
has yet to look at and the one it works on. `now` is a clock that `Tick`
advances; it stops at `MaxTime`, a bound of the model. `env` is the panel's
environment: `AUTO_APPROVE`, `K3S_JOIN_URL`, and whether it runs in a cluster;
outside of one it has no minter, so that approved polls are answered 503, and
no watcher (`main.go:47-78`).

Saves here are whole (temporary file and rename): one succeeds or fails.

### HostOnboarding

Each laptop has its hardware, its toolkit and agent, a UI (`tui`) and an
`engine`. The UI is one event loop: `Launch`, `Press`, `ShowDone`, `Quit`. The
engine launches in `Update` of `cmd/join/main.go`. A call is handed to a
handler of the panel (`Ask`); the step in which the handler answers is the one
in which the engine hears it, unless it gave up before (`GiveUp`). Installers
may fail and have done their work all the same, and outlive a `Quit`.

### BrowserLogin

`issued` is the list of logins the panel answered; a token is its place in it,
and its CSRF token is bound to it one to one (`IssueCSRF` is a keyed hash of
the token). One lifetime for all makes the oldest expire first, so `expired` is
a count. `cookie` is the one cookie of the browser, `creds` what each tab keeps
in sessionStorage, `form` the login request of each tab, which carries the
cookie of the moment it was sent. `Submit`, `LoginServed` and `LoginDone` are
sending, serving and the arrival of the answer; `LoginRefused` is the guard's
403. `CookieDropped` is the browser at the cookie's Max-Age, which is counted
from the answer and so never ends before the token. Tokens issued to one user
in one second are the same string in the code; the model keeps them apart.
`overlapped` is auxiliary: two logins without a cookie were under way at once.

### StudentPortal

`page` is the page open in one tab (`Home`) with its React state, `calls` one
call per handler: on its way (`sent`), in the panel (`running`), on its way
back (`answered`). `Arrive` and `Work` run the very actions of `SessionStore`;
`Told` is the copy of the record that the answer carries, which may be older
than the last step of the handler. `Receive` takes the answers in any order.
A page that is left is unmounted: its calls go on, and set nothing
(`SetPage`), but a `navigate()` of the workspace still reaches the router.
A page opens in a tab that is signed in and awaits no login, because the login
page is gone once it has led there (`OpenPage`).
`Elsewhere` is the same user in another browser. `PanelCrash` turns every
request in the panel into an error. The other tabs sign in and out only.

### RateLimiter

`log` is every request in the order of the mutex, a history; `hits` names, per
address, those whose times the map holds. `Kept` is the filter of
`router.go:319-324`, whose window is open at its old end.

### SimViewer

One event loop. What runs without an await is a step; `connect()` has two
awaits, so a call is in `probe` or `load` between its steps. Every listener of
the page that changes state is an action. `wanted` and `hurried` are auxiliary:
whether the user last asked the page to connect by itself, and whether Connect
was ever clicked with a call under way. gzweb's own `disconnect` and
`unsubscribe` are taken not to throw.

## 3. Runs

| Run | Instance | Shows |
|---|---|---|
| `session_store` | 2 users, 2 ids, 2 handlers, 2 domains, 2 faults of file, API or process | exclusiveness, `byUser`, no orphan workload, ended stays ended, failed creates end, safe reconciliation, the lease table up to stale restarts |
| `session_live` | 1 user, 2 ids, 2 handlers, 1 crash or pod failure | refinement of `SessionLease` across the restart, every request ends, provisioning resolves, a ready session is complete |
| `session_delete` | as the first, no faults | violated: a DELETE that overtakes Apply leaves a workload of a stopped session |
| `session_torn` | as the first, torn saves and a crash | violated: the panel cannot start from half a file |
| `session_list` | 1 user | violated: polling the list, as the project's README says, never shows *ready* |
| `node_store` | 2 laptops, 2 ids, 2 tokens, 2 handlers, automatic approval beside the operator's, 2 faults of file or process | one request per laptop, joined means labelled, the life cycle up to stale restarts |
| `node_live` | 2 laptops, 1 handler, 1 API fault, crash or node failure | expired requests have no live token, refinement of `NodeLifecycle`, the watcher gets to every laptop, a lost token is replaced |
| `node_token` | 1 laptop, 2 handlers, no faults | violated: two polls mint two tokens for one approval |
| `node_label` | 1 laptop, 1 handler, no faults | violated: a node whose request expired is never labelled |
| `host_onboarding` | 1 laptop that runs the program twice, 2 handlers, 1 lost call, crash or node failure, three environments, 8 profiles | the properties of the laptop program |
| `front_end` | 2 tabs, 2 users, 2 ids, 2 logins, 2 calls under way, 1 fault, in seven scopes; the limiter with 2 addresses, limit and window 2, 5 requests | tabs act as their cookie, pages show their user's session, frames show the page's session, no page hangs, a lock-out ends; the limiter is exact |
| `sim_viewer` | 3 calls or scenes at once | one retry, one scene, goes on trying, connects at last |

**Why the bounds are enough.** Every property is about at most two users,
sessions, laptops or domains, so two of each meet. Two domains make the choice
succeed past a used one; with both in use the two users have their sessions, so
that a refusal for want of a domain is never met with an id left: that takes
three users, which is out of TLC's reach with faults, and the theorem `Exclusive`
covers it. Two handlers give every
interleaving of two requests; a third would need a hazard of three parties,
and none was found reading the code. Two faults allow a failure and then a
crash, which is what stale and torn files need. Three ticks allow minting,
expiry and a renewed approval. Profiles sit on each bar and one below it; what
lies between is covered by a theorem. Three viewer calls allow a leaked scene,
a call under way and another beside it.

`front_end` explores seven scopes side by side, because all at once would be
out of reach; a scope (a record in `MCFrontEnd`) bounds who takes part and how
often, never what a step does. `SigningIn`: two tabs, two users, two logins,
expiry, no pages. `Overtaking`: one user, one session, both pages, two calls
that overtake each other, another browser that stops the session.
`Succeeding`: the same on the launch page alone, with one session after
another. `Failing`: one call at a time and one crash, lost pod or API error.
`Replacing`: one call at a time, two sessions, both pages, another browser.
`Sharing`: a second tab where another user signs in, with frames. `Registering`:
the limiter. What no scope has together is two sessions with overlapping calls
in the workspace, or overlapping calls together with a fault.

Symmetry is used in runs without liveness only. `StateButAnswer` is a view
that drops `answer`, which no action reads.

`CHECK_DEADLOCK FALSE` is given where the ids or the program's runs run out and
the system really stops.

**Fairness.** Go runs every goroutine that is ready: weak fairness of each
handler's next step, of start-up and of the watcher's ticker. A pod comes up
at last and an agent becomes a node: the assumption on Kubernetes. The launch
page polls a provisioning session again and again (`Launch.tsx:56-72`): strong
fairness, because the number of handlers is a bound of the model, and the server
starts one per request. Of a laptop no such thing is assumed: it stops polling
as soon as it has an answer, at its deadline or when its user quits
(`register.go:92-129`). `LostTokenIsReplaced` therefore has it as a hypothesis,
in the property and not in the specification: users who start the program again
and again and an operator who approves each request that expires. TLC refutes
the property without either.
In `StudentPortal` the two intervals take the place of that assumption: they
are actions of the page and strongly fair, again because the model bounds the
calls under way, while handlers, callbacks, start-up and pods are weakly fair.
Time need not pass there: `StepperTerminates` and `ShellIsLeft` hold in a
session that never expires; `LockoutEnds` has the passing of time as its
hypothesis.
In the viewer, timers fire and promises settle; an endpoint that is up each
time it is probed is reached at last. Nobody is assumed to press a key, to
approve a request or to delete a session.

### What the code does otherwise than its documents say

The five violated properties are the findings of `PROJECT.json`, each with the
line it contradicts. Other behaviour seen while modelling, which contradicts no
document unless it says so:

* A session that ended as *error* answers DELETE with a 500, after its
  resources were removed: the transition to *stopped* is refused.
* A session adopted at start with its Deployment but not its Service is ready
  for ever; nothing completes it. `ReadyIsComplete` is therefore stated for
  behaviours without faults.
* Nothing but a poll lets an approved request expire (`router.go:190`). One whose
  installer failed, and whose laptop has stopped asking, stays *approved* for
  ever, with a dead token; the operator cannot approve it anew, because Approve
  refuses what is approved, until the laptop has polled once more. The diagram
  at `onboarding-design-report.md:440` has it expire as soon as the TTL has
  passed unused; there is no run of that, only this note.
* The Deployment that a failed removal or an overtaken DELETE leaves of an ended
  session keeps its ROS domain, which the next session is given.
* Without `K3S_JOIN_URL`, the first poll mints a token and answers 503; the
  second has no token to give and the laptop gives up.
* A call of `connect()` that is under way when the user disconnects still
  creates its scene, with the Disconnect button disabled. A click on Connect
  then drops what a second call has created. `OneScene` excludes exactly that
  click (`hurried`).
* A click on Connect with a bad URL ends the automatic retries though the box
  stays ticked; the same from the retry timer does not.
* Logging in with a leftover cookie is answered 403, since the guard covers the
  login route and the form sends no CSRF token. "Sign out" leaves the HttpOnly
  cookie (`ClearSessionCookie` is never called), so that whoever signs out
  cannot sign in again in that browser until the cookie ends, and the gateway
  goes on serving it. `docs/roadmap.md:116` plans to exempt the login route:
  that is the mutant `Guard_SkipsLogin`, and with it a second tab could
  sign in as somebody else under the pages of the first (`FramesShowPage`).
* Two first logins that cross both pass the guard; the later cookie wins, and
  one tab's mutations are 403 from then on (`overlapped`).
* The "Open desktop" link opens a tab without an opener, so without the
  sessionStorage: it lands on the login page, where the login is refused.
* The sign-out listener of `auth.tsx:54` listens for changes of sessionStorage,
  of which other tabs are not told.
* When the token expires, the workspace shell stays: the 401 of its interval is
  ignored. `ShellIsLeft` and `StepperTerminates` except that case.
* A launch page that shows *stopped* polls nothing: it does not find a session
  started elsewhere, and its Launch button answers 409 until it is reloaded.
* A late *ready* answer after a stop puts the ready panel back, and it stays
  until the user does something: a ready session is not polled there.
* A DELETE that fails half-way leaves a session that is still provisioning, with
  no Deployment: its page polls until the user stops it again (`HalfDeleted`).
* `Workspace.tsx:258` tells the user that his work is kept on the home volume;
  DELETE removes the PVC.
* The gateway proxies on a status it read before the answer; the session may
  have ended since.
* The limiter's map keeps an entry for every address for ever.
* Two laptops of one model and host name have one fingerprint and share a
  request. The models give each its own.

## 4. Proofs

`tlapm` checks every theorem with its SMT solver, Zenon and LS4.

**SessionStore.** For all users, ids, handlers, domains and faults, under the
assumptions on the constants named in the module. The properties are not
inductive alone; `Inv` adds that the memory is empty while the panel is down
(`DownIsEmpty`), that memory and file know the same ids while it is up
(`KnownOnDisk`: without it a restart could orphan a workload), that an active
session has an owner, and that a handler works on a session that exists
(`HandlersHaveSession`). The proof goes by what the steps do to the maps:
each is a save of some kind, an addition, a status change, or none
(`StoreSteps`); lemmas show that each of those keeps a map exclusive
(`MapsStep`), keeps the handlers' sessions (`HandlersStep`), and that Kubernetes
holds nothing unrecorded (`ClusterSteps`). `Invariant` is `Spec => []Inv`; from
it follow `TypeCorrect`, `Exclusive`, `OwnersFindSessions`, `NoOrphanWorkload`,
and with it the action properties `EndedStaysEnded`, `ReconcileIsSafe` and
`FailedCreateEnds`.

Refinement: `OnlyStaleRestartForgets` shows every step to be a lease step, or
none, unless it is a crash that finds the file behind the memory.
`StoreImplementsLease` shows the whole of `SessionLease`'s specification, for
behaviours in which no save fails.

`ReadyHasAll` is of behaviours before their first fault, where a memory without
history is not enough: each resource of an active session exists, or a create
that is under way has yet to create it, unless a delete has begun to remove
(`ActiveAreBuilt`); and a delete that has begun goes on to stop the session, so
whoever finds it ready finds the delete's handler still at work.

Two claims of the documents that a run refutes hold under a condition, and the
condition is what they lack. `StoppedIsGone`: a stopped session has nothing
left in Kubernetes (`README.md:221`), while no DELETE overtakes the POST that
is still applying the resources (`Overtaken`), the panel does not crash and no
other code sets a status; a removed resource then stays removed (`GoneStays`,
in `GoneInv`). `OnlyTornBlocksStart`: a panel that went down can read its file
again (`store.go:59-61`), unless a torn write and a crash come together.

`ReconcileIsComplete` is the other half of `ReconcileIsSafe`: where the
Kubernetes API answers, a panel that starts to serve has ended every session
whose Deployment is gone. `RequestsAreShort` is the safety half of
`RequestsEnd`: each step of a request brings it closer to its end
(`Remaining`), no step of another moves it, and it has six steps at the most;
what is left to fairness is that the server runs it. `LeasePromise` is about
`SessionLease` alone and says what `StoreImplementsLease` is worth: of everything that implements `SessionLease`, no two
live leases are of one user or domain, none is taken back, and none changes its
owner.

**Qualification.** `RowsAgree`: no red row exactly when `Qualify` says Host, for
every hardware. The UI never calls `Qualify`, so this is what makes the rows a
gate.

**SimViewer.** For any number of calls. `CallFindsNothing` is the added part:
`connect()` disconnects before its first await, so that the only call under
way finds the page empty when it goes on.

**BrowserLogin.** For any tabs, users and number of logins. `LoneLogin` is what
`TabsActAsCookie` needs: as long as no two first logins crossed, a login that
will be answered is the only one, was sent without a cookie, and finds no tab
with a live token.

**RateLimiter.** For any addresses, limit and window. The map forgets, so the
invariant relates it to the log: the hits that still count are exactly the
requests that went in since (`HitsAreAdmitted`), and they are within the limit
(`HitsAreFew`).

**NodeOnboarding.** For any laptops, requests, tokens, handlers, lifetimes and
faults. `StoreSteps`, `SecretSteps`, `HandlerSteps` and `ClusterSteps` say what
a step may do to each part of the state; everything else goes by them. `Inv`
adds to the properties: a panel that is down remembers nothing
(`DownIsEmpty`), a handler works on a request that exists
(`HandlersHaveRequest`), one that is to mint works on a request that was
approved at some time, so that it is not found undecided again
(`MintersAreDecided`), a token that is about to be recorded has its Secret, as
has whatever was recorded or joined (`MarkersHaveSecret`, `MintedHaveSecret`),
and the watcher marks what it labelled and labels what has joined
(`WatcherFollows`). From it follow `TypeCorrect`, `OneRequest`,
`OnlyHostsAreJoined` and, step by step, `OnlyStaleRestartDeparts`: every step
is one of `NodeLifecycle`, or none, unless it is a crash that finds the file
behind the memory. Where no save fails, `StoreImplementsLifecycle` shows the
whole of the refinement and `ExpiredIsDead` that an expired request has no live
token. The latter needs the two clock readings put in order: a handler that is
about to mint read the clock before any mark that its record has by now
(`MintersAreEarly`), so that a Secret ends no later than its request
(`SecretsEnd`).

`OnlyByApproval` is about what nobody may get around: without an approval a
request has no Secret, no node and no label. Its condition is tight. It needs
that no save fails or that the panel does not crash; with both, a restart can
turn an approval that was acted on back into a request still to be decided.
`OneTokenAlone` states when the comment at `register.go:34-35`, which
`node_token` refutes, is true: while saves succeed and no two polls of one
request are under way at once (`PollsOverlap`), the only handler that may give
a token finds none that is good (`SingleInv`). `SentOnce` needs no condition:
a token is in one response only, to a poll of its own request, because no two
handlers are ever about to send the same one (`MarkersAreFresh`).
`NodeRequestsAreShort` bounds every request to the node API by three steps of
its own, and `LifecyclePromise`, about `NodeLifecycle` alone, says what
`StoreImplementsLifecycle` is worth: credentials
are of approved requests, a denial is never reopened, no host becomes none.

**HostOnboarding.** For any laptops, hardware, timeouts and number of runs,
and whatever is said above of the panel. `PanelSteps` shows every step to be
one of the panel's `Next` or one the panel does not see, so that its invariant
holds in the composition too (`PanelPromises`). The program's side goes by what
a step may do to the machine (`Fits`), to the screen and the engine's gate
(`Guarded`) and to an engine that runs (`Follows`). What makes the answers
worth believing is in the rest of `OnboardingInv`: a call is served by a handler
that works on the caller's own request (`CallsServed`), a request stays its
laptop's for good (`BelongsStays`), tokens and agents are of the laptop's own
request (`OwnTokens`, `OwnAgents`), a node is the doing of such an agent
(`NodesHaveAgent`), and a handler that has read *joined* works on a labelled
node (`JoinedCopies`). From these follow `DoneIsTrue`, `Consent`, `HostsOnly`
(with `RowsAgree`), `SingleEngine` and `ProgramTypes`. `JoinsAsItself` puts the
owners together: a token that a laptop holds or has installed is of its own
request in memory and file, so that it joins as its own node. `AgentApproved`
adds, where no save fails, that whoever has a Secret is approved in the file as
well. `ProgramImplementsLifecycle` and `ProgramDepartsOnlyByRestart` carry the
refinement over to the composition: a step that the panel does not see shows
nothing of the life cycle, so users who quit, calls that get lost and laptops
that come back add no way out of it.

**StudentPortal.** For any tabs, users, logins, sessions, handlers and faults.
`StoreSees` and `LoginSees` show every step to be a step of the session store
and of the login, or one that they do not see, so that the invariants of both
hold in the composition. What it adds is whose a session is. On the store's
side: memory and file name the same owner (`OwnersAgree`), an owner never
changes (`OwnersStay`), a `byUser` entry is of its user (`EntriesOwn`), and a
handler works on a session of whoever it was started for (`HandlersOwn`). On
the browser's side: a call that can still set the page's state was sent, is
served and is answered for whoever is signed in (`CallOwned`), and the page
shows a session of his (`PageGood`); an answer for somebody else finds its page
unmounted. Hence `OwnSession` and `PortalTypes`. `FramesAgree` adds the cookie:
while the token is good and no two first logins crossed, token and cookie mean
one user (`TabsActAsCookie`), and `byUser` has one active session of his
(`EntryIsShown`), so the gateway's and the page's are the same.
`PortalImplementsParts` states the composition as a refinement of each half, so
that all that is proved of `SessionStore` and `BrowserLogin` holds under the
pages of the portal; `PortalImplementsLease` is one use of it. `OnlyOwners` is
what ownership is for: a step that changes a session or its workload while the
panel serves is one of a request of its owner, and one that ends it or removes
a part of it is of the owner's DELETE or of the POST that made it. The handlers
work on an id they read before the unlock; it is `HandlersOwn` that makes the
check at the beginning of a request count until its end. As above, no code
outside the store sets a status (`ApiStatuses`).

**Model-checked only.** Liveness and whatever depends on fairness, which is
out of the prover's reach here: the request, pod and stepper liveness of
`session_live`, `node_live`, `host_onboarding`, `front_end` and `sim_viewer`.
Of these, `RequestsEnd`, `RunsEnd` and `AutoConnects` have their safety half
proved (`RequestsAreShort` and `NodeRequestsAreShort`, `SingleEngine`,
`ViewerKeepsTrying`).

## 5. Not modelled

* The proxying of the gateway, the mDNS advertiser, the signing of tokens,
  the manifests a session is made of: I/O or pure library calls.
* The text of answers, logs and screens; the join key.
* The Admin page (it lists and approves; the node routes it calls are modelled),
  the desktop page, split panes, a reload of the browser.
* Shell commands of the installers: a step that succeeds or fails.
* Image scripts, join scripts, manifests, CI. One replica with one volume is
  an assumption of the models: one process writes each file. The gate of
  `join-cluster.sh` is a second copy of that of `hardware.go` and is not
  compared with it.
* A graceful shutdown: the process only dies.
* Taking a laptop out again: uninstalling its k3s agent, deleting its cluster
  node. `DoneMeansHost` and what is proved of it do not speak of that.

## 6. Plan

In the order of what it would add:

1. A run with laptops that share a fingerprint, and one with two laptops that
   compete for tokens.
2. The Admin page and a reload of the browser; the full-screen desktop page.
3. A graceful shutdown of the panel, with handlers that go on for a while.
4. Proofs: that the answer of a running request reaches the page it was asked
   from with the owner the token named (`OnlyOwners` starts from the user the
   handler was given), and `OneTokenAlone` under what a laptop does, whose polls
   overlap only after a lost call or a second run.
