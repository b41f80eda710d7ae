----------------------------- MODULE SimViewer -----------------------------
(***************************************************************************)
(* The Gazebo viewer page (sim-web-app/src/main.js).  One event loop runs  *)
(* the listeners, the retry timer and the continuations of connect(), each *)
(* to its next await; what runs without an await is one step here.         *)
(*                                                                         *)
(* connect() first disconnects, then awaits a probe of the websocket and   *)
(* the gzweb package, and then creates a scene manager.  Nothing cancels a *)
(* call that is under way, so two of them may overlap, and a call may come *)
(* to its end after the user has disconnected.                             *)
(*                                                                         *)
(* External: the endpoint, gzweb and its status events.  The render        *)
(* watchdog, which only logs, and the log itself are left out.             *)
(***************************************************************************)
EXTENDS Naturals

CONSTANT MaxCalls   (* bound on the calls of connect() with a trace left   *)

ASSUME CallsAssumption == MaxCalls \in Nat \ {0}

VARIABLES
  page,    (* the globals, the badge and the buttons; see Pages            *)
  call,    (* per call of connect(): where it is                           *)
  auto,    (* the auto-connect box is ticked                               *)
  wsUrl,   (* the field holds a URL validateWebSocketUrl takes             *)
  up,      (* the endpoint accepts websockets                              *)
  wanted,  (* auxiliary: the page is to connect by itself, see Wants       *)
  hurried  (* auxiliary: Connect was clicked with a call under way         *)

vars == <<page, call, auto, wsUrl, up, wanted, hurried>>

Calls  == 1..MaxCalls
NoCall == 0

(* A scene manager and its subscription are named by the call that created  *)
(* them.  armed counts the retry timeouts that are pending, retryTimer      *)
(* tells whether the global names one; managers are those that were created *)
(* and not disconnected.  One of the two buttons is enabled, always.        *)
Pages ==
  [retryTimer : BOOLEAN, armed : 0..1,
   sceneManager : Calls \cup {NoCall}, managers : SUBSET Calls,
   statusSubscription : Calls \cup {NoCall}, subscribed : SUBSET Calls,
   badge : {"idle", "waiting", "connecting", "connected", "error"},
   canConnect : BOOLEAN]

(* The page when the script starts.                                         *)
Fresh ==
  [retryTimer |-> FALSE, armed |-> 0, sceneManager |-> NoCall, managers |-> {},
   statusSubscription |-> NoCall, subscribed |-> {}, badge |-> "idle",
   canConnect |-> TRUE]

InFlight == {c \in Calls : call[c] # "none"}

(* The lowest slot of the bound that neither runs nor has left a manager.   *)
Free(c) ==
  LET slots == Calls \ (InFlight \cup page.managers)
  IN  c \in slots /\ \A d \in slots : c <= d

-----------------------------------------------------------------------------
(* The functions of the page, from the globals before to those after *)

(* Mutant: a timeout that is pending does not keep another from being set.  *)
Scheduled_Again(pg) ==
  IF ~auto THEN pg
  ELSE [pg EXCEPT !.retryTimer = TRUE, !.armed = @ + 1, !.badge = "waiting"]

(* scheduleRetry *)
Scheduled(pg) ==
  IF ~auto \/ pg.retryTimer THEN pg
  ELSE [pg EXCEPT !.retryTimer = TRUE, !.armed = @ + 1, !.badge = "waiting"]

(* Mutant: the scene manager is dropped, not disconnected.                  *)
Disconnected_KeepsScene(pg) ==
  [retryTimer |-> FALSE,
   armed |-> IF pg.retryTimer THEN pg.armed - 1 ELSE pg.armed,
   sceneManager |-> NoCall, managers |-> pg.managers,
   statusSubscription |-> NoCall,
   subscribed |-> pg.subscribed \ {pg.statusSubscription},
   badge |-> "idle", canConnect |-> TRUE]

(* disconnect *)
Disconnected(pg) ==
  [retryTimer |-> FALSE,
   armed |-> IF pg.retryTimer THEN pg.armed - 1 ELSE pg.armed,
   sceneManager |-> NoCall, managers |-> pg.managers \ {pg.sceneManager},
   statusSubscription |-> NoCall,
   subscribed |-> pg.subscribed \ {pg.statusSubscription},
   badge |-> "idle", canConnect |-> TRUE]

(* connect, up to its first await; the URL has been accepted.               *)
Connecting(pg) ==
  [Disconnected(pg) EXCEPT !.badge = "connecting", !.canConnect = FALSE]

(* fail, with the buttons as a catch sets them.                             *)
Caught(pg) == [pg EXCEPT !.badge = "error", !.canConnect = TRUE]

(* The badge as fail leaves it, without the buttons.                        *)
Complained(pg) == [pg EXCEPT !.badge = "error"]

(* The rest of connect: the scene manager, and its status observer unless   *)
(* this gzweb has none or throws.                                           *)
WithScene(pg, c) ==
  [pg EXCEPT !.sceneManager = c, !.managers = @ \cup {c}]

Observed(pg, c) ==
  [pg EXCEPT !.statusSubscription = c, !.subscribed = @ \cup {c}]

-----------------------------------------------------------------------------
(* The user *)

(* What the user last asked of the page: to connect and, the box being      *)
(* ticked, to go on trying.                                                 *)
Wants(yes) == wanted' = yes

ClickConnect ==
  /\ page.canConnect
  /\ IF wsUrl
     THEN \E c \in Calls :
            /\ Free(c) /\ call' = [call EXCEPT ![c] = "probe"]
            /\ page' = Connecting(page)
            /\ hurried' = (hurried \/ InFlight # {})
            /\ Wants(auto)
     ELSE /\ page' = Caught(Disconnected(page))
          /\ Wants(FALSE) /\ UNCHANGED <<call, hurried>>
  /\ UNCHANGED <<auto, wsUrl, up>>

ClickDisconnect ==
  /\ ~page.canConnect
  /\ page' = Disconnected(page) /\ Wants(FALSE)
  /\ UNCHANGED <<call, auto, wsUrl, up, hurried>>

(* The box has no listener: a timeout that is pending stays.                *)
TickAuto ==
  /\ auto' = ~auto
  /\ wanted' = (wanted /\ auto')
  /\ UNCHANGED <<page, call, wsUrl, up, hurried>>

EditUrl ==
  /\ wsUrl' = ~wsUrl
  /\ UNCHANGED <<page, call, auto, up, wanted, hurried>>

-----------------------------------------------------------------------------
(* The retry timer and the continuations of connect *)

(* Mutant: connect() is called without its catch.                           *)
RetryFires_NoCatch ==
  LET fired == [page EXCEPT !.armed = @ - 1, !.retryTimer = FALSE] IN
  /\ page.armed > 0
  /\ IF wsUrl
     THEN \E c \in Calls : /\ Free(c) /\ call' = [call EXCEPT ![c] = "probe"]
                           /\ page' = Connecting(fired)
     ELSE page' = Complained(Disconnected(fired)) /\ UNCHANGED call
  /\ UNCHANGED <<auto, wsUrl, up, wanted, hurried>>

RetryFires ==
  LET fired == [page EXCEPT !.armed = @ - 1, !.retryTimer = FALSE] IN
  /\ page.armed > 0
  /\ IF wsUrl
     THEN \E c \in Calls : /\ Free(c) /\ call' = [call EXCEPT ![c] = "probe"]
                           /\ page' = Connecting(fired)
     ELSE page' = Scheduled(Complained(Disconnected(fired))) /\ UNCHANGED call
  /\ UNCHANGED <<auto, wsUrl, up, wanted, hurried>>

(* The socket of the probe opens in time.  A socket that opens after the    *)
(* timeout is closed and nobody hears of it.                                *)
ProbeOpens(c) ==
  /\ call[c] = "probe" /\ up
  /\ call' = [call EXCEPT ![c] = "load"]
  /\ UNCHANGED <<page, auto, wsUrl, up, wanted, hurried>>

(* gzweb is there and the manager is created, observed or not.              *)
SceneStarts(c) ==
  /\ call[c] = "load"
  /\ call' = [call EXCEPT ![c] = "none"]
  /\ page' \in {WithScene(page, c), Observed(WithScene(page, c), c)}
  /\ UNCHANGED <<auto, wsUrl, up, wanted, hurried>>

(* Mutant: a probe that fails is final.                                     *)
ConnectFails_NoRetry(c) ==
  /\ call[c] # "none"
  /\ call' = [call EXCEPT ![c] = "none"]
  /\ \/ page' = Caught(page)
     \/ call[c] = "load" /\ page' = Caught(WithScene(page, c))
  /\ UNCHANGED <<auto, wsUrl, up, wanted, hurried>>

(* The probe fails or times out, gzweb cannot be loaded, or its constructor *)
(* throws; or the observer does, when the manager is already there.         *)
ConnectFails(c) ==
  /\ call[c] # "none"
  /\ call' = [call EXCEPT ![c] = "none"]
  /\ \/ page' = Scheduled(Caught(page))
     \/ call[c] = "load" /\ page' = Scheduled(Caught(WithScene(page, c)))
  /\ UNCHANGED <<auto, wsUrl, up, wanted, hurried>>

-----------------------------------------------------------------------------
(* The world outside *)

(* An observer that is subscribed hears a status the badge is set for.      *)
StatusEvent ==
  /\ page.subscribed # {}
  /\ page' = [page EXCEPT !.badge = "connected"]
  /\ UNCHANGED <<call, auto, wsUrl, up, wanted, hurried>>

(* An error of the window: the last two listeners.                          *)
WindowError ==
  /\ page' = Complained(page)
  /\ UNCHANGED <<call, auto, wsUrl, up, wanted, hurried>>

(* The world is launched or stopped in the workspace.                       *)
EndpointTurns ==
  /\ up' = ~up
  /\ UNCHANGED <<page, call, auto, wsUrl, wanted, hurried>>

-----------------------------------------------------------------------------

Init ==
  /\ auto \in BOOLEAN /\ wsUrl \in BOOLEAN /\ up \in BOOLEAN
  /\ call = [c \in Calls |-> "none"]
  /\ page = Scheduled(Fresh)
  /\ wanted = auto /\ hurried = FALSE

Next ==
  \/ ClickConnect \/ ClickDisconnect \/ TickAuto \/ EditUrl
  \/ RetryFires \/ StatusEvent \/ WindowError \/ EndpointTurns
  \/ \E c \in Calls : ProbeOpens(c) \/ SceneStarts(c) \/ ConnectFails(c)

Spec == Init /\ [][Next]_vars

(* Timers fire and promises settle.  An endpoint that is up again and again *)
(* when it is probed accepts a probe at last, and gzweb starts at last; the *)
(* user and the endpoint may do as they like.                               *)
FairSpec ==
  /\ Spec
  /\ WF_vars(RetryFires)
  /\ \A c \in Calls :
       /\ WF_vars(ProbeOpens(c) \/ SceneStarts(c) \/ ConnectFails(c))
       /\ SF_vars(ProbeOpens(c)) /\ SF_vars(SceneStarts(c))

-----------------------------------------------------------------------------
(* Properties *)

(* The type invariant.                                                      *)
TypeOK ==
  /\ page \in Pages
  /\ call \in [Calls -> {"none", "probe", "load"}]
  /\ auto \in BOOLEAN /\ wsUrl \in BOOLEAN /\ up \in BOOLEAN
  /\ wanted \in BOOLEAN /\ hurried \in BOOLEAN

(* At most one retry is pending and the page can still cancel it, however   *)
(* many overlapping calls have failed; and the badge says Waiting only when *)
(* one is (197-211, 259-262).                                               *)
OneRetry ==
  /\ page.armed = IF page.retryTimer THEN 1 ELSE 0
  /\ page.badge = "waiting" => page.retryTimer

(* Unless the user clicks Connect while a call is under way, there is one   *)
(* call at a time and one scene: no manager or subscription is left that    *)
(* the page has lost hold of, whatever failed, retried or was disconnected  *)
(* in the meantime (213-256).                                               *)
OneScene ==
  ~hurried =>
    /\ page.managers \subseteq {page.sceneManager}
    /\ page.subscribed \subseteq {page.statusSubscription}
    /\ \A c, d \in InFlight : c = d

(* A page that was told to connect by itself never stops trying: it has a   *)
(* scene, a call under way or a retry pending, whichever step of connect()  *)
(* failed, and also when the URL was spoilt in between (206-209, 250-255).  *)
KeepsTrying ==
  wanted => page.retryTimer \/ InFlight # {} \/ page.sceneManager # NoCall

(* The viewer may be opened before the simulation: it connects when the     *)
(* endpoint appears (sim-web-app/README.md:53), left alone with a good URL. *)
AutoConnects ==
  <>[](up /\ wsUrl /\ wanted /\ ~hurried) => []<>(page.sceneManager # NoCall)

(* What makes the invariants inductive: connect() has disconnected before   *)
(* its first await, so the one call under way finds the page empty; and the *)
(* page goes on trying only while the box is ticked.                        *)
CallFindsNothing ==
  ~hurried /\ InFlight # {} =>
    page.managers = {} /\ page.subscribed = {} /\ ~page.retryTimer

Inv ==
  /\ TypeOK /\ OneRetry /\ OneScene /\ KeepsTrying
  /\ CallFindsNothing /\ (wanted => auto)

=============================================================================
