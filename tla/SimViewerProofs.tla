-------------------------- MODULE SimViewerProofs --------------------------
(***************************************************************************)
(* The safety properties of the viewer page, for any number of calls of    *)
(* connect() at once.  Inv of SimViewer is inductive: connect() has        *)
(* disconnected the page before its first await, so a single call under    *)
(* way finds no manager, no subscription and no retry when it goes on      *)
(* (CallFindsNothing), and can neither lose nor double one.                *)
(***************************************************************************)
EXTENDS SimViewer, TLAPS

(* The functions of the page keep to its type and never leave two retries  *)
(* (197-211, 258-289).                                                      *)
LEMMA ScheduledOK ==
  ASSUME NEW pg \in Pages, pg.armed = (IF pg.retryTimer THEN 1 ELSE 0),
         auto \in BOOLEAN
  PROVE  /\ Scheduled(pg) \in Pages
         /\ Scheduled(pg).armed = IF Scheduled(pg).retryTimer THEN 1 ELSE 0
         /\ auto => Scheduled(pg).retryTimer
         /\ Scheduled(pg).managers = pg.managers
         /\ Scheduled(pg).sceneManager = pg.sceneManager
         /\ Scheduled(pg).subscribed = pg.subscribed
         /\ Scheduled(pg).statusSubscription = pg.statusSubscription
         /\ (pg.badge = "waiting" => pg.retryTimer)
              => (Scheduled(pg).badge = "waiting" => Scheduled(pg).retryTimer)
<1>1. CASE ~auto \/ pg.retryTimer
  BY <1>1 DEF Scheduled
<1>2. CASE auto /\ ~pg.retryTimer
  <2>1. pg.armed = 0 /\ pg.armed + 1 = 1
    BY <1>2
  <2>2. Scheduled(pg) =
          [retryTimer |-> TRUE, armed |-> pg.armed + 1,
           sceneManager |-> pg.sceneManager, managers |-> pg.managers,
           statusSubscription |-> pg.statusSubscription,
           subscribed |-> pg.subscribed, badge |-> "waiting",
           canConnect |-> pg.canConnect]
    BY <1>2 DEF Scheduled, Pages
  <2> QED BY <2>1, <2>2 DEF Pages
<1> QED BY <1>1, <1>2

LEMMA DisconnectedOK ==
  ASSUME NEW pg \in Pages, pg.armed = (IF pg.retryTimer THEN 1 ELSE 0)
  PROVE  /\ Disconnected(pg) \in Pages
         /\ Disconnected(pg).armed = 0
         /\ Disconnected(pg).retryTimer = FALSE
         /\ Disconnected(pg).managers = pg.managers \ {pg.sceneManager}
         /\ Disconnected(pg).sceneManager = NoCall
         /\ Disconnected(pg).subscribed = pg.subscribed \ {pg.statusSubscription}
         /\ Disconnected(pg).statusSubscription = NoCall
         /\ Disconnected(pg).badge = "idle"
<1> DEFINE gone(left) ==
      [retryTimer |-> FALSE, armed |-> left, sceneManager |-> NoCall,
       managers |-> pg.managers \ {pg.sceneManager},
       statusSubscription |-> NoCall,
       subscribed |-> pg.subscribed \ {pg.statusSubscription},
       badge |-> "idle", canConnect |-> TRUE]
<1>1. (IF pg.retryTimer THEN pg.armed - 1 ELSE pg.armed) = 0
  BY DEF Pages
<1>2. Disconnected(pg) = gone(0)
  BY <1>1 DEF Disconnected
<1> QED BY <1>2 DEF Pages

(* connect(), up to its first await, leaves the page with nothing to lose.  *)
LEMMA ConnectingOK ==
  ASSUME NEW pg \in Pages, pg.armed = (IF pg.retryTimer THEN 1 ELSE 0)
  PROVE  /\ Connecting(pg) \in Pages
         /\ Connecting(pg).armed = 0
         /\ Connecting(pg).retryTimer = FALSE
         /\ Connecting(pg).managers = pg.managers \ {pg.sceneManager}
         /\ Connecting(pg).sceneManager = NoCall
         /\ Connecting(pg).subscribed = pg.subscribed \ {pg.statusSubscription}
         /\ Connecting(pg).statusSubscription = NoCall
         /\ Connecting(pg).badge = "connecting"
  BY DisconnectedOK DEF Connecting, Pages

LEMMA FailureOK ==
  ASSUME NEW pg \in Pages
  PROVE  /\ Caught(pg) = [pg EXCEPT !.badge = "error", !.canConnect = TRUE]
         /\ Caught(pg) \in Pages /\ Complained(pg) \in Pages
         /\ \A f \in {Caught(pg), Complained(pg)} :
              /\ f.armed = pg.armed /\ f.retryTimer = pg.retryTimer
              /\ f.managers = pg.managers /\ f.sceneManager = pg.sceneManager
              /\ f.subscribed = pg.subscribed
              /\ f.statusSubscription = pg.statusSubscription
              /\ f.badge = "error"
  BY DEF Caught, Complained, Pages

LEMMA SceneOK ==
  ASSUME NEW pg \in Pages, NEW c \in Calls,
         NEW s \in {WithScene(pg, c), Observed(WithScene(pg, c), c)}
  PROVE  /\ s \in Pages
         /\ s.armed = pg.armed /\ s.retryTimer = pg.retryTimer
         /\ s.badge = pg.badge
         /\ s.managers = pg.managers \cup {c} /\ s.sceneManager = c
         /\ \/ /\ s.subscribed = pg.subscribed
               /\ s.statusSubscription = pg.statusSubscription
            \/ /\ s.subscribed = pg.subscribed \cup {c}
               /\ s.statusSubscription = c
<1>1. CASE s = WithScene(pg, c)
  BY <1>1 DEF WithScene, Pages
<1>2. CASE s = Observed(WithScene(pg, c), c)
  BY <1>2 DEF WithScene, Observed, Pages
<1> QED BY <1>1, <1>2

-----------------------------------------------------------------------------
(* The calls under way *)

LEMMA CallsOK ==
  ASSUME call \in [Calls -> {"none", "probe", "load"}],
         NEW c \in Calls, NEW v \in {"none", "probe", "load"},
         call' = [call EXCEPT ![c] = v]
  PROVE  /\ call' \in [Calls -> {"none", "probe", "load"}]
         /\ v = "none" => InFlight' = InFlight \ {c}
         /\ v # "none" => InFlight' = InFlight \cup {c}
  BY DEF InFlight

(* A retry that fires takes the one that was pending (202-205).             *)
LEMMA FiredOK ==
  ASSUME NEW pg \in Pages, pg.armed = 1,
         NEW fired, fired = [pg EXCEPT !.armed = @ - 1, !.retryTimer = FALSE]
  PROVE  /\ fired \in Pages /\ fired.armed = 0 /\ fired.retryTimer = FALSE
         /\ fired.managers = pg.managers
         /\ fired.sceneManager = pg.sceneManager
         /\ fired.subscribed = pg.subscribed
         /\ fired.statusSubscription = pg.statusSubscription
<1> DEFINE left(n) ==
      [retryTimer |-> FALSE, armed |-> n,
       sceneManager |-> pg.sceneManager, managers |-> pg.managers,
       statusSubscription |-> pg.statusSubscription,
       subscribed |-> pg.subscribed, badge |-> pg.badge,
       canConnect |-> pg.canConnect]
<1>1. fired = left(pg.armed - 1)
  BY DEF Pages
<1>2. pg.armed - 1 = 0
  OBVIOUS
<1>3. fired = left(0)
  BY <1>1, <1>2
<1>4. left(0) \in Pages
  BY DEF Pages
<1>5. fired \in Pages
  <2> HIDE DEF left
  <2> QED BY <1>3, <1>4
<1> QED BY <1>3, <1>5 DEF Pages

-----------------------------------------------------------------------------
(* The invariant *)

LEMMA InitInv == Init => Inv
<1> SUFFICES ASSUME Init PROVE Inv
  OBVIOUS
<1>1. Fresh \in Pages /\ InFlight = {} /\ auto \in BOOLEAN
  BY DEF Init, Fresh, Pages, InFlight, NoCall
<1>2. /\ page \in Pages /\ OneRetry
      /\ auto => page.retryTimer
      /\ page.managers = {} /\ page.subscribed = {}
  BY <1>1, ScheduledOK DEF Init, Fresh, OneRetry
<1> QED
  BY <1>1, <1>2
     DEF Init, Inv, TypeOK, OneScene, KeepsTrying, CallFindsNothing

LEMMA StepInv == Inv /\ [Next]_vars => Inv'
<1> SUFFICES ASSUME Inv, [Next]_vars PROVE Inv'
  OBVIOUS
<1> USE DEF Inv
<1>t. /\ page \in Pages
      /\ page.armed = (IF page.retryTimer THEN 1 ELSE 0)
      /\ page.badge = "waiting" => page.retryTimer
      /\ auto \in BOOLEAN
      /\ call \in [Calls -> {"none", "probe", "load"}]
  BY DEF TypeOK, OneRetry
<1>1. CASE ClickConnect
  <2>1. CASE wsUrl
    <3>1. PICK c \in Calls :
            /\ call' = [call EXCEPT ![c] = "probe"]
            /\ page' = Connecting(page)
            /\ hurried' = (hurried \/ InFlight # {})
            /\ Wants(auto)
            /\ UNCHANGED <<auto, wsUrl, up>>
      BY <1>1, <2>1 DEF ClickConnect
    <3>2. InFlight' = InFlight \cup {c} /\ call' \in [Calls -> {"none", "probe", "load"}]
      BY <1>t, <3>1, CallsOK
    <3>3. TypeOK' /\ OneRetry'
      BY <1>t, <3>1, <3>2, ConnectingOK DEF TypeOK, OneRetry, Wants
    <3>4. ~hurried' => page'.managers = {} /\ page'.subscribed = {} /\ InFlight' = {c}
      BY <1>t, <3>1, <3>2, ConnectingOK DEF OneScene, TypeOK
    <3>5. OneScene' /\ CallFindsNothing'
      BY <1>t, <3>1, <3>4, ConnectingOK DEF OneScene, CallFindsNothing
    <3> QED BY <3>1, <3>2, <3>3, <3>5 DEF KeepsTrying, Wants, TypeOK
  <2>2. CASE ~wsUrl
    <3>1. /\ page' = Caught(Disconnected(page)) /\ wanted' = FALSE
          /\ UNCHANGED <<call, hurried, auto, wsUrl, up>>
      BY <1>1, <2>2 DEF ClickConnect, Wants
    <3>2. /\ page' \in Pages /\ page'.armed = 0 /\ page'.retryTimer = FALSE
          /\ page'.badge = "error"
          /\ page'.managers = page.managers \ {page.sceneManager}
          /\ page'.subscribed = page.subscribed \ {page.statusSubscription}
      <4> DEFINE cleared == Disconnected(page)
      <4>1. /\ cleared \in Pages /\ cleared.armed = 0 /\ cleared.retryTimer = FALSE
            /\ cleared.managers = page.managers \ {page.sceneManager}
            /\ cleared.subscribed = page.subscribed \ {page.statusSubscription}
        BY <1>t, DisconnectedOK
      <4>2. page' = Caught(cleared)
        BY <3>1
      <4> HIDE DEF cleared
      <4> QED BY <4>1, <4>2, FailureOK
    <3>3. InFlight' = InFlight
      BY <3>1 DEF InFlight
    <3> QED BY <1>t, <3>1, <3>2, <3>3
            DEF TypeOK, OneRetry, OneScene, KeepsTrying, CallFindsNothing
  <2> QED BY <2>1, <2>2
<1>2. CASE ClickDisconnect
  <2>1. /\ page' = Disconnected(page) /\ wanted' = FALSE
        /\ UNCHANGED <<call, hurried, auto, wsUrl, up>>
    BY <1>2 DEF ClickDisconnect, Wants
  <2>2. InFlight' = InFlight
    BY <2>1 DEF InFlight
  <2> QED BY <1>t, <2>1, <2>2, DisconnectedOK
          DEF TypeOK, OneRetry, OneScene, KeepsTrying, CallFindsNothing
<1>3. CASE TickAuto \/ EditUrl \/ EndpointTurns
  <2>1. UNCHANGED <<page, call, hurried>>
    BY <1>3 DEF TickAuto, EditUrl, EndpointTurns
  <2>2. InFlight' = InFlight
    BY <2>1 DEF InFlight
  <2>3. TypeOK'
    BY <1>3 DEF TickAuto, EditUrl, EndpointTurns, TypeOK
  <2>4. wanted' => wanted /\ auto'
    <3>1. CASE TickAuto
      BY <3>1, Zenon DEF TickAuto
    <3>2. CASE EditUrl \/ EndpointTurns
      BY <3>2 DEF EditUrl, EndpointTurns
    <3> QED BY <1>3, <3>1, <3>2
  <2> QED BY <2>1, <2>2, <2>3, <2>4
          DEF OneRetry, OneScene, KeepsTrying, CallFindsNothing
<1>4. CASE RetryFires
  <2> DEFINE fired == [page EXCEPT !.armed = @ - 1, !.retryTimer = FALSE]
  <2>0. page.armed > 0 /\ UNCHANGED <<auto, wsUrl, up, wanted, hurried>>
    BY <1>4 DEF RetryFires
  <2>1. /\ fired \in Pages /\ fired.armed = 0 /\ fired.retryTimer = FALSE
        /\ fired.managers = page.managers
        /\ fired.sceneManager = page.sceneManager
        /\ fired.subscribed = page.subscribed
        /\ fired.statusSubscription = page.statusSubscription
        /\ ~hurried => InFlight = {}
    <3>1. page.retryTimer /\ page.armed = 1
      BY <1>t, <2>0
    <3>2. ~hurried => InFlight = {}
      BY <3>1 DEF CallFindsNothing
    <3>3. \A f : f = fired => f \in Pages /\ f.armed = 0 /\ f.retryTimer = FALSE
                 /\ f.managers = page.managers
                 /\ f.sceneManager = page.sceneManager
                 /\ f.subscribed = page.subscribed
                 /\ f.statusSubscription = page.statusSubscription
      BY <1>t, <3>1, FiredOK
    <3> QED BY <3>2, <3>3
  <2>2. ~hurried => /\ page.managers \ {page.sceneManager} = {}
                    /\ page.subscribed \ {page.statusSubscription} = {}
    BY DEF OneScene
  <2>3. CASE wsUrl
    <3>1. PICK c \in Calls : /\ call' = [call EXCEPT ![c] = "probe"]
                             /\ page' = Connecting(fired)
      BY <1>4, <2>3 DEF RetryFires
    <3> HIDE DEF fired
    <3>2. /\ call' \in [Calls -> {"none", "probe", "load"}]
          /\ InFlight' = InFlight \cup {c}
      BY <1>t, <3>1, CallsOK
    <3>3. /\ page' \in Pages /\ page'.armed = 0 /\ page'.retryTimer = FALSE
          /\ page'.badge = "connecting"
          /\ page'.managers = page.managers \ {page.sceneManager}
          /\ page'.subscribed = page.subscribed \ {page.statusSubscription}
      BY <2>1, <3>1, ConnectingOK
    <3> QED BY <2>0, <2>1, <2>2, <3>2, <3>3
            DEF TypeOK, OneRetry, OneScene, KeepsTrying, CallFindsNothing
  <2>4. CASE ~wsUrl
    <3>1. /\ page' = Scheduled(Complained(Disconnected(fired)))
          /\ UNCHANGED call
      BY <1>4, <2>4 DEF RetryFires
    <3> HIDE DEF fired
    <3> DEFINE cleared == Disconnected(fired)
    <3>2. /\ cleared \in Pages /\ cleared.armed = 0 /\ cleared.retryTimer = FALSE
          /\ cleared.managers = page.managers \ {page.sceneManager}
          /\ cleared.subscribed = page.subscribed \ {page.statusSubscription}
      BY <2>1, DisconnectedOK
    <3> HIDE DEF cleared
    <3> DEFINE failed == Complained(cleared)
    <3>3. /\ failed \in Pages /\ failed.armed = 0 /\ failed.retryTimer = FALSE
          /\ failed.managers = page.managers \ {page.sceneManager}
          /\ failed.subscribed = page.subscribed \ {page.statusSubscription}
          /\ failed.badge = "error"
      BY <3>2, FailureOK
    <3>4. page' = Scheduled(failed)
      BY <3>1 DEF cleared
    <3> HIDE DEF failed
    <3>5. /\ page' \in Pages
          /\ page'.armed = (IF page'.retryTimer THEN 1 ELSE 0)
          /\ page'.badge = "waiting" => page'.retryTimer
          /\ auto => page'.retryTimer
          /\ page'.managers = page.managers \ {page.sceneManager}
          /\ page'.subscribed = page.subscribed \ {page.statusSubscription}
      BY <1>t, <3>3, <3>4, ScheduledOK
    <3>6. InFlight' = InFlight
      BY <3>1 DEF InFlight
    <3> QED BY <2>0, <2>1, <2>2, <3>1, <3>5, <3>6
            DEF TypeOK, OneRetry, OneScene, KeepsTrying, CallFindsNothing
  <2> QED BY <2>3, <2>4
<1>5. CASE StatusEvent \/ WindowError
  <2>1. /\ page' \in Pages
        /\ page'.armed = page.armed /\ page'.retryTimer = page.retryTimer
        /\ page'.managers = page.managers /\ page'.sceneManager = page.sceneManager
        /\ page'.subscribed = page.subscribed
        /\ page'.statusSubscription = page.statusSubscription
        /\ page'.badge # "waiting"
    BY <1>5, <1>t DEF StatusEvent, WindowError, Complained, Pages
  <2>2. UNCHANGED <<call, auto, wsUrl, up, wanted, hurried>>
    BY <1>5 DEF StatusEvent, WindowError
  <2>3. InFlight' = InFlight
    BY <2>2 DEF InFlight
  <2> QED BY <2>1, <2>2, <2>3
          DEF TypeOK, OneRetry, OneScene, KeepsTrying, CallFindsNothing
<1>6. ASSUME NEW c \in Calls, ProbeOpens(c) PROVE Inv'
  <2>1. /\ call[c] = "probe" /\ call' = [call EXCEPT ![c] = "load"]
        /\ UNCHANGED <<page, auto, wsUrl, up, wanted, hurried>>
    BY <1>6 DEF ProbeOpens
  <2>2. InFlight' = InFlight /\ call' \in [Calls -> {"none", "probe", "load"}]
    BY <1>t, <2>1 DEF InFlight
  <2> QED BY <2>1, <2>2
          DEF TypeOK, OneRetry, OneScene, KeepsTrying, CallFindsNothing
<1>7. ASSUME NEW c \in Calls, SceneStarts(c) PROVE Inv'
  <2>1. /\ c \in InFlight /\ call' = [call EXCEPT ![c] = "none"]
        /\ page' \in {WithScene(page, c), Observed(WithScene(page, c), c)}
        /\ UNCHANGED <<auto, wsUrl, up, wanted, hurried>>
    BY <1>7 DEF SceneStarts, InFlight
  <2>2. InFlight' = InFlight \ {c} /\ call' \in [Calls -> {"none", "probe", "load"}]
    BY <1>t, <2>1, CallsOK
  <2>3. ~hurried => /\ page.managers = {} /\ page.subscribed = {}
                    /\ InFlight = {c}
    BY <2>1 DEF CallFindsNothing, OneScene
  <2>4. page'.sceneManager = c /\ c # NoCall
    BY <1>t, <2>1, SceneOK DEF Calls, NoCall
  <2>5. TypeOK' /\ OneRetry'
    BY <1>t, <2>1, <2>2, SceneOK DEF TypeOK, OneRetry
  <2>6. OneScene'
    <3>1. /\ page'.managers = page.managers \cup {c} /\ page'.sceneManager = c
          /\ \/ /\ page'.subscribed = page.subscribed
                /\ page'.statusSubscription = page.statusSubscription
             \/ /\ page'.subscribed = page.subscribed \cup {c}
                /\ page'.statusSubscription = c
      BY <1>t, <2>1, SceneOK
    <3> QED BY <2>1, <2>2, <2>3, <3>1 DEF OneScene
  <2> QED BY <2>1, <2>2, <2>3, <2>4, <2>5, <2>6
          DEF KeepsTrying, CallFindsNothing
<1>8. ASSUME NEW c \in Calls, ConnectFails(c) PROVE Inv'
  <2>1. /\ c \in InFlight /\ call' = [call EXCEPT ![c] = "none"]
        /\ UNCHANGED <<auto, wsUrl, up, wanted, hurried>>
    BY <1>8 DEF ConnectFails, InFlight
  <2>2. InFlight' = InFlight \ {c} /\ call' \in [Calls -> {"none", "probe", "load"}]
    BY <1>t, <2>1, CallsOK
  <2>3. ~hurried => /\ page.managers = {} /\ page.subscribed = {}
                    /\ InFlight = {c}
    BY <2>1 DEF CallFindsNothing, OneScene
  <2>4. PICK pg \in {page, WithScene(page, c)} : page' = Scheduled(Caught(pg))
    BY <1>8 DEF ConnectFails
  <2>5. /\ pg \in Pages /\ pg.armed = page.armed
        /\ pg.retryTimer = page.retryTimer
        /\ pg.subscribed = page.subscribed
        /\ pg.statusSubscription = page.statusSubscription
        /\ \/ pg.managers = page.managers /\ pg.sceneManager = page.sceneManager
           \/ pg.managers = page.managers \cup {c} /\ pg.sceneManager = c
    <3>1. CASE pg = page
      BY <1>t, <3>1
    <3>2. CASE pg = WithScene(page, c)
      BY <1>t, <3>2, SceneOK DEF WithScene, Pages
    <3> QED BY <2>4, <3>1, <3>2
  <2> DEFINE failed == Caught(pg)
  <2>6. /\ failed \in Pages /\ failed.armed = pg.armed
        /\ failed.retryTimer = pg.retryTimer /\ failed.badge = "error"
        /\ failed.managers = pg.managers /\ failed.sceneManager = pg.sceneManager
        /\ failed.subscribed = pg.subscribed
        /\ failed.statusSubscription = pg.statusSubscription
    BY <2>5, FailureOK
  <2>7. page' = Scheduled(failed)
    BY <2>4
  <2> HIDE DEF failed
  <2>8. /\ page' \in Pages
        /\ page'.armed = (IF page'.retryTimer THEN 1 ELSE 0)
        /\ page'.badge = "waiting" => page'.retryTimer
        /\ auto => page'.retryTimer
        /\ page'.managers = pg.managers /\ page'.sceneManager = pg.sceneManager
        /\ page'.subscribed = pg.subscribed
        /\ page'.statusSubscription = pg.statusSubscription
    BY <1>t, <2>5, <2>6, <2>7, ScheduledOK
  <2>9. TypeOK' /\ OneRetry'
    BY <2>1, <2>2, <2>8 DEF TypeOK, OneRetry
  <2>10. OneScene'
    BY <2>1, <2>2, <2>3, <2>5, <2>8 DEF OneScene
  <2> QED BY <2>1, <2>2, <2>3, <2>8, <2>9, <2>10
          DEF KeepsTrying, CallFindsNothing
<1>9. CASE UNCHANGED vars
  <2>1. InFlight' = InFlight
    BY <1>9 DEF vars, InFlight
  <2> QED BY <1>9, <2>1
          DEF vars, TypeOK, OneRetry, OneScene, KeepsTrying, CallFindsNothing
<1> QED
  BY <1>1, <1>2, <1>3, <1>4, <1>5, <1>6, <1>7, <1>8, <1>9 DEF Next

(* The inductive invariant holds throughout.                                *)
THEOREM ViewerInvariant == Spec => []Inv
<1>1. Init => Inv
  BY InitInv
<1>2. Inv /\ [Next]_vars => Inv'
  BY StepInv
<1> QED BY <1>1, <1>2, PTL DEF Spec

(* The globals of main.js keep their types, and armed never exceeds one.    *)
THEOREM ViewerTypes == Spec => []TypeOK
<1>1. Inv => TypeOK
  BY DEF Inv
<1> QED BY <1>1, ViewerInvariant, PTL

(* scheduleRetry and disconnect leave at most one retry pending, which      *)
(* retryTimer names, for any number of overlapping calls of connect().      *)
THEOREM ViewerRetries == Spec => []OneRetry
<1>1. Inv => OneRetry
  BY DEF Inv
<1> QED BY <1>1, ViewerInvariant, PTL

(* connect() leaves one scene and one subscription at most, those that the  *)
(* page can disconnect, unless the user clicks while a call is under way.   *)
THEOREM ViewerScenes == Spec => []OneScene
<1>1. Inv => OneScene
  BY DEF Inv
<1> QED BY <1>1, ViewerInvariant, PTL

(* Wherever connect() fails, a page that is to connect by itself is left    *)
(* with a scene, another call or a retry.                                   *)
THEOREM ViewerKeepsTrying == Spec => []KeepsTrying
<1>1. Inv => KeepsTrying
  BY DEF Inv
<1> QED BY <1>1, ViewerInvariant, PTL

=============================================================================
