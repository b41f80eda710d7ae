------------------------- MODULE BrowserLoginProofs -------------------------
(***************************************************************************)
(* A signed-in tab shares its token with the cookie, for any number of     *)
(* tabs, users and logins (csrf.go, auth.go, auth.tsx).  The invariant     *)
(* adds LoneLogin: while a login without a cookie is on its way no tab has *)
(* a good token, so the cookie it brings takes nobody's place.             *)
(***************************************************************************)
EXTENDS BrowserLogin, TLAPS

(* The values a form takes.                                                 *)
Forms == [at : {"quiet", "sent", "served"}, user : Names, cookie : Tokens, token : Tokens]

LEMMA LoginStarts == LoginInit => LoginInv
<1> SUFFICES ASSUME LoginInit PROVE LoginInv
  OBVIOUS
<1>1. (CHOOSE u \in Names : TRUE) \in Names
  BY LoginsAssumption
<1>2. 0 \in Tokens /\ Len(issued) = 0
  BY DEF LoginInit, Tokens
<1>3. Quiet \in Forms /\ Quiet.at = "quiet"
  BY <1>1, <1>2 DEF Quiet, Forms, NoToken
<1>4. LoginTypeOK
  <2>1. issued \in Seq(Names) /\ Len(issued) <= MaxLogins /\ overlapped \in BOOLEAN
    <3>1. issued = <<>> /\ overlapped = FALSE
      BY DEF LoginInit
    <3>2. Len(issued) <= MaxLogins
      BY <1>2, LoginsAssumption
    <3>3. issued \in Seq(Names)
      BY <3>1
    <3>4. overlapped \in BOOLEAN
      BY <3>1, Zenon
    <3> QED BY <3>2, <3>3, <3>4
  <2>2. creds \in [Tabs -> Tokens] /\ expired \in Tokens /\ cookie \in Tokens
    BY <1>2 DEF LoginInit, NoToken
  <2>3. form \in [Tabs -> Forms]
    BY <1>3 DEF LoginInit
  <2> QED BY <2>1, <2>2, <2>3 DEF LoginTypeOK, Forms
<1>5. BareForms = {} /\ FormsWellFormed
  BY <1>3 DEF LoginInit, BareForms, FormsWellFormed
<1>6. \A t \in Tabs : ~Live(creds[t])
  BY DEF LoginInit, Live
<1> QED BY <1>4, <1>5, <1>6 DEF LoginInv, LoneLogin, TabsActAsCookie

(* The types are kept by every step.                                        *)
LEMMA LoginKeepsTypes == LoginTypeOK /\ [LoginNext]_loginVars => LoginTypeOK'
<1> SUFFICES ASSUME LoginTypeOK, [LoginNext]_loginVars PROVE LoginTypeOK'
  OBVIOUS
<1>1. /\ issued \in Seq(Names) /\ Len(issued) \in Nat /\ Len(issued) <= MaxLogins
      /\ expired \in Tokens /\ cookie \in Tokens /\ NoToken \in Tokens
      /\ creds \in [Tabs -> Tokens] /\ form \in [Tabs -> Forms]
      /\ overlapped \in BOOLEAN /\ MaxLogins \in Nat
  BY LoginsAssumption DEF LoginTypeOK, Forms, Tokens, NoToken
<1>2. Quiet \in Forms
  BY <1>1, LoginsAssumption DEF Quiet, Forms
<1>3. ASSUME NEW t \in Tabs, NEW u \in Names, Submit(t, u) PROVE LoginTypeOK'
  <2>1. [at |-> "sent", user |-> u, cookie |-> cookie, token |-> NoToken] \in Forms
    BY <1>1 DEF Forms
  <2>2. form' \in [Tabs -> Forms]
    BY <1>1, <1>3, <2>1 DEF Submit
  <2>3. overlapped' \in BOOLEAN
    BY <1>3 DEF Submit
  <2> QED BY <1>1, <1>3, <2>2, <2>3 DEF Submit, LoginTypeOK, Forms, Tokens
<1>4. ASSUME NEW t \in Tabs, LoginServed(t) PROVE LoginTypeOK'
  <2>1. issued' \in Seq(Names) /\ Len(issued') = Len(issued) + 1
    BY <1>1, <1>4 DEF LoginServed, Forms
  <2>2. Tokens \subseteq Tokens' /\ Len(issued) + 1 \in Tokens'
    BY <1>1, <2>1 DEF Tokens
  <2>3. form'[t] = [at |-> "served", user |-> form[t].user,
                    cookie |-> form[t].cookie, token |-> Len(issued) + 1]
    BY <1>1, <1>4 DEF LoginServed, Forms
  <2>4. \A s \in Tabs \ {t} : form'[s] = form[s]
    BY <1>1, <1>4 DEF LoginServed
  <2>5. form[t] \in Forms
    BY <1>1
  <2>6. form'[t] \in Forms'
    BY <2>2, <2>3, <2>5 DEF Forms
  <2>7. \A s \in Tabs \ {t} : form'[s] \in Forms'
    <3> SUFFICES ASSUME NEW s \in Tabs \ {t} PROVE form'[s] \in Forms'
      OBVIOUS
    <3>1. form[s] \in Forms
      BY <1>1
    <3> QED BY <2>2, <2>4, <3>1 DEF Forms
  <2>8. form' = [s \in Tabs |-> form'[s]]
    BY <1>1, <1>4 DEF LoginServed
  <2>9. form' \in [Tabs -> Forms']
    BY <2>6, <2>7, <2>8
  <2>10. UNCHANGED <<expired, cookie, creds, overlapped>> /\ Len(issued') <= MaxLogins
    BY <1>1, <1>4, <2>1 DEF LoginServed
  <2> QED BY <1>1, <2>1, <2>2, <2>9, <2>10 DEF LoginTypeOK, Forms
<1>5. ASSUME NEW t \in Tabs, LoginDone(t) PROVE LoginTypeOK'
  <2>1. form[t].token \in Tokens
    BY <1>1 DEF Forms
  <2> QED BY <1>1, <1>2, <1>5, <2>1 DEF LoginDone, LoginTypeOK, Forms, Tokens
<1>6. ASSUME NEW t \in Tabs, LoginRefused(t) \/ LoginLost(t) PROVE LoginTypeOK'
  BY <1>1, <1>2, <1>6 DEF LoginRefused, LoginLost, LoginTypeOK, Forms, Tokens
<1>7. ASSUME NEW t \in Tabs, Logout(t) PROVE LoginTypeOK'
  BY <1>1, <1>7 DEF Logout, LoginTypeOK, Forms, Tokens
<1>8. ASSUME NEW t \in Tabs, NEW copy \in Tabs, Duplicate(t, copy) PROVE LoginTypeOK'
  BY <1>1, <1>8 DEF Duplicate, LoginTypeOK, Forms, Tokens
<1>9. CASE Expire
  <2>1. expired' \in Tokens
    BY <1>1, <1>9 DEF Expire, Tokens
  <2> QED BY <1>1, <1>9, <2>1 DEF Expire, LoginTypeOK, Forms, Tokens
<1>10. CASE CookieDropped
  BY <1>1, <1>10 DEF CookieDropped, LoginTypeOK, Forms, Tokens
<1>11. CASE UNCHANGED loginVars
  BY <1>11 DEF loginVars, LoginTypeOK, Tokens
<1> QED BY <1>3, <1>4, <1>5, <1>6, <1>7, <1>8, <1>9, <1>10, <1>11 DEF LoginNext

(* What the steps of a form do to the bare ones.                            *)
LEMMA FormLeaves ==
  ASSUME LoginTypeOK, NEW t \in Tabs, form' = [form EXCEPT ![t] = Quiet]
  PROVE  /\ BareForms' = BareForms \ {t}
         /\ FormsWellFormed => FormsWellFormed'
<1>1. Quiet.at = "quiet"
  BY DEF Quiet
<1>2. form'[t] = Quiet /\ \A s \in Tabs \ {t} : form'[s] = form[s]
  BY DEF LoginTypeOK
<1> QED BY <1>1, <1>2 DEF BareForms, FormsWellFormed

(* The tabs and the cookie, step by step.                                   *)
LEMMA LoginKeepsInv == LoginInv /\ [LoginNext]_loginVars => LoginInv'
<1> SUFFICES ASSUME LoginInv, [LoginNext]_loginVars PROVE LoginInv'
  OBVIOUS
<1>1. LoginTypeOK /\ LoginTypeOK'
  BY LoginKeepsTypes DEF LoginInv
<1>2. /\ FormsWellFormed /\ LoneLogin /\ TabsActAsCookie
      /\ creds \in [Tabs -> Tokens] /\ form \in [Tabs -> Forms]
      /\ Len(issued) \in Nat
  BY DEF LoginInv, LoginTypeOK, Forms
<1> DEFINE Rest == FormsWellFormed /\ LoneLogin /\ TabsActAsCookie
<1>3. SUFFICES Rest'
  BY <1>1, <1>3 DEF LoginInv
<1>4. ASSUME NEW t \in Tabs, NEW u \in Names, Submit(t, u) PROVE Rest'
  <2>1. /\ form'[t] = [at |-> "sent", user |-> u, cookie |-> cookie, token |-> NoToken]
        /\ \A s \in Tabs \ {t} : form'[s] = form[s]
        /\ overlapped' = (overlapped \/ (cookie = NoToken /\ BareForms # {}))
        /\ UNCHANGED <<expired, cookie, creds>>
    BY <1>2, <1>4 DEF Submit
  <2>2. FormsWellFormed'
    BY <1>2, <2>1 DEF FormsWellFormed
  <2>3. TabsActAsCookie'
    BY <1>2, <2>1 DEF TabsActAsCookie, Live
  <2>4. BareForms' \subseteq BareForms \cup (IF cookie = NoToken THEN {t} ELSE {})
    BY <2>1 DEF BareForms
  <2>5. LoneLogin'
    <3> SUFFICES ASSUME ~overlapped'
                 PROVE  /\ \A r, s \in BareForms' : r = s
                        /\ \A r \in BareForms', s \in Tabs :
                             cookie' = NoToken /\ ~Live(creds[s])'
      BY DEF LoneLogin
    <3>1. ~overlapped /\ (cookie = NoToken => BareForms = {})
      BY <2>1
    <3>2. CASE cookie = NoToken
      <4>1. BareForms' \subseteq {t}
        BY <2>4, <3>1, <3>2
      <4>2. \A s \in Tabs : ~Live(creds[s])
        BY <1>2, <3>1, <3>2 DEF TabsActAsCookie, Live
      <4> QED BY <2>1, <3>2, <4>1, <4>2 DEF Live
    <3>3. CASE cookie # NoToken
      BY <1>2, <2>1, <2>4, <3>1, <3>3 DEF LoneLogin, Live
    <3> QED BY <3>2, <3>3
  <2> QED BY <2>2, <2>3, <2>5
<1>5. ASSUME NEW t \in Tabs, LoginRefused(t) \/ LoginLost(t) PROVE Rest'
  <2>1. form' = [form EXCEPT ![t] = Quiet]
        /\ UNCHANGED <<expired, cookie, creds, overlapped>>
    BY <1>5 DEF LoginRefused, LoginLost
  <2>2. BareForms' \subseteq BareForms /\ FormsWellFormed'
    BY <1>1, <1>2, <2>1, FormLeaves
  <2> QED BY <1>2, <2>1, <2>2 DEF LoneLogin, TabsActAsCookie, Live
<1>6. ASSUME NEW t \in Tabs, LoginServed(t) PROVE Rest'
  <2>1. form[t].at = "sent" /\ form[t].cookie = NoToken
    BY <1>6 DEF LoginServed, Guard, NoToken
  <2>2. /\ form'[t].at = "served" /\ form'[t].cookie = form[t].cookie
        /\ \A s \in Tabs \ {t} : form'[s] = form[s]
        /\ UNCHANGED <<expired, cookie, creds, overlapped>>
    BY <1>2, <1>6 DEF LoginServed, Forms
  <2>3. BareForms' = BareForms /\ FormsWellFormed'
    BY <1>2, <2>1, <2>2 DEF BareForms, FormsWellFormed
  <2> QED BY <1>2, <2>2, <2>3 DEF LoneLogin, TabsActAsCookie, Live
<1>7. ASSUME NEW t \in Tabs, LoginDone(t) PROVE Rest'
  <2>1. /\ form[t].at = "served" /\ cookie' = form[t].token
        /\ creds' = [creds EXCEPT ![t] = form[t].token]
        /\ form' = [form EXCEPT ![t] = Quiet]
        /\ UNCHANGED <<expired, overlapped>>
    BY <1>7 DEF LoginDone
  <2>2. t \in BareForms
    BY <1>2, <2>1 DEF BareForms, FormsWellFormed
  <2>3. BareForms' = BareForms \ {t} /\ FormsWellFormed'
    BY <1>1, <1>2, <2>1, FormLeaves
  <2>4. CASE ~overlapped
    <3>1. BareForms' = {}
      BY <1>2, <2>2, <2>3, <2>4 DEF LoneLogin
    <3>2. \A s \in Tabs : ~Live(creds[s])
      BY <1>2, <2>2, <2>4 DEF LoneLogin
    <3>3. /\ creds'[t] = cookie'
          /\ \A s \in Tabs \ {t} : creds'[s] = creds[s]
      BY <1>2, <2>1
    <3> QED BY <2>1, <2>3, <3>1, <3>2, <3>3 DEF LoneLogin, TabsActAsCookie, Live
  <2>5. CASE overlapped
    BY <2>1, <2>3, <2>5 DEF LoneLogin, TabsActAsCookie
  <2> QED BY <2>4, <2>5
<1>8. ASSUME NEW t \in Tabs, Logout(t) PROVE Rest'
  <2>1. /\ creds'[t] = NoToken /\ \A s \in Tabs \ {t} : creds'[s] = creds[s]
        /\ UNCHANGED <<expired, cookie, form, overlapped>>
    BY <1>2, <1>8 DEF Logout
  <2>2. \A s \in Tabs : Live(creds[s])' => Live(creds[s]) /\ creds'[s] = creds[s]
    BY <2>1 DEF Live
  <2> QED BY <1>2, <2>1, <2>2
          DEF LoneLogin, TabsActAsCookie, FormsWellFormed, BareForms
<1>9. ASSUME NEW t \in Tabs, NEW copy \in Tabs, Duplicate(t, copy) PROVE Rest'
  <2>1. /\ creds'[copy] = creds[t] /\ \A s \in Tabs \ {copy} : creds'[s] = creds[s]
        /\ UNCHANGED <<expired, cookie, form, overlapped>>
    BY <1>2, <1>9 DEF Duplicate
  <2>2. \A s \in Tabs : Live(creds[s])' =>
          \E r \in Tabs : Live(creds[r]) /\ creds'[s] = creds[r]
    BY <2>1 DEF Live
  <2> QED BY <1>2, <2>1, <2>2
          DEF LoneLogin, TabsActAsCookie, FormsWellFormed, BareForms
<1>10. CASE Expire
  <2>1. expired' = expired + 1 /\ UNCHANGED <<cookie, creds, form, overlapped>>
    BY <1>10 DEF Expire
  <2>2. expired \in Nat /\ \A s \in Tabs : creds[s] \in Nat
    BY <1>1 DEF LoginTypeOK, Tokens
  <2>3. \A s \in Tabs : Live(creds[s])' => Live(creds[s])
    BY <2>1, <2>2 DEF Live
  <2> QED BY <1>2, <2>1, <2>3
          DEF LoneLogin, TabsActAsCookie, FormsWellFormed, BareForms
<1>11. CASE CookieDropped
  <2>1. ~Live(cookie) /\ cookie' = NoToken
        /\ UNCHANGED <<expired, creds, form, overlapped>>
    BY <1>11 DEF CookieDropped
  <2>2. ~overlapped => \A s \in Tabs : ~Live(creds[s])
    BY <1>2, <2>1 DEF TabsActAsCookie
  <2> QED BY <1>2, <2>1, <2>2
          DEF LoneLogin, TabsActAsCookie, FormsWellFormed, BareForms, Live
<1>12. CASE UNCHANGED loginVars
  BY <1>2, <1>12 DEF loginVars, LoneLogin, TabsActAsCookie, FormsWellFormed,
                     BareForms, Live
<1> QED BY <1>4, <1>5, <1>6, <1>7, <1>8, <1>9, <1>10, <1>11, <1>12 DEF LoginNext

(* The inductive invariant of the tabs, the forms and the cookie.           *)
THEOREM LoginInvariant == LoginSpec => []LoginInv
BY LoginStarts, LoginKeepsInv, PTL DEF LoginSpec

(* Unless two first logins have crossed, a tab with a good token has the    *)
(* cookie's: the guard passes its mutations, and the gateway's frames are   *)
(* for the same user (csrf.go:24-44, session_gateway.go:48).                *)
THEOREM TabsAgree == LoginSpec => []TabsActAsCookie
<1>1. LoginInv => TabsActAsCookie
  BY DEF LoginInv
<1> QED BY <1>1, LoginInvariant, PTL

=============================================================================
