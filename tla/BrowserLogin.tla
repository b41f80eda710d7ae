---------------------------- MODULE BrowserLogin ----------------------------
(***************************************************************************)
(* Signing in from one browser: the login route of the panel               *)
(* (internal/httpapi/router.go), its tokens and its cookie                 *)
(* (internal/auth/auth.go), the CSRF guard in front of every route         *)
(* (internal/httpapi/csrf.go) and the page's own keeping of the token      *)
(* (web/src/auth.tsx, web/src/api.ts).                                     *)
(*                                                                         *)
(* Each tab keeps a token of its own in sessionStorage; the cookie jar is  *)
(* shared by all tabs.  A tab sends its token with the API calls, the      *)
(* gateway's frames carry nothing but the cookie, and the guard wants the  *)
(* two to agree on every mutation.  A token is a number: the place of its  *)
(* login among all logins; its CSRF token is bound to it one to one.       *)
(***************************************************************************)
EXTENDS Naturals, Sequences

CONSTANTS
  Names,      (* usernames typed into the login form: any is let in        *)
  Tabs,       (* tabs of the browser                                       *)
  MaxLogins   (* bound on the logins the panel answers with a token        *)

ASSUME LoginsAssumption == MaxLogins \in Nat /\ Names # {}

VARIABLES
  issued,     (* whom the n-th token was issued to                         *)
  expired,    (* how many tokens are past their expiry: one TTL, so the    *)
              (* oldest go first                                           *)
  cookie,     (* the token in the browser's cookie jar, or 0               *)
  creds,      (* per tab: the token in its sessionStorage, or 0            *)
  form,       (* per tab: the login request on its way                     *)
  overlapped  (* history: two logins without a cookie have been on their   *)
              (* way at once                                               *)

loginVars == <<issued, expired, cookie, creds, form, overlapped>>

NoToken == 0

Quiet == [at |-> "quiet", user |-> CHOOSE u \in Names : TRUE,
          cookie |-> NoToken, token |-> NoToken]

(* Service.Verify: a token is good until it expires.  No panel restart and  *)
(* no logout ends it earlier.                                               *)
Live(token) == token # NoToken /\ token > expired

(* Mutant: the login route is exempt, as the road map plans                 *)
(* (docs/roadmap.md:116).                                                   *)
Guard_SkipsLogin(jar, csrf) == jar = NoToken \/ csrf \in {NoToken, jar}

(* guardCSRF on a mutation: without a cookie it goes through, with one it   *)
(* must carry the CSRF token of that very cookie.                           *)
Guard(jar, csrf) == jar = NoToken \/ csrf = jar

(* The forms that were sent without a cookie and have not come back.        *)
BareForms == {t \in Tabs : form[t].at # "quiet" /\ form[t].cookie = NoToken}

(* The login form is sent: login() attaches no CSRF token, the browser adds *)
(* the cookie it has.                                                       *)
Submit(t, u) ==
  /\ form[t].at = "quiet"
  /\ form' = [form EXCEPT ![t] =
                [at |-> "sent", user |-> u, cookie |-> cookie, token |-> NoToken]]
  /\ overlapped' = (overlapped \/ (cookie = NoToken /\ BareForms # {}))
  /\ UNCHANGED <<issued, expired, cookie, creds>>

(* The guard answers 403, and the tab is where it was.                      *)
LoginRefused(t) ==
  /\ form[t].at = "sent" /\ ~Guard(form[t].cookie, NoToken)
  /\ form' = [form EXCEPT ![t] = Quiet]
  /\ UNCHANGED <<issued, expired, cookie, creds, overlapped>>

(* POST /api/auth/login: Issue, SetSessionCookie and IssueCSRF.             *)
LoginServed(t) ==
  /\ form[t].at = "sent" /\ Guard(form[t].cookie, NoToken)
  /\ Len(issued) < MaxLogins
  /\ issued' = Append(issued, form[t].user)
  /\ form' = [form EXCEPT ![t].at = "served", ![t].token = Len(issued) + 1]
  /\ UNCHANGED <<expired, cookie, creds, overlapped>>

(* The answer arrives: the browser stores the cookie, the tab the token.    *)
LoginDone(t) ==
  /\ form[t].at = "served"
  /\ cookie' = form[t].token
  /\ creds' = [creds EXCEPT ![t] = form[t].token]
  /\ form' = [form EXCEPT ![t] = Quiet]
  /\ UNCHANGED <<issued, expired, overlapped>>

(* The request or its answer is lost, the cookie with it.                   *)
LoginLost(t) ==
  /\ form[t].at # "quiet"
  /\ form' = [form EXCEPT ![t] = Quiet]
  /\ UNCHANGED <<issued, expired, cookie, creds, overlapped>>

(* "Sign out", or the tab is closed and another opened: the sessionStorage  *)
(* is gone, the HttpOnly cookie stays.                                      *)
Logout(t) ==
  /\ creds[t] # NoToken
  /\ creds' = [creds EXCEPT ![t] = NoToken]
  /\ UNCHANGED <<issued, expired, cookie, form, overlapped>>

(* A tab is duplicated: the copy begins with the sessionStorage it had.     *)
Duplicate(t, copy) ==
  /\ creds[t] # NoToken /\ creds[copy] = NoToken
  /\ creds' = [creds EXCEPT ![copy] = creds[t]]
  /\ UNCHANGED <<issued, expired, cookie, form, overlapped>>

(* The oldest good token reaches its expiry.                                *)
Expire ==
  /\ expired < Len(issued)
  /\ expired' = expired + 1
  /\ UNCHANGED <<issued, cookie, creds, form, overlapped>>

(* Mutants: the cookie has no Max-Age; it is shorter than the token's TTL.  *)
CookieDropped_Never == FALSE /\ UNCHANGED loginVars
CookieDropped_Early ==
  /\ cookie # NoToken
  /\ cookie' = NoToken
  /\ UNCHANGED <<issued, expired, creds, form, overlapped>>

(* The browser drops the cookie at its Max-Age: the token's TTL, counted    *)
(* from the arrival of the answer, so never before the token has expired.   *)
CookieDropped ==
  /\ cookie # NoToken /\ ~Live(cookie)
  /\ cookie' = NoToken
  /\ UNCHANGED <<issued, expired, creds, form, overlapped>>

LoginInit ==
  /\ issued = <<>> /\ expired = 0 /\ cookie = NoToken
  /\ creds = [t \in Tabs |-> NoToken]
  /\ form = [t \in Tabs |-> Quiet] /\ overlapped = FALSE

LoginNext ==
  \/ \E t \in Tabs, u \in Names : Submit(t, u)
  \/ \E t \in Tabs : LoginRefused(t) \/ LoginServed(t) \/ LoginDone(t)
                     \/ LoginLost(t) \/ Logout(t)
  \/ \E t, copy \in Tabs : Duplicate(t, copy)
  \/ Expire \/ CookieDropped

LoginSpec == LoginInit /\ [][LoginNext]_loginVars

(* Time passes: tokens reach their expiry and cookies their Max-Age.        *)
TimePasses == WF_loginVars(Expire \/ CookieDropped)

-----------------------------------------------------------------------------
(* Properties *)

Tokens == 0..Len(issued)

(* The type invariant.                                                      *)
LoginTypeOK ==
  /\ issued \in Seq(Names) /\ Len(issued) <= MaxLogins
  /\ expired \in Tokens /\ cookie \in Tokens
  /\ creds \in [Tabs -> Tokens]
  /\ form \in [Tabs -> [at : {"quiet", "sent", "served"}, user : Names,
                        cookie : Tokens, token : Tokens]]
  /\ overlapped \in BOOLEAN

(* A tab that is signed in shares its token with the cookie: its mutations  *)
(* pass the guard, and the gateway's frames in its pages, which carry the   *)
(* cookie alone, act for the same user.  Nothing in the code compares the   *)
(* two; it holds because the guard refuses a login for as long as the       *)
(* browser has a cookie, and fails when two first logins cross.             *)
TabsActAsCookie ==
  ~overlapped => \A t \in Tabs : Live(creds[t]) => cookie = creds[t]

(* What makes it inductive: a login that will be answered with a token was  *)
(* sent without a cookie, it is the only one, and no tab has a good token.  *)
LoneLogin ==
  ~overlapped =>
    /\ \A t, s \in BareForms : t = s
    /\ \A t \in BareForms, s \in Tabs : cookie = NoToken /\ ~Live(creds[s])

FormsWellFormed ==
  \A t \in Tabs : form[t].at = "served" => form[t].cookie = NoToken

LoginInv == LoginTypeOK /\ FormsWellFormed /\ LoneLogin /\ TabsActAsCookie

(* A browser with a cookie but nobody signed in answers every login with    *)
(* 403 (guardCSRF on the login route); as time passes it does not stay so,  *)
(* since the cookie ends with the token in it.                              *)
LockedOut == cookie # NoToken /\ \A t \in Tabs : ~Live(creds[t])

LockoutEnds ==
  TimePasses => (LockedOut ~> (cookie = NoToken \/ \E t \in Tabs : Live(creds[t])))

=============================================================================
