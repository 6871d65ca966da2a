---------------------------- MODULE ClientAccess ---------------------------
(***************************************************************************)
(* Who the browser believes the user to be: the two tokens, the interceptors *)
(* of apiClient that renew them, the auth store with its onboarding status, *)
(* and the pages a user passes on the way to the home page.                *)
(*                                                                         *)
(* Tokens are numbered in the order in which the server issues them.  It   *)
(* takes a refresh token once: AuthService revokes it when it is used.     *)
(***************************************************************************)
EXTENDS Integers

CONSTANTS
  Calls,        \* requests of the pages
  MaxTokens     \* bound on the tokens the server issues

ASSUME AccessAssumption == MaxTokens \in Nat \ {0}

NoToken == 0
Tokens == 1..MaxTokens

Steps == {"CONSENT", "PROFILE", "SURVEY"}
Views == {"SPLASH", "LOGIN", "VERIFY", "FACE", "HOME", "ELSEWHERE"} \cup Steps
Onboarding == {"unknown", "needs-consent", "needs-profile", "needs-survey", "ready"}

VARIABLES
  account,  \* the server: [issued, expired, used, revoked, done], done the steps taken
  tokens,   \* the local storage: [access, refresh]
  renewal,  \* the refresh in flight: [stage, token]
  calls,    \* [Calls -> [stage, token]]
  store,    \* the auth store: [authed, onboarding]
  fetch,    \* hydrate() or signIn(), from one await to the next: [by, stage, profile]
  view      \* the page

accessVars == <<account, tokens, renewal, calls, store, fetch, view>>

NoTokens == [access |-> NoToken, refresh |-> NoToken]
Pair(t) == [access |-> t, refresh |-> t]
NoRenewal == [stage |-> "NONE", token |-> NoToken]
NoCalls == [c \in Calls |-> [stage |-> "IDLE", token |-> NoToken]]
Stranger == [authed |-> FALSE, onboarding |-> "unknown"]
NoFetch == [by |-> "NONE", stage |-> "NONE", profile |-> FALSE]
Fetching(by, stage) == [by |-> by, stage |-> stage, profile |-> FALSE]

AccessTypeOK ==
  /\ account \in [issued : Tokens \cup {NoToken}, expired : Tokens \cup {NoToken},
                  used : SUBSET Tokens, revoked : SUBSET Tokens, done : SUBSET Steps]
  /\ tokens \in {NoTokens} \cup {Pair(t) : t \in 1..account.issued}
  /\ renewal.stage \in {"NONE", "SENT", "ROTATED", "REFUSED"}
  /\ \A c \in Calls : calls[c].stage \in {"IDLE", "SENT", "WAITING", "RESENT"}
  /\ store.authed \in BOOLEAN /\ store.onboarding \in Onboarding
  /\ fetch.by \in {"NONE", "BOOT", "LOGIN", "OAUTH", "SIGNUP"}
  /\ fetch.stage \in {"NONE", "ME", "PROFILE", "CONSENTS", "SURVEY"}
  /\ view \in Views

AccessIdle ==
  /\ account = [issued |-> 0, expired |-> 0, used |-> {}, revoked |-> {}, done |-> {}]
  /\ tokens = NoTokens /\ renewal = NoRenewal /\ calls = NoCalls
  /\ store = Stranger /\ fetch = NoFetch /\ view = "ELSEWHERE"

\* The application starts: the store takes a stored token for a login, and
\* hydrate() asks the server who it belongs to.
AccessInit ==
  \E known \in BOOLEAN, done \in {{}, {"CONSENT"}, {"CONSENT", "PROFILE"}, Steps} :
    /\ account = [issued |-> IF known THEN 1 ELSE 0, expired |-> 0, used |-> {},
                  revoked |-> {}, done |-> done]
    /\ tokens = IF known THEN Pair(1) ELSE NoTokens
    /\ renewal = NoRenewal /\ calls = NoCalls
    /\ store = [Stranger EXCEPT !.authed = known]
    /\ fetch = IF known THEN Fetching("BOOT", "ME") ELSE NoFetch
    /\ view = "SPLASH"

----------------------------------------------------------------------------
(* ProtectedRoute. *)

\* Where a user who goes to a protected page arrives.
Routed(s) ==
  IF ~s.authed THEN "LOGIN"
  ELSE IF s.onboarding = "needs-consent" THEN "CONSENT"
  ELSE IF s.onboarding = "needs-profile" THEN "PROFILE"
  ELSE IF s.onboarding = "needs-survey" THEN "SURVEY"
  ELSE "HOME"

\* A protected page follows the store; the others stay where they are.
Shown(s) == view' = IF view = "HOME" THEN Routed(s) ELSE view
Believes(s) == store' = s

\* A request that finds no refresh token, or whose refresh failed, loads the
\* login page, which forgets everything.
LoadLogin ==
  /\ tokens' = NoTokens
  /\ renewal' = NoRenewal /\ calls' = NoCalls
  /\ Believes(Stranger)
  /\ fetch' = NoFetch
  /\ view' = "LOGIN"

----------------------------------------------------------------------------
(* The requests of the pages, and the tokens. *)

Send(c) ==
  /\ view = "HOME" /\ calls[c].stage = "IDLE" /\ tokens # NoTokens
  /\ calls' = [calls EXCEPT ![c] = [stage |-> "SENT", token |-> tokens.access]]
  /\ UNCHANGED <<account, tokens, renewal, store, fetch, view>>

\* Any answer but a 401, and a second 401, is the caller's.
Settles(c) ==
  /\ calls[c].stage \in {"SENT", "RESENT"}
  /\ calls[c].token > account.expired \/ calls[c].stage = "RESENT"
  /\ calls' = [calls EXCEPT ![c] = NoCalls[c]]
  /\ UNCHANGED <<account, tokens, renewal, store, fetch, view>>

Waits(c) == calls' = [calls EXCEPT ![c].stage = "WAITING"]
Renews == renewal' = [stage |-> "SENT", token |-> tokens.refresh]

\* Mutant of Rejected: every 401 refreshes the tokens for itself.
RejectedAlone(c) ==
  /\ calls[c].stage = "SENT" /\ calls[c].token <= account.expired
  /\ IF tokens = NoTokens THEN LoadLogin
     ELSE Waits(c) /\ Renews /\ UNCHANGED <<tokens, store, fetch, view>>
  /\ UNCHANGED account

\* A first 401: the request waits for the refresh that is in flight, or starts one.
Rejected(c) ==
  /\ calls[c].stage = "SENT" /\ calls[c].token <= account.expired
  /\ IF renewal = NoRenewal /\ tokens = NoTokens THEN LoadLogin
     ELSE /\ Waits(c)
          /\ IF renewal = NoRenewal THEN Renews ELSE UNCHANGED renewal
          /\ UNCHANGED <<tokens, store, fetch, view>>
  /\ UNCHANGED account

\* AuthService.refresh.
ServerRefreshes ==
  /\ renewal.stage = "SENT"
  /\ IF renewal.token \in account.used \cup account.revoked
     THEN renewal' = [renewal EXCEPT !.stage = "REFUSED"] /\ UNCHANGED account
     ELSE /\ account.issued < MaxTokens
          /\ account' = [account EXCEPT !.issued = @ + 1, !.used = @ \cup {renewal.token}]
          /\ renewal' = [stage |-> "ROTATED", token |-> account.issued + 1]
  /\ UNCHANGED <<tokens, calls, store, fetch, view>>

\* The waiting requests are sent again with the new token, or the session is over.
RefreshAnswers(ok) ==
  /\ renewal.stage # "NONE" /\ (ok => renewal.stage = "ROTATED")
  /\ IF ok
     THEN /\ tokens' = Pair(renewal.token)
          /\ renewal' = NoRenewal
          /\ calls' = [c \in Calls |-> IF calls[c].stage = "WAITING"
                                       THEN [stage |-> "RESENT", token |-> renewal.token]
                                       ELSE calls[c]]
          /\ UNCHANGED <<store, fetch, view>>
     ELSE LoadLogin
  /\ UNCHANGED account

AccessExpires ==
  /\ account.expired < account.issued /\ account.issued < MaxTokens
  /\ account' = [account EXCEPT !.expired = account.issued]
  /\ UNCHANGED <<tokens, renewal, calls, store, fetch, view>>

----------------------------------------------------------------------------
(* The auth store. *)

\* The pages go on once signIn() has answered, each to its next page.
AfterCallback(s) == IF s.onboarding = "needs-profile" THEN "VERIFY" ELSE Routed(s)
PageAfter(by, s) ==
  CASE by = "SIGNUP" -> "VERIFY"
    [] by = "OAUTH" -> AfterCallback(s)
    [] OTHER -> Routed(s)

Concludes(status) ==
  LET s == [store EXCEPT !.onboarding = status]
  IN /\ Believes(s)
     /\ fetch' = NoFetch
     /\ IF fetch.by = "BOOT" THEN Shown(s) ELSE view' = PageAfter(fetch.by, s)

\* signIn() stores the tokens and asks /me: after a login, a sign-up or the
\* redirection from an OAuth provider.
LogIn(by) ==
  /\ view = "LOGIN" /\ fetch = NoFetch /\ account.issued < MaxTokens
  /\ account' = [account EXCEPT !.issued = @ + 1]
  /\ tokens' = Pair(account.issued + 1)
  /\ fetch' = Fetching(by, "ME")
  /\ UNCHANGED <<renewal, calls, store, view>>

SignsIn == LogIn("LOGIN")
SignsUp == LogIn("SIGNUP")
CallbackArrives == LogIn("OAUTH")

\* hydrate() drops the tokens when /me fails, signIn() leaves that to its page.
MeAnswers(ok) ==
  /\ fetch.stage = "ME"
  /\ IF ok
     THEN /\ Believes([store EXCEPT !.authed = TRUE])
          /\ fetch' = [fetch EXCEPT !.stage = "PROFILE"]
          /\ Shown([store EXCEPT !.authed = TRUE])
          /\ UNCHANGED tokens
     ELSE /\ fetch' = NoFetch
          /\ IF fetch.by = "BOOT"
             THEN tokens' = NoTokens /\ Believes(Stranger) /\ Shown(Stranger)
             ELSE UNCHANGED <<tokens, store, view>>
  /\ UNCHANGED <<account, renewal, calls>>

\* fetchOnboardingStatus(): what cannot be read lets the user pass.  No account
\* but a seeded one has onboardingCompleted.
ProfileAnswers(ok) ==
  /\ fetch.stage = "PROFILE"
  /\ IF ok
     THEN /\ fetch' = [fetch EXCEPT !.stage = "CONSENTS", !.profile = "PROFILE" \in account.done]
          /\ UNCHANGED <<store, view>>
     ELSE Concludes("unknown")
  /\ UNCHANGED <<account, tokens, renewal, calls>>

ConsentsAnswer(ok) ==
  /\ fetch.stage = "CONSENTS"
  /\ CASE ~ok -> Concludes("unknown")
       [] ok /\ "CONSENT" \notin account.done -> Concludes("needs-consent")
       [] ok /\ "CONSENT" \in account.done /\ ~fetch.profile -> Concludes("needs-profile")
       [] OTHER -> fetch' = [fetch EXCEPT !.stage = "SURVEY"] /\ UNCHANGED <<store, view>>
  /\ UNCHANGED <<account, tokens, renewal, calls>>

SurveyAnswers(ok) ==
  /\ fetch.stage = "SURVEY"
  /\ Concludes(CASE ~ok -> "unknown"
                 [] ok /\ "SURVEY" \in account.done -> "ready"
                 [] OTHER -> "needs-survey")
  /\ UNCHANGED <<account, tokens, renewal, calls>>

\* signOut(): the server revokes the token; the browser drops it in any case.
SignOut(served) ==
  /\ view = "HOME" /\ tokens # NoTokens
  /\ account' = [account EXCEPT !.revoked = IF served THEN @ \cup {tokens.refresh} ELSE @]
  /\ tokens' = NoTokens
  /\ Believes(Stranger) /\ Shown(Stranger)
  /\ UNCHANGED <<renewal, calls, fetch>>

----------------------------------------------------------------------------
(* The pages on the way. *)

\* After three seconds, or when the user starts.
SplashAdvances ==
  /\ view = "SPLASH"
  /\ view' = IF ~store.authed THEN "LOGIN"
             ELSE IF store.onboarding = "needs-profile" THEN "VERIFY"
             ELSE Routed(store)
  /\ UNCHANGED <<account, tokens, renewal, calls, store, fetch>>

Walks(from, to) ==
  /\ view = from /\ view' = to
  /\ UNCHANGED <<account, tokens, renewal, calls, store, fetch>>

VerifyNext == Walks("VERIFY", "CONSENT")
FaceOnward == Walks("FACE", "SURVEY")

\* A step is stored, the status is set to the next one, and the next page opened.
Submits(step, status, next) ==
  /\ view = step /\ tokens # NoTokens
  /\ account' = [account EXCEPT !.done = @ \cup {step}]
  /\ Believes([store EXCEPT !.onboarding = status])
  /\ view' = next
  /\ UNCHANGED <<tokens, renewal, calls, fetch>>

SubmitConsents == Submits("CONSENT", "needs-profile", "PROFILE")

\* Mutant of SubmitProfile: the survey is forgotten.
SubmitProfileLast == "PROFILE" \notin account.done /\ Submits("PROFILE", "ready", "FACE")

\* The server refuses a second profile.
SubmitProfile == "PROFILE" \notin account.done /\ Submits("PROFILE", "needs-survey", "FACE")

\* The page loads the options, which need a profile, and the earlier answers.
SubmitSurvey ==
  /\ "PROFILE" \in account.done
  /\ Submits("SURVEY", "ready", Routed([store EXCEPT !.onboarding = "ready"]))

AccessNext ==
  \/ \E c \in Calls : Send(c) \/ Settles(c) \/ Rejected(c)
  \/ ServerRefreshes \/ AccessExpires
  \/ SignsIn \/ SignsUp \/ CallbackArrives
  \/ \E ok \in BOOLEAN :
       \/ RefreshAnswers(ok) \/ MeAnswers(ok) \/ ProfileAnswers(ok)
       \/ ConsentsAnswer(ok) \/ SurveyAnswers(ok) \/ SignOut(ok)
  \/ SplashAdvances
  \/ VerifyNext \/ FaceOnward
  \/ SubmitConsents \/ SubmitProfile \/ SubmitSurvey

----------------------------------------------------------------------------
(* Properties. *)

\* However many requests fail at once, no refresh token is presented twice,
\* which the server would take for an invalid one and the browser for the end
\* of the session (apiClient's single flight).
RefreshIsFresh == renewal.stage = "SENT" => renewal.token \notin account.used

\* The gate opens only for a user of whom the server has a profile and a
\* survey, or of whom nothing could be read.
GateOpensWhenDone ==
  store.onboarding = "ready" => {"PROFILE", "SURVEY"} \subseteq account.done
============================================================================
