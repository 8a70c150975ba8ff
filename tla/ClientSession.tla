--------------------------- MODULE ClientSession ---------------------------
(***************************************************************************)
(* Signing in, staying signed in and signing out of the web interface:     *)
(* several tabs of one browser that share the Authorization cookie, each   *)
(* with the token of its own API client, their calls to the server, and    *)
(* what actions/common.js does when a call is refused                      *)
(* (src/frontend/src: actions/common.js, actions/user.js, routes.tsx).     *)
(*                                                                         *)
(* One action is one turn of the browser's event loop, with the React      *)
(* effects it triggers. A call is on its way to the server ("asked"), on   *)
(* its way back ("answered"), or waits for a refresh of the token that is  *)
(* on its way there ("refreshing") or back ("refreshed").                  *)
(***************************************************************************)
EXTENDS ClientActions, Naturals

CONSTANTS
    Tabs,        \* the tabs of the browser
    Calls,       \* the calls a browser has under way at most
    Clicks,      \* the thunks users cause to be dispatched
    MaxExpiries  \* bound: how often all access tokens handed out so far expire

ASSUME ClicksAreThunks == Clicks \subseteq {t \in DOMAIN Thunks : Thunks[t].via # "nobody"}
ASSUME SomeTab == Tabs # {}
ASSUME ExpiriesAreNat == MaxExpiries \in Nat

None == 0
Tokens == 1..(MaxExpiries + 1)      \* a token is named by the number of expiries before it, plus 1

VARIABLES
    cookie,      \* the token in the Authorization cookie, or None
    memory,      \* [tab -> V2.OpenAPI.TOKEN, or None]
    page,        \* [tab -> where it is]
    loggedOut,   \* [tab -> state.error.loggedOut]
    calls,       \* [call -> what is under way; done: how often the server did what the click asks]
    newest,      \* the access tokens from this one on have not expired
    session,     \* the server has a refresh token for the user
    signedOut    \* history: how a tab signed out, if nobody signed in since

vars == <<cookie, memory, page, loggedOut, calls, newest, session, signedOut>>

Pages == {"private", "public", "login", "logout"}   \* private: inside a PrivateRoute
Phases == {"idle", "asked", "answered", "refreshing", "refreshed"}
Refreshes == {"mount", "timer"}                        \* refreshes no call waits for
Results == {"none", "ok", "401", "failed", "lost", "granted", "refused"}
Idle == [phase |-> "idle", tab |-> CHOOSE t \in Tabs : TRUE, what |-> "mount", token |-> None,
         result |-> "none", done |-> 0]
SignedOuts == {"no", "quietly", "during a refresh"}
Waiting(i) == calls[i].phase \in {"refreshing", "refreshed"}
Via(th) == Thunks[th].via

Sent(t, th, token) ==
    [phase |-> "asked", tab |-> t, what |-> th, token |-> token, result |-> "none", done |-> 0]
\* fetch() by hand takes the header from the cookie, the generated client from its own token.
UsesHeader(th) ==
    \/ Via(th) = "downloads"
    \/ th \in {"fetchFileExtractedMetadata", "fetchFileMetadataJsonld", "fetchFilePreviews",
              "fetchPublicFilePreviews"}
\* The server asks for no token under /public_*.
NeedsToken(th) ==
    th \notin DOMAIN PublicDatasetThunks1 \cup DOMAIN PublicDatasetThunks2 \cup DOMAIN PublicFileThunks1
             \cup DOMAIN PublicFileThunks2 \cup DOMAIN PublicVisualizationThunks
             \cup {"fetchPublicFolderPath", "fetchPublicMetadataDefinitions",
                   "fetchPublicDatasetMetadata", "fetchPublicFileMetadata"}
TokenFor(th, mem) == IF UsesHeader(th) THEN cookie ELSE mem
RefreshingOwn(t, what) ==                            \* variant: with the token of the tab
    [phase |-> "refreshing", tab |-> t, what |-> what, token |-> memory[t], result |-> "none", done |-> 0]
Refreshing(t, what) ==
    [phase |-> "refreshing", tab |-> t, what |-> what, token |-> cookie, result |-> "none", done |-> 0]

\* PrivateRoute leaves for the login page once the store says loggedOut, and clears the flag.
LogOutForbidden(t) ==                                \* variant: it leaves for /forbidden
    /\ page' = [page EXCEPT ![t] = IF @ = "private" THEN "forbidden" ELSE @]
    /\ loggedOut' = [loggedOut EXCEPT ![t] = page[t] # "private"]
LogOut(t) ==
    /\ page' = [page EXCEPT ![t] = IF @ = "private" THEN "login" ELSE @]
    /\ loggedOut' = [loggedOut EXCEPT ![t] = page[t] # "private"]

\* A user's click, or an effect of the page, dispatches a thunk.
Dispatch(i, t, th) ==
    /\ calls[i].phase = "idle"
    /\ page[t] = IF NeedsToken(th) THEN "private" ELSE "public"
    /\ calls' = [calls EXCEPT ![i] = Sent(t, th, TokenFor(th, memory[t]))]
    /\ memory' = [memory EXCEPT ![t] = TokenFor(th, @)]
    /\ UNCHANGED <<cookie, page, loggedOut, newest, session, signedOut>>

(***************************************************************************)
(* The server: it refuses a token that is missing or expired before it     *)
(* does anything. "failed" is every other way to go wrong: the server says *)
(* so, or the call is lost, before or after it did what is asked.          *)
(***************************************************************************)
Answer(i, result, done) ==
    calls' = [calls EXCEPT ![i] = [calls[i] EXCEPT !.phase = "answered", !.result = result, !.token = None,
                                            !.done = IF done /\ @ < 2 THEN @ + 1 ELSE @]]
\* (Where a call has no token at all it looks at the cookie, too. Here only the thunks that repeat
\* themselves after a logout have none: what is said below excepts them.)
Refused(i) == NeedsToken(calls[i].what) /\ calls[i].token < newest
Serve(i) ==
    /\ calls[i].phase = "asked" /\ calls[i].what # "logout"
    /\ \/ /\ Refused(i)
          /\ Answer(i, "401", FALSE)
       \/ /\ ~Refused(i)
          /\ Answer(i, "ok", TRUE) \/ Answer(i, "failed", TRUE)
       \/ Answer(i, "failed", FALSE)
    /\ UNCHANGED <<cookie, memory, page, loggedOut, newest, session, signedOut>>

\* keycloak.py logout: it needs an access token that is still good, and forgets the session.
ServeLogout(i) ==
    /\ calls[i].phase = "asked" /\ calls[i].what = "logout"
    /\ session' \in IF calls[i].token >= newest THEN {FALSE} ELSE {session}
    /\ calls' = [calls EXCEPT ![i] = Idle]
    /\ UNCHANGED <<cookie, memory, page, loggedOut, newest, signedOut>>

(***************************************************************************)
(* The answer to a call reaches its tab.                                   *)
(***************************************************************************)
Done(i) == calls' = [calls EXCEPT ![i] = Idle]

\* The answer is dispatched; a failure other than a 401 is shown, and that is all.
ReceiveAnswer(i) ==
    /\ calls[i].phase = "answered"
    /\ calls[i].result \in {"ok"} \cup (IF Via(calls[i].what) = "itself" THEN {} ELSE {"failed"})
    /\ Done(i)
    /\ UNCHANGED <<cookie, memory, page, loggedOut, newest, session, signedOut>>
\* handleErrors and its two variants: a 401 asks for a new token.
ReceiveAnyFailure(i) ==                              \* variant: whatever went wrong
    /\ calls[i].phase = "answered" /\ calls[i].result # "ok" /\ Via(calls[i].what) # "itself"
    /\ calls' = [calls EXCEPT ![i] = [Refreshing(@.tab, @.what) EXCEPT !.done = calls[i].done]]
    /\ UNCHANGED <<cookie, memory, page, loggedOut, newest, session, signedOut>>
ReceiveUnauthorized(i) ==
    /\ calls[i].phase = "answered" /\ calls[i].result = "401" /\ Via(calls[i].what) # "itself"
    /\ calls' = [calls EXCEPT ![i] = [Refreshing(@.tab, @.what) EXCEPT !.done = calls[i].done]]
    /\ UNCHANGED <<cookie, memory, page, loggedOut, newest, session, signedOut>>
\* Four thunks of user.js dispatch themselves again whatever went wrong.
Repeat(i) ==
    /\ calls[i].phase = "answered" /\ calls[i].result # "ok" /\ Via(calls[i].what) = "itself"
    /\ calls' = [calls EXCEPT ![i] = [Sent(@.tab, @.what, memory[@.tab]) EXCEPT !.done = calls[i].done]]
    /\ UNCHANGED <<cookie, memory, page, loggedOut, newest, session, signedOut>>

(***************************************************************************)
(* The refresh of the token.                                               *)
(***************************************************************************)
ServeRefresh(i) ==
    /\ calls[i].phase = "refreshing"
    /\ \E result \in IF calls[i].token # None /\ session THEN {"granted", "lost"} ELSE {"refused", "lost"} :
           calls' = [calls EXCEPT ![i] = [calls[i] EXCEPT !.phase = "refreshed", !.result = result,
                                                   !.token = IF result = "granted" THEN newest ELSE None]]
    /\ UNCHANGED <<cookie, memory, page, loggedOut, newest, session, signedOut>>
\* A new token: the cookie, the client, and the thunk that was refused again.
Retry(i, token) ==
    /\ calls[i].phase = "refreshed" /\ calls[i].result = "granted"
    /\ calls' = [calls EXCEPT ![i] =
           IF @.what \in Refreshes THEN Idle ELSE [Sent(@.tab, Again(@.what), token) EXCEPT !.done = calls[i].done]]
    /\ UNCHANGED <<page, loggedOut, newest, session, signedOut>>
RefreshCookieOnly(i) ==                              \* variant: the client keeps its token
    Retry(i, memory[calls[i].tab]) /\ cookie' = calls[i].token /\ UNCHANGED memory
RefreshGranted(i) ==
    LET token == calls[i].token IN
    /\ Retry(i, token)
    /\ cookie' = token
    /\ memory' = [memory EXCEPT ![calls[i].tab] = token]
\* refreshToken looks for a token in whatever JSON came back: a refusal has none, and is ignored.
IgnoresRefusal(what) == what \in DOMAIN Thunks => Via(what) # "handleErrorsAuthorization"
RefreshIgnored(i) ==
    /\ calls[i].phase = "refreshed"
    /\ \/ calls[i].result = "refused" /\ IgnoresRefusal(calls[i].what)
       \/ calls[i].result = "lost" /\ calls[i].what = "timer"     \* no dispatch: the catch throws
    /\ Done(i)
    /\ UNCHANGED <<cookie, memory, page, loggedOut, newest, session, signedOut>>
\* handleErrorsAuthorization logs out on a refusal, both on a call that is lost.
LogsOut(i) ==
    /\ calls[i].phase = "refreshed"
    /\ \/ calls[i].result = "refused" /\ ~IgnoresRefusal(calls[i].what)
       \/ calls[i].result = "lost" /\ calls[i].what # "timer"
RefreshFailed(i) ==
    LET t == calls[i].tab IN
    /\ LogsOut(i)
    /\ Done(i)
    /\ LogOut(t)
    /\ cookie' = None
    /\ memory' = [memory EXCEPT ![t] = None]
    /\ UNCHANGED <<newest, session, signedOut>>

(***************************************************************************)
(* PrivateRoute: entered, it refreshes the token, once now and then by a   *)
(* timer; drawn, it takes the token from the cookie, and without a cookie  *)
(* it leaves for the public page.                                          *)
(***************************************************************************)
RefreshAlone(i, t, what) ==
    /\ calls[i].phase = "idle"
    /\ page[t] = "private"
    /\ calls' = [calls EXCEPT ![i] = Refreshing(t, what)]
    /\ UNCHANGED <<cookie, memory, page, loggedOut, newest, session, signedOut>>
Draw(t) ==
    /\ page[t] = "private"
    /\ memory' = [memory EXCEPT ![t] = cookie]
    /\ page' = [page EXCEPT ![t] = IF cookie = None THEN "public" ELSE @]
    /\ UNCHANGED <<cookie, loggedOut, calls, newest, session, signedOut>>
\* From a public page or the page after a logout: the state of the store is kept.
Enter(t) ==
    /\ page[t] \in {"public", "logout"} /\ cookie # None
    /\ memory' = [memory EXCEPT ![t] = cookie]
    /\ page' = [page EXCEPT ![t] = IF loggedOut[t] THEN "login" ELSE "private"]
    /\ loggedOut' = [loggedOut EXCEPT ![t] = FALSE]
    /\ UNCHANGED <<cookie, calls, newest, session, signedOut>>

\* /auth/logout: RedirectLogout dispatches logout() once the page is drawn.
SignOut(i, t) ==
    /\ calls[i].phase = "idle"
    /\ page[t] \in {"private", "public"}
    /\ calls' = [calls EXCEPT ![i] = Sent(t, "logout", cookie)]
    /\ memory' = [memory EXCEPT ![t] = None]
    /\ cookie' = None
    /\ page' = [page EXCEPT ![t] = "logout"]
    /\ loggedOut' = [loggedOut EXCEPT ![t] = TRUE]
    /\ signedOut' = IF \E j \in Calls : Waiting(j) THEN "during a refresh" ELSE "quietly"
    /\ UNCHANGED <<newest, session>>
\* Through the identity provider and back to /auth: the tab loads the program anew.
SignIn(t) ==
    /\ page[t] \in {"public", "login", "logout"}
    /\ session' = TRUE
    /\ cookie' = newest
    /\ memory' = [memory EXCEPT ![t] = newest]
    /\ page' = [page EXCEPT ![t] = "private"]
    /\ loggedOut' = [loggedOut EXCEPT ![t] = FALSE]
    /\ calls' = [i \in Calls |-> IF calls[i].tab = t /\ calls[i].what # "logout" THEN Idle ELSE calls[i]]
    /\ signedOut' = "no"
    /\ UNCHANGED newest

Expire ==
    /\ newest <= MaxExpiries
    /\ newest' = newest + 1
    /\ UNCHANGED <<cookie, memory, page, loggedOut, calls, session, signedOut>>
SessionEnds ==
    /\ session
    /\ session' = FALSE
    /\ UNCHANGED <<cookie, memory, page, loggedOut, calls, newest, signedOut>>

Init ==
    /\ cookie = None
    /\ memory = [t \in Tabs |-> None]
    /\ page = [t \in Tabs |-> "public"]
    /\ loggedOut = [t \in Tabs |-> FALSE]
    /\ calls = [i \in Calls |-> Idle]
    /\ newest = 1
    /\ session = FALSE
    /\ signedOut = "no"

CallStep(i) ==
    \/ Serve(i) \/ ServeLogout(i) \/ ReceiveAnswer(i) \/ ReceiveUnauthorized(i)
    \/ Repeat(i) \/ ServeRefresh(i) \/ RefreshGranted(i) \/ RefreshIgnored(i) \/ RefreshFailed(i)
TabStep(t) ==
    \/ Draw(t) \/ Enter(t) \/ SignIn(t)
    \/ \E i \in Calls : SignOut(i, t) \/ \E what \in Refreshes : RefreshAlone(i, t, what)
    \/ \E i \in Calls, th \in Clicks : Dispatch(i, t, th)
Next == (\E i \in Calls : CallStep(i)) \/ (\E t \in Tabs : TabStep(t)) \/ Expire \/ SessionEnds
Spec == Init /\ [][Next]_vars
\* The network and the server answer every call in the end, and the browser runs the callbacks.
Fairness == \A i \in Calls : WF_vars(CallStep(i))
FairSpec == Spec /\ Fairness

(***************************************************************************)
(* Properties.                                                             *)
(***************************************************************************)
TypeOK ==
    /\ cookie \in Tokens \cup {None} /\ newest \in Tokens
    /\ memory \in [Tabs -> Tokens \cup {None}]
    /\ page \in [Tabs -> Pages] /\ loggedOut \in [Tabs -> BOOLEAN]
    /\ calls \in [Calls -> [phase : Phases, tab : Tabs, token : Tokens \cup {None}, result : Results, done : 0..2,
                           what : DOMAIN Thunks \cup Refreshes \cup {"logout"}]]
    /\ session \in BOOLEAN /\ signedOut \in SignedOuts

\* A click is carried out at most once, though the thunk is dispatched again after a 401: only a
\* call that was refused before it did anything is repeated (actions/common.js handleErrors*),
\* but for the thunks of user.js that repeat themselves whatever happened.
ClickedOnce ==
    \A i \in Calls : calls[i].what \in DOMAIN Thunks /\ Via(calls[i].what) # "itself" => calls[i].done <= 1

\* After a logout with no refresh under way in any tab, nothing but a new login brings a cookie
\* back: not a call that was refused before, not a timer of another tab (user.js logoutHelper).
SignedOutStays == signedOut = "quietly" => cookie = None

\* RedirectLogout tells the user "You have logged out.": so it is until somebody logs in.
SignOutIsFinal == signedOut # "no" => cookie = None

\* Whatever expires, is refused or lost, every call of a click ends in an answer, a failure or a
\* logout, but for those that repeat themselves: refreshing and retrying never goes on for ever.
Ends(i) == calls[i].what \notin DOMAIN Thunks \/ Via(calls[i].what) # "itself"
EveryCallEnds ==
    \A i \in Calls : (calls[i].phase # "idle" /\ Ends(i)) ~> calls[i].phase = "idle"

\* What it rests on: how many steps a call c takes to its end at most, if no token expires from
\* number n on, and what an expiry adds to that.
StepsLeft(c, n) ==
    CASE c.phase = "idle" -> 0
      [] c.phase = "answered" -> IF c.result = "401" THEN 5 ELSE 1
      [] c.phase = "refreshing" -> 4
      [] c.phase = "refreshed" -> IF c.result # "granted" THEN 1 ELSE IF c.token < n THEN 7 ELSE 3
      [] c.phase = "asked" -> IF NeedsToken(c.what) /\ c.token < n THEN 6 ELSE 2
Left(c, n) == 5 * (MaxExpiries + 1 - n) + StepsLeft(c, n)

\* Every step of a call and every expiry brings the call nearer to its end, whatever the other
\* calls, tabs and logins do: a thunk that is dispatched again after a refresh has the new token
\* (handleErrors, refreshToken), so that only one more expiry has it refused again.
CallsCountDown == [][\A i \in Calls : calls[i].phase # "idle" /\ Ends(i) =>
    \/ calls'[i].phase = "idle"
    \/ Left(calls'[i], newest') < Left(calls[i], newest)
    \/ UNCHANGED <<calls[i], newest>>]_vars
=============================================================================
