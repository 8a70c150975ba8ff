----------------------- MODULE ClientSession_proofs -----------------------
(***************************************************************************)
(* Proofs about ClientSession, for any tabs, calls and clicks and any      *)
(* number of expiries. Of the thunks they use that the one a refusal       *)
(* repeats is a thunk (TablesFit), not the tables themselves.              *)
(***************************************************************************)
EXTENDS ClientSession, TLAPS

Whats == DOMAIN Thunks \cup Refreshes \cup {"logout"}
CallRecord ==
    [phase : Phases, tab : Tabs, token : Tokens \cup {None}, result : Results, done : 0..2, what : Whats]

\* Thunks are asked and answered, a logout is only asked, and a refresh that no call waits for is
\* neither; a thunk that waits for a refresh is not of those that repeat themselves.
PhaseOK(c) ==
    /\ c.phase = "asked" => c.what \in DOMAIN Thunks \cup {"logout"}
    /\ c.phase = "answered" => c.what \in DOMAIN Thunks
    /\ c.phase \in {"refreshing", "refreshed"} =>
           c.what \in Refreshes \/ (c.what \in DOMAIN Thunks /\ Via(c.what) # "itself")

\* Of a click that does not repeat itself the server has done nothing yet when it is asked, refused
\* or refreshes, and otherwise did it once at most.
OnceOK(c) ==
    c.what \in DOMAIN Thunks /\ Via(c.what) # "itself" =>
        /\ c.done <= 1
        /\ c.phase \in {"asked", "refreshing", "refreshed"} \/ c.result = "401" => c.done = 0

\* A refresh that nobody may grant: it was sent without a token.
QuietOK(c) ==
    /\ c.phase = "refreshing" => c.token = None
    /\ c.phase = "refreshed" => c.result # "granted"

CallOK(c) == PhaseOK(c) /\ OnceOK(c)
CallsOK == \A i \in Calls : CallOK(calls[i])
SessionInv == TypeOK /\ CallsOK
QuietInv == signedOut = "quietly" => cookie = None /\ \A i \in Calls : QuietOK(calls[i])

(***************************************************************************)
(* The records of calls.                                                   *)
(***************************************************************************)
LEMMA TokensAreNat == newest \in Tokens => newest \in Nat /\ newest # None
  BY ExpiriesAreNat DEF Tokens, None

\* A call that is not under way is one, of some tab.
LEMMA IdleIsCall == Idle \in CallRecord /\ CallOK(Idle) /\ QuietOK(Idle)
<1>1. (CHOOSE t \in Tabs : TRUE) \in Tabs
  BY SomeTab
<1>2. Idle \in CallRecord
  BY <1>1 DEF Idle, CallRecord, Phases, Results, Whats, Refreshes, None
<1>3. PhaseOK(Idle) /\ OnceOK(Idle) /\ QuietOK(Idle)
  BY DEF Idle, PhaseOK, OnceOK, QuietOK
<1> QED  BY <1>2, <1>3 DEF CallOK

\* A thunk that is asked for.
LEMMA SentIsCall ==
  ASSUME NEW t \in Tabs, NEW th \in DOMAIN Thunks \cup {"logout"}, NEW token \in Tokens \cup {None}
  PROVE  /\ Sent(t, th, token) \in CallRecord
         /\ CallOK(Sent(t, th, token)) /\ QuietOK(Sent(t, th, token))
<1>1. Sent(t, th, token) \in CallRecord
  BY DEF Sent, CallRecord, Phases, Results, Whats
<1>2. PhaseOK(Sent(t, th, token)) /\ OnceOK(Sent(t, th, token)) /\ QuietOK(Sent(t, th, token))
  BY DEF Sent, PhaseOK, OnceOK, QuietOK
<1> QED  BY <1>1, <1>2 DEF CallOK

\* It keeps what the server did before it was asked for again.
LEMMA SentAgainIsCall ==
  ASSUME NEW t \in Tabs, NEW th \in DOMAIN Thunks, NEW token \in Tokens \cup {None}, NEW d \in 0..2,
         Via(th) # "itself" => d = 0
  PROVE  LET c == [Sent(t, th, token) EXCEPT !.done = d]
         IN  c \in CallRecord /\ CallOK(c) /\ QuietOK(c)
<1> DEFINE c == [Sent(t, th, token) EXCEPT !.done = d]
<1>1. c = [phase |-> "asked", tab |-> t, what |-> th, token |-> token, result |-> "none", done |-> d]
  BY DEF Sent
<1> HIDE DEF c
<1>2. c \in CallRecord
  BY <1>1 DEF CallRecord, Phases, Results, Whats
<1>3. PhaseOK(c) /\ OnceOK(c) /\ QuietOK(c)
  BY <1>1 DEF PhaseOK, OnceOK, QuietOK
<1> QED  BY <1>2, <1>3 DEF CallOK, c

\* A call that waits for a refresh, or a refresh of its own.
LEMMA RefreshingIsCall ==
  ASSUME TypeOK, NEW t \in Tabs, NEW what \in DOMAIN Thunks \cup Refreshes, NEW d \in 0..2,
         what \in Refreshes \/ Via(what) # "itself",
         what \in DOMAIN Thunks /\ Via(what) # "itself" => d = 0
  PROVE  LET c == [Refreshing(t, what) EXCEPT !.done = d]
         IN  c \in CallRecord /\ CallOK(c) /\ (cookie = None => QuietOK(c))
<1> DEFINE c == [Refreshing(t, what) EXCEPT !.done = d]
<1>1. c = [phase |-> "refreshing", tab |-> t, what |-> what, token |-> cookie, result |-> "none", done |-> d]
  BY DEF Refreshing
<1> HIDE DEF c
<1>2. c \in CallRecord
  BY <1>1 DEF CallRecord, Phases, Results, Whats, TypeOK
<1>3. PhaseOK(c) /\ OnceOK(c) /\ (cookie = None => QuietOK(c))
  BY <1>1 DEF PhaseOK, OnceOK, QuietOK
<1> QED  BY <1>2, <1>3 DEF CallOK, c

\* Replacing one call by a call that is right leaves all of them right.
LEMMA OneCall ==
  ASSUME SessionInv, NEW i \in Calls, NEW c \in CallRecord, CallOK(c), calls' = [calls EXCEPT ![i] = c]
  PROVE  /\ calls' \in [Calls -> CallRecord] /\ CallsOK'
         /\ \A j \in Calls : calls'[j] = IF j = i THEN c ELSE calls[j]
<1>1. calls \in [Calls -> CallRecord]
  BY DEF SessionInv, TypeOK, CallRecord, Whats
<1>2. \A j \in Calls : calls'[j] = IF j = i THEN c ELSE calls[j]
  BY <1>1
<1>3. calls' \in [Calls -> CallRecord]
  BY <1>1
<1>4. \A j \in Calls : CallOK(calls'[j])
  BY <1>2 DEF SessionInv, CallsOK
<1> QED  BY <1>2, <1>3, <1>4 DEF CallsOK

(***************************************************************************)
(* What each step does to a call.                                          *)
(***************************************************************************)
Changes(i) ==
    \E c \in CallRecord :
        /\ CallOK(c)
        /\ calls' = [calls EXCEPT ![i] = c]
        /\ cookie = None /\ QuietOK(calls[i]) => QuietOK(c)

LEMMA CallType == ASSUME SessionInv, NEW i \in Calls
                  PROVE  /\ calls[i] \in CallRecord /\ CallOK(calls[i])
                         /\ calls[i].phase \in Phases /\ calls[i].tab \in Tabs
                         /\ calls[i].token \in Tokens \cup {None} /\ calls[i].result \in Results
                         /\ calls[i].done \in 0..2 /\ calls[i].what \in Whats
<1>1. calls[i] \in CallRecord
  BY DEF SessionInv, TypeOK, CallRecord, Whats
<1>2. CallOK(calls[i])
  BY DEF SessionInv, CallsOK
<1> QED  BY <1>1, <1>2 DEF CallRecord

LEMMA DoneChanges == ASSUME SessionInv, NEW i \in Calls, Done(i) PROVE Changes(i)
  BY IdleIsCall DEF Done, Changes

\* The answers of the server: a refusal comes before it did anything.
LEMMA AnswerChanges ==
  ASSUME SessionInv, NEW i \in Calls, NEW result \in {"ok", "failed", "401"}, NEW done \in BOOLEAN,
         calls[i].phase = "asked", calls[i].what # "logout", result = "401" => ~done, Answer(i, result, done)
  PROVE  Changes(i)
<1> DEFINE n == IF done /\ calls[i].done < 2 THEN calls[i].done + 1 ELSE calls[i].done
           c == [calls[i] EXCEPT !.phase = "answered", !.result = result, !.token = None, !.done = n]
<1>1. /\ calls[i] \in CallRecord /\ CallOK(calls[i]) /\ calls[i].tab \in Tabs
      /\ calls[i].done \in 0..2 /\ calls[i].what \in Whats
  BY CallType
<1>2. calls' = [calls EXCEPT ![i] = c]
  BY DEF Answer
<1>3. /\ c \in CallRecord /\ c.phase = "answered" /\ c.result = result /\ c.what = calls[i].what
      /\ c.done = n
  <2>1. n \in 0..2
    BY <1>1
  <2> HIDE DEF n
  <2> QED  BY <1>1, <2>1 DEF CallRecord, Phases, Results
<1> HIDE DEF c
<1>4. PhaseOK(c)
  BY <1>1, <1>3 DEF PhaseOK, CallOK
<1>5. OnceOK(c)
  BY <1>1, <1>3 DEF OnceOK, CallOK
<1>6. QuietOK(c)
  BY <1>3 DEF QuietOK
<1> QED  BY <1>2, <1>3, <1>4, <1>5, <1>6 DEF Changes, CallOK

LEMMA ServeChanges == ASSUME SessionInv, NEW i \in Calls, Serve(i) PROVE Changes(i)
<1>1. \E result \in {"ok", "failed", "401"}, done \in BOOLEAN :
          (result = "401" => ~done) /\ Answer(i, result, done)
  BY DEF Serve
<1>2. calls[i].phase = "asked" /\ calls[i].what # "logout"
  BY DEF Serve
<1> QED  BY <1>1, <1>2, AnswerChanges

LEMMA ReceiveUnauthorizedChanges ==
  ASSUME SessionInv, NEW i \in Calls, ReceiveUnauthorized(i) PROVE Changes(i)
<1> DEFINE c == [Refreshing(calls[i].tab, calls[i].what) EXCEPT !.done = calls[i].done]
<1>1. /\ calls[i] \in CallRecord /\ CallOK(calls[i]) /\ calls[i].tab \in Tabs
      /\ calls[i].done \in 0..2 /\ calls[i].what \in Whats
  BY CallType
<1>2. /\ calls[i].what \in DOMAIN Thunks \cup Refreshes /\ Via(calls[i].what) # "itself"
      /\ calls[i].what \in DOMAIN Thunks /\ Via(calls[i].what) # "itself" => calls[i].done = 0
  BY <1>1 DEF CallOK, PhaseOK, OnceOK, ReceiveUnauthorized
<1>3. c \in CallRecord /\ CallOK(c) /\ (cookie = None => QuietOK(c))
  BY <1>1, <1>2, RefreshingIsCall DEF SessionInv
<1>4. calls' = [calls EXCEPT ![i] = c]
  BY DEF ReceiveUnauthorized
<1> HIDE DEF c
<1> QED  BY <1>3, <1>4 DEF Changes

LEMMA RepeatChanges == ASSUME SessionInv, NEW i \in Calls, Repeat(i) PROVE Changes(i)
<1> DEFINE c == [Sent(calls[i].tab, calls[i].what, memory[calls[i].tab]) EXCEPT !.done = calls[i].done]
<1>1. /\ calls[i] \in CallRecord /\ CallOK(calls[i]) /\ calls[i].tab \in Tabs
      /\ calls[i].done \in 0..2 /\ calls[i].what \in Whats
  BY CallType
<1>2. calls[i].what \in DOMAIN Thunks /\ Via(calls[i].what) = "itself"
  BY <1>1 DEF CallOK, PhaseOK, Repeat
<1>3. memory[calls[i].tab] \in Tokens \cup {None}
  BY <1>1 DEF SessionInv, TypeOK
<1>4. c \in CallRecord /\ CallOK(c) /\ QuietOK(c)
  BY <1>1, <1>2, <1>3, SentAgainIsCall
<1>5. calls' = [calls EXCEPT ![i] = c]
  BY DEF Repeat
<1> HIDE DEF c
<1> QED  BY <1>4, <1>5 DEF Changes

\* Without a token there is nothing to grant.
LEMMA ServeRefreshChanges == ASSUME SessionInv, NEW i \in Calls, ServeRefresh(i) PROVE Changes(i)
<1>1. /\ calls[i] \in CallRecord /\ CallOK(calls[i]) /\ calls[i].tab \in Tabs
      /\ calls[i].done \in 0..2 /\ calls[i].what \in Whats
  BY CallType
<1>2. PICK result \in IF calls[i].token # None /\ session THEN {"granted", "lost"} ELSE {"refused", "lost"} :
          calls' = [calls EXCEPT ![i] = [calls[i] EXCEPT !.phase = "refreshed", !.result = result,
                                                  !.token = IF result = "granted" THEN newest ELSE None]]
  BY DEF ServeRefresh
<1> DEFINE c == [calls[i] EXCEPT !.phase = "refreshed", !.result = result,
                                 !.token = IF result = "granted" THEN newest ELSE None]
<1>3. calls' = [calls EXCEPT ![i] = c]
  BY <1>2
<1>4. result \in {"granted", "refused", "lost"} /\ (result = "granted" => calls[i].token # None)
  BY <1>2
<1>5. /\ c \in CallRecord /\ c.phase = "refreshed" /\ c.result = result /\ c.what = calls[i].what
      /\ c.done = calls[i].done
  <2>1. newest \in Tokens
    BY DEF SessionInv, TypeOK
  <2> QED  BY <1>1, <1>4, <2>1 DEF CallRecord, Phases, Results
<1> HIDE DEF c
<1>6. PhaseOK(c)
  BY <1>1, <1>5 DEF PhaseOK, CallOK, ServeRefresh
<1>7. OnceOK(c)
  BY <1>1, <1>4, <1>5 DEF OnceOK, CallOK, ServeRefresh
<1>8. QuietOK(calls[i]) => QuietOK(c)
  BY <1>4, <1>5 DEF QuietOK, ServeRefresh
<1> QED  BY <1>3, <1>5, <1>6, <1>7, <1>8 DEF Changes, CallOK

\* The thunk that is repeated is one, and waits with nothing done.
LEMMA RefreshGrantedChanges == ASSUME SessionInv, NEW i \in Calls, RefreshGranted(i) PROVE Changes(i)
<1> DEFINE c == [Sent(calls[i].tab, Again(calls[i].what), calls[i].token) EXCEPT !.done = calls[i].done]
<1>1. /\ calls[i] \in CallRecord /\ CallOK(calls[i]) /\ calls[i].tab \in Tabs
      /\ calls[i].token \in Tokens \cup {None} /\ calls[i].done \in 0..2 /\ calls[i].what \in Whats
  BY CallType
<1>2. /\ calls[i].phase = "refreshed"
      /\ calls' = [calls EXCEPT ![i] = IF calls[i].what \in Refreshes THEN Idle ELSE c]
  BY DEF RefreshGranted, Retry
<1>3. CASE calls[i].what \in Refreshes
  BY <1>2, <1>3, IdleIsCall DEF Changes
<1>4. CASE calls[i].what \notin Refreshes
  <2>1. calls[i].what \in DOMAIN Thunks /\ calls[i].done = 0
    BY <1>1, <1>2, <1>4 DEF CallOK, PhaseOK, OnceOK
  <2>2. Again(calls[i].what) \in DOMAIN Thunks
    BY <2>1, TablesFit DEF Again
  <2>3. c \in CallRecord /\ CallOK(c) /\ QuietOK(c)
    BY <1>1, <2>1, <2>2, SentAgainIsCall
  <2> HIDE DEF c
  <2> QED  BY <1>2, <1>4, <2>3 DEF Changes
<1> QED  BY <1>3, <1>4

\* A refresh of its own.
LEMMA RefreshAloneChanges ==
  ASSUME SessionInv, NEW i \in Calls, NEW t \in Tabs, NEW what \in Refreshes, RefreshAlone(i, t, what)
  PROVE  Changes(i)
<1> DEFINE c == Refreshing(t, what)
<1>1. c = [phase |-> "refreshing", tab |-> t, what |-> what, token |-> cookie, result |-> "none", done |-> 0]
  BY DEF Refreshing
<1>2. calls' = [calls EXCEPT ![i] = c]
  BY DEF RefreshAlone
<1> HIDE DEF c
<1>3. c \in CallRecord
  BY <1>1 DEF CallRecord, Phases, Results, Whats, SessionInv, TypeOK
<1>4. PhaseOK(c) /\ OnceOK(c) /\ (cookie = None => QuietOK(c))
  BY <1>1 DEF PhaseOK, OnceOK, QuietOK
<1> QED  BY <1>2, <1>3, <1>4 DEF Changes, CallOK

LEMMA DispatchChanges ==
  ASSUME SessionInv, NEW i \in Calls, NEW t \in Tabs, NEW th \in Clicks, Dispatch(i, t, th) PROVE Changes(i)
<1>1. TokenFor(th, memory[t]) \in Tokens \cup {None} /\ th \in DOMAIN Thunks
  BY ClicksAreThunks DEF TokenFor, SessionInv, TypeOK
<1>2. calls' = [calls EXCEPT ![i] = Sent(t, th, TokenFor(th, memory[t]))]
  BY DEF Dispatch
<1> QED  BY <1>1, <1>2, SentIsCall DEF Changes

LEMMA SignOutChanges ==
  ASSUME SessionInv, NEW i \in Calls, NEW t \in Tabs, SignOut(i, t)
  PROVE  Changes(i) /\ (\A j \in Calls : ~Waiting(j) => QuietOK(calls[j]))
<1>1. cookie \in Tokens \cup {None}
  BY DEF SessionInv, TypeOK
<1>2. calls' = [calls EXCEPT ![i] = Sent(t, "logout", cookie)]
  BY DEF SignOut
<1>3. \A j \in Calls : ~Waiting(j) => QuietOK(calls[j])
  BY DEF Waiting, QuietOK
<1> QED  BY <1>1, <1>2, <1>3, SentIsCall DEF Changes

(***************************************************************************)
(* The steps keep the invariants.                                          *)
(***************************************************************************)
LEMMA ChangedCalls ==
  ASSUME SessionInv, NEW i \in Calls, Changes(i)
  PROVE  /\ calls' \in [Calls -> CallRecord] /\ CallsOK'
         /\ cookie = None /\ (\A j \in Calls : QuietOK(calls[j])) => \A j \in Calls : QuietOK(calls'[j])
<1>1. PICK c \in CallRecord : /\ CallOK(c) /\ calls' = [calls EXCEPT ![i] = c]
                              /\ cookie = None /\ QuietOK(calls[i]) => QuietOK(c)
  BY DEF Changes
<1>2. /\ calls' \in [Calls -> CallRecord] /\ CallsOK'
      /\ \A j \in Calls : calls'[j] = IF j = i THEN c ELSE calls[j]
  BY <1>1, OneCall
<1> QED  BY <1>1, <1>2

\* A step that changes one call and nothing else but what a failed refresh changes.
LEMMA ChangesKeepQuiet ==
  ASSUME SessionInv, QuietInv, NEW i \in Calls, Changes(i), signedOut' = signedOut, cookie' \in {cookie, None}
  PROVE  QuietInv'
<1> SUFFICES ASSUME signedOut = "quietly" PROVE cookie' = None /\ \A j \in Calls : QuietOK(calls'[j])
  BY DEF QuietInv, QuietOK
<1>1. cookie = None /\ \A j \in Calls : QuietOK(calls[j])
  BY DEF QuietInv
<1> QED  BY <1>1, ChangedCalls

LEMMA TypeOfRest ==
  ASSUME calls' \in [Calls -> CallRecord], CallsOK', cookie' \in Tokens \cup {None}, newest' \in Tokens,
         memory' \in [Tabs -> Tokens \cup {None}], page' \in [Tabs -> Pages], loggedOut' \in [Tabs -> BOOLEAN],
         session' \in BOOLEAN, signedOut' \in SignedOuts
  PROVE  SessionInv'
  BY DEF SessionInv, TypeOK, CallRecord, Whats

\* The steps of a call that change nothing else.
CallAlone(i) ==
    \/ Serve(i) \/ ServeLogout(i) \/ ReceiveAnswer(i) \/ ReceiveUnauthorized(i)
    \/ Repeat(i) \/ ServeRefresh(i) \/ RefreshIgnored(i)

LEMMA CallAloneKeeps ==
  ASSUME SessionInv, QuietInv, NEW i \in Calls, CallAlone(i) PROVE SessionInv' /\ QuietInv'
<1>1. Changes(i)
  <2>1. CASE ServeLogout(i)
    BY <2>1, DoneChanges DEF ServeLogout, Done
  <2>2. CASE ReceiveAnswer(i) \/ RefreshIgnored(i)
    BY <2>2, DoneChanges DEF ReceiveAnswer, RefreshIgnored
  <2> QED  BY <2>1, <2>2, ServeChanges, ReceiveUnauthorizedChanges, RepeatChanges, ServeRefreshChanges
           DEF CallAlone
<1>2. /\ UNCHANGED <<cookie, memory, page, loggedOut, newest, signedOut>>
      /\ session' = session \/ session' = FALSE
  BY DEF CallAlone, Serve, ServeLogout, ReceiveAnswer, ReceiveUnauthorized, Repeat, ServeRefresh, RefreshIgnored
<1>3. SessionInv'
  BY <1>1, <1>2, ChangedCalls, TypeOfRest DEF SessionInv, TypeOK
<1>4. QuietInv'
  BY <1>1, <1>2, ChangesKeepQuiet
<1> QED  BY <1>3, <1>4

\* A token that comes back was asked for with one, so nobody signed out quietly before.
LEMMA RefreshGrantedKeeps ==
  ASSUME SessionInv, QuietInv, NEW i \in Calls, RefreshGranted(i) PROVE SessionInv' /\ QuietInv'
<1>1. /\ calls[i].token \in Tokens \cup {None} /\ calls[i].phase = "refreshed" /\ calls[i].result = "granted"
      /\ cookie' = calls[i].token /\ memory' = [memory EXCEPT ![calls[i].tab] = calls[i].token]
      /\ UNCHANGED <<page, loggedOut, newest, session, signedOut>>
  BY CallType DEF RefreshGranted, Retry
<1>2. SessionInv'
  BY <1>1, RefreshGrantedChanges, ChangedCalls, TypeOfRest DEF SessionInv, TypeOK
<1>3. signedOut # "quietly"
  BY <1>1 DEF QuietInv, QuietOK
<1> QED  BY <1>1, <1>2, <1>3 DEF QuietInv

LEMMA RefreshFailedKeeps ==
  ASSUME SessionInv, QuietInv, NEW i \in Calls, RefreshFailed(i) PROVE SessionInv' /\ QuietInv'
<1>1. Changes(i)
  BY DoneChanges DEF RefreshFailed
<1>2. /\ cookie' = None /\ memory' = [memory EXCEPT ![calls[i].tab] = None]
      /\ UNCHANGED <<newest, session, signedOut>> /\ LogOut(calls[i].tab)
  BY DEF RefreshFailed
<1>3. page' \in [Tabs -> Pages] /\ loggedOut' \in [Tabs -> BOOLEAN]
  BY <1>2 DEF LogOut, SessionInv, TypeOK, Pages
<1>4. SessionInv'
  BY <1>1, <1>2, <1>3, ChangedCalls, TypeOfRest DEF SessionInv, TypeOK
<1>5. QuietInv'
  BY <1>1, <1>2, ChangesKeepQuiet
<1> QED  BY <1>4, <1>5

LEMMA CallStepKeeps ==
  ASSUME SessionInv, QuietInv, NEW i \in Calls, CallStep(i) PROVE SessionInv' /\ QuietInv'
  BY CallAloneKeeps, RefreshGrantedKeeps, RefreshFailedKeeps DEF CallStep, CallAlone

LEMMA PagesKeep ==
  ASSUME SessionInv, QuietInv, NEW t \in Tabs, Draw(t) \/ Enter(t) PROVE SessionInv' /\ QuietInv'
<1>1. UNCHANGED <<cookie, calls, newest, session, signedOut>>
  BY DEF Draw, Enter
<1>2. calls' \in [Calls -> CallRecord] /\ CallsOK' /\ (QuietInv => QuietInv')
  BY <1>1 DEF SessionInv, TypeOK, CallsOK, CallRecord, Whats, QuietInv
<1>3. /\ memory' \in [Tabs -> Tokens \cup {None}] /\ page' \in [Tabs -> Pages]
      /\ loggedOut' \in [Tabs -> BOOLEAN]
  <2>1. CASE Draw(t)
    BY <2>1 DEF Draw, SessionInv, TypeOK, Pages
  <2>2. CASE Enter(t)
    BY <2>2 DEF Enter, SessionInv, TypeOK, Pages
  <2> QED  BY <2>1, <2>2
<1>4. SessionInv'
  BY <1>1, <1>2, <1>3, TypeOfRest DEF SessionInv, TypeOK
<1> QED  BY <1>2, <1>4

\* A login ends the calls of its tab, and what was signed out.
LEMMA SignInKeeps ==
  ASSUME SessionInv, QuietInv, NEW t \in Tabs, SignIn(t) PROVE SessionInv' /\ QuietInv'
<1>1. calls \in [Calls -> CallRecord]
  BY DEF SessionInv, TypeOK, CallRecord, Whats
<1>2. \A i \in Calls : calls'[i] \in {Idle, calls[i]}
  BY DEF SignIn
<1>3. calls' \in [Calls -> CallRecord]
  BY <1>1, IdleIsCall DEF SignIn
<1>4. CallsOK'
  BY <1>2, IdleIsCall DEF SessionInv, CallsOK
<1>5. SessionInv'
  BY <1>3, <1>4, TypeOfRest DEF SignIn, SessionInv, TypeOK, Pages, SignedOuts
<1>6. signedOut' # "quietly"
  BY DEF SignIn
<1> QED  BY <1>5, <1>6 DEF QuietInv

\* A logout is quiet when no call waits for a refresh.
LEMMA SignOutKeeps ==
  ASSUME SessionInv, QuietInv, NEW t \in Tabs, NEW i \in Calls, SignOut(i, t) PROVE SessionInv' /\ QuietInv'
<1>1. Changes(i) /\ \A j \in Calls : ~Waiting(j) => QuietOK(calls[j])
  BY SignOutChanges
<1>2. /\ cookie' = None /\ memory' = [memory EXCEPT ![t] = None] /\ page' = [page EXCEPT ![t] = "logout"]
      /\ loggedOut' = [loggedOut EXCEPT ![t] = TRUE] /\ UNCHANGED <<newest, session>>
      /\ signedOut' = IF \E j \in Calls : Waiting(j) THEN "during a refresh" ELSE "quietly"
  BY DEF SignOut
<1>3. SessionInv'
  BY <1>1, <1>2, ChangedCalls, TypeOfRest DEF SessionInv, TypeOK, Pages, SignedOuts
<1>4. ASSUME signedOut' = "quietly" PROVE \A j \in Calls : QuietOK(calls'[j])
  <2>1. \A j \in Calls : QuietOK(calls[j])
    BY <1>1, <1>2, <1>4
  <2>2. /\ Sent(t, "logout", cookie) \in CallRecord /\ CallOK(Sent(t, "logout", cookie))
        /\ QuietOK(Sent(t, "logout", cookie))
    BY SentIsCall DEF SessionInv, TypeOK, Whats
  <2>3. \A j \in Calls : calls'[j] = IF j = i THEN Sent(t, "logout", cookie) ELSE calls[j]
    BY <2>2, OneCall DEF SignOut
  <2> QED  BY <2>1, <2>2, <2>3
<1>5. QuietInv'
  BY <1>2, <1>4 DEF QuietInv, QuietOK
<1> QED  BY <1>3, <1>5

LEMMA TabStepKeeps ==
  ASSUME SessionInv, QuietInv, NEW t \in Tabs, TabStep(t) PROVE SessionInv' /\ QuietInv'
<1>1. CASE Draw(t) \/ Enter(t)
  BY <1>1, PagesKeep
<1>2. CASE SignIn(t)
  BY <1>2, SignInKeeps
<1>3. ASSUME NEW i \in Calls, SignOut(i, t) PROVE SessionInv' /\ QuietInv'
  BY <1>3, SignOutKeeps
<1>4. ASSUME NEW i \in Calls, NEW what \in Refreshes, RefreshAlone(i, t, what) PROVE SessionInv' /\ QuietInv'
  <2>1. Changes(i) /\ UNCHANGED <<cookie, memory, page, loggedOut, newest, session, signedOut>>
    BY <1>4, RefreshAloneChanges DEF RefreshAlone
  <2> QED  BY <2>1, ChangedCalls, TypeOfRest, ChangesKeepQuiet DEF SessionInv, TypeOK
<1>5. ASSUME NEW i \in Calls, NEW th \in Clicks, Dispatch(i, t, th) PROVE SessionInv' /\ QuietInv'
  <2>1. Changes(i) /\ UNCHANGED <<cookie, page, loggedOut, newest, session, signedOut>>
    BY <1>5, DispatchChanges DEF Dispatch
  <2>2. memory' \in [Tabs -> Tokens \cup {None}]
    BY <1>5 DEF Dispatch, TokenFor, SessionInv, TypeOK
  <2> QED  BY <2>1, <2>2, ChangedCalls, TypeOfRest, ChangesKeepQuiet DEF SessionInv, TypeOK
<1> QED  BY <1>1, <1>2, <1>3, <1>4, <1>5 DEF TabStep

LEMMA NextKeeps == SessionInv /\ QuietInv /\ [Next]_vars => SessionInv' /\ QuietInv'
<1> SUFFICES ASSUME SessionInv, QuietInv, [Next]_vars PROVE SessionInv' /\ QuietInv'
  OBVIOUS
<1>1. ASSUME NEW i \in Calls, CallStep(i) PROVE SessionInv' /\ QuietInv'
  BY <1>1, CallStepKeeps
<1>2. ASSUME NEW t \in Tabs, TabStep(t) PROVE SessionInv' /\ QuietInv'
  BY <1>2, TabStepKeeps
<1>3. CASE Expire \/ SessionEnds
  <2>1. newest' \in Tokens /\ session' \in BOOLEAN
    <3>1. CASE Expire
      BY <3>1, ExpiriesAreNat DEF Expire, SessionInv, TypeOK, Tokens
    <3>2. CASE SessionEnds
      BY <3>2 DEF SessionEnds, SessionInv, TypeOK
    <3> QED  BY <1>3, <3>1, <3>2
  <2>2. UNCHANGED <<cookie, memory, page, loggedOut, calls, signedOut>>
    BY <1>3 DEF Expire, SessionEnds
  <2>3. calls' \in [Calls -> CallRecord] /\ CallsOK' /\ QuietInv'
    BY <2>2 DEF SessionInv, TypeOK, CallsOK, CallRecord, Whats, QuietInv
  <2> QED  BY <2>1, <2>2, <2>3, TypeOfRest DEF SessionInv, TypeOK
<1>4. CASE UNCHANGED vars
  BY <1>4 DEF vars, SessionInv, TypeOK, CallsOK, QuietInv
<1> QED  BY <1>1, <1>2, <1>3, <1>4 DEF Next

LEMMA InitRight == Init => SessionInv /\ QuietInv
<1> SUFFICES ASSUME Init PROVE SessionInv /\ QuietInv
  OBVIOUS
<1>1. calls \in [Calls -> CallRecord] /\ CallsOK
  BY IdleIsCall DEF Init, CallsOK
<1>2. cookie \in Tokens \cup {None} /\ newest \in Tokens
  BY ExpiriesAreNat DEF Init, Tokens
<1>3. SessionInv
  BY <1>1, <1>2 DEF Init, SessionInv, TypeOK, CallRecord, Whats, Pages, SignedOuts
<1>4. QuietInv
  BY DEF Init, QuietInv
<1> QED  BY <1>3, <1>4

LEMMA SessionInvariant == Spec => [](SessionInv /\ QuietInv)
  BY InitRight, NextKeeps, PTL DEF Spec

(***************************************************************************)
(* The theorems.                                                           *)
(***************************************************************************)
\* Every variable keeps its type, for any tabs, calls, clicks and expiries.
THEOREM SessionTypeCorrect == Spec => []TypeOK
<1>1. SessionInv /\ QuietInv => TypeOK
  BY DEF SessionInv
<1> QED  BY <1>1, SessionInvariant, PTL

\* However often tokens expire and calls are refused, refreshed for and sent again, the server does
\* what a click asks at most once (handleErrors, refreshToken of actions/common.js).
THEOREM ClicksAreDoneOnce == Spec => []ClickedOnce
<1>1. SessionInv /\ QuietInv => ClickedOnce
  BY DEF SessionInv, CallsOK, CallOK, OnceOK, ClickedOnce
<1> QED  BY <1>1, SessionInvariant, PTL

\* A logout with no refresh under way in any tab is not undone by the calls, timers and pages of any
\* tab, only by a login (logoutHelper of actions/user.js, PrivateRoute of routes.tsx).
THEOREM QuietLogoutStays == Spec => []SignedOutStays
<1>1. SessionInv /\ QuietInv => SignedOutStays
  BY DEF QuietInv, SignedOutStays
<1> QED  BY <1>1, SessionInvariant, PTL

(***************************************************************************)
(* The count-down of a call.                                               *)
(***************************************************************************)
Falls(i) ==
    \/ calls'[i].phase = "idle"
    \/ Left(calls'[i], newest') < Left(calls[i], newest)
    \/ UNCHANGED <<calls[i], newest>>

\* What is counted down is a natural number.
LEMMA CountIsNatural ==
  ASSUME NEW c, NEW n \in Tokens, c.phase \in Phases
  PROVE  StepsLeft(c, n) \in 0..7 /\ 5 * (MaxExpiries + 1 - n) \in Nat /\ Left(c, n) \in Nat
<1>1. StepsLeft(c, n) \in 0..7
  BY DEF StepsLeft, Phases
<1>2. 5 * (MaxExpiries + 1 - n) \in Nat
  BY ExpiriesAreNat DEF Tokens
<1> QED  BY <1>1, <1>2 DEF Left

\* A step of the call with no expiry.
LEMMA FewerSteps ==
  ASSUME SessionInv, NEW i \in Calls, calls'[i].phase \in Phases, newest' = newest,
         StepsLeft(calls'[i], newest) < StepsLeft(calls[i], newest)
  PROVE  Falls(i)
<1>1. newest \in Tokens /\ calls[i].phase \in Phases
  BY CallType DEF SessionInv, TypeOK, CallRecord
<1>2. /\ StepsLeft(calls[i], newest) \in 0..7 /\ StepsLeft(calls'[i], newest) \in 0..7
      /\ 5 * (MaxExpiries + 1 - newest) \in Nat
  BY <1>1, CountIsNatural
<1>3. Left(calls'[i], newest) < Left(calls[i], newest)
  BY <1>2 DEF Left
<1> QED  BY <1>3 DEF Falls

\* What is answered with other than a 401, or refused, is one step from its end.
LEMMA ServeFalls == ASSUME SessionInv, NEW i \in Calls, Serve(i) PROVE Falls(i)
<1>1. PICK result \in {"ok", "failed", "401"}, done \in BOOLEAN :
          (result = "401" => Refused(i)) /\ Answer(i, result, done)
  BY DEF Serve
<1>2. calls[i] \in CallRecord /\ calls[i].phase = "asked" /\ newest' = newest
  BY CallType DEF Serve
<1>3. calls'[i].phase = "answered" /\ calls'[i].result = result
  BY <1>1, <1>2, CallType DEF Answer, CallRecord, SessionInv, TypeOK
<1>4. StepsLeft(calls[i], newest) = IF Refused(i) THEN 6 ELSE 2
  BY <1>2 DEF StepsLeft, Refused
<1>5. StepsLeft(calls'[i], newest) = IF result = "401" THEN 5 ELSE 1
  BY <1>3 DEF StepsLeft
<1> QED  BY <1>1, <1>2, <1>3, <1>4, <1>5, FewerSteps DEF Phases

LEMMA ReceiveUnauthorizedFalls ==
  ASSUME SessionInv, NEW i \in Calls, ReceiveUnauthorized(i) PROVE Falls(i)
<1>1. calls[i].phase = "answered" /\ calls[i].result = "401" /\ newest' = newest
  BY DEF ReceiveUnauthorized
<1>2. calls'[i].phase = "refreshing"
  BY DEF ReceiveUnauthorized, Refreshing, SessionInv, TypeOK
<1>3. StepsLeft(calls[i], newest) = 5 /\ StepsLeft(calls'[i], newest) = 4
  BY <1>1, <1>2 DEF StepsLeft
<1> QED  BY <1>1, <1>2, <1>3, FewerSteps DEF Phases

\* The token of a refresh that is granted has not expired.
LEMMA ServeRefreshFalls == ASSUME SessionInv, NEW i \in Calls, ServeRefresh(i) PROVE Falls(i)
<1>1. calls[i] \in CallRecord /\ calls[i].phase = "refreshing" /\ newest' = newest
  BY CallType DEF ServeRefresh
<1>2. PICK result :
          calls' = [calls EXCEPT ![i] = [calls[i] EXCEPT !.phase = "refreshed", !.result = result,
                                                  !.token = IF result = "granted" THEN newest ELSE None]]
  BY DEF ServeRefresh
<1>3. /\ calls'[i].phase = "refreshed" /\ calls'[i].result = result
      /\ calls'[i].token = IF result = "granted" THEN newest ELSE None
  BY <1>1, <1>2 DEF CallRecord, SessionInv, TypeOK
<1>4. ~(newest < newest)
  BY TokensAreNat DEF SessionInv, TypeOK
<1>5. StepsLeft(calls[i], newest) = 4 /\ StepsLeft(calls'[i], newest) \in {1, 3}
  BY <1>1, <1>3, <1>4 DEF StepsLeft
<1> QED  BY <1>1, <1>3, <1>5, FewerSteps DEF Phases

\* The thunk is asked again with the token that was granted.
LEMMA RefreshGrantedFalls == ASSUME SessionInv, NEW i \in Calls, RefreshGranted(i) PROVE Falls(i)
<1> DEFINE c == [Sent(calls[i].tab, Again(calls[i].what), calls[i].token) EXCEPT !.done = calls[i].done]
<1>1. /\ calls[i].phase = "refreshed" /\ calls[i].result = "granted" /\ newest' = newest
      /\ calls' = [calls EXCEPT ![i] = IF calls[i].what \in Refreshes THEN Idle ELSE c]
  BY DEF RefreshGranted, Retry
<1>2. calls'[i] = IF calls[i].what \in Refreshes THEN Idle ELSE c
  BY <1>1 DEF SessionInv, TypeOK
<1>3. CASE calls[i].what \in Refreshes
  BY <1>2, <1>3 DEF Falls, Idle
<1>4. CASE calls[i].what \notin Refreshes
  <2>1. calls'[i].phase = "asked" /\ calls'[i].token = calls[i].token
    BY <1>2, <1>4 DEF Sent
  <2>2. /\ StepsLeft(calls[i], newest) = IF calls[i].token < newest THEN 7 ELSE 3
        /\ \/ StepsLeft(calls'[i], newest) = 2
           \/ StepsLeft(calls'[i], newest) = 6 /\ calls[i].token < newest
    BY <1>1, <2>1 DEF StepsLeft
  <2> QED  BY <1>1, <2>1, <2>2, FewerSteps DEF Phases
<1> QED  BY <1>3, <1>4

LEMMA DoneFalls == ASSUME SessionInv, NEW i \in Calls, Done(i) PROVE Falls(i)
  BY DEF Done, Falls, Idle, SessionInv, TypeOK

LEMMA CallStepFalls ==
  ASSUME SessionInv, NEW i \in Calls, CallStep(i), Ends(i) PROVE Falls(i)
<1>1. ~ Repeat(i)
  BY CallType DEF Repeat, Ends, CallOK, PhaseOK
<1>2. CASE ServeLogout(i) \/ ReceiveAnswer(i) \/ RefreshIgnored(i) \/ RefreshFailed(i)
  BY <1>2, DoneFalls DEF ServeLogout, ReceiveAnswer, RefreshIgnored, RefreshFailed, Done
<1> QED
  BY <1>1, <1>2, ServeFalls, ReceiveUnauthorizedFalls, ServeRefreshFalls, RefreshGrantedFalls
  DEF CallStep

\* The steps of a call leave the other calls as they are, and so do the tabs; a login ends calls.
LEMMA OthersStay ==
  ASSUME SessionInv, NEW i \in Calls, NEW j \in Calls, j # i, CallStep(i) PROVE Falls(j)
<1>1. newest' = newest /\ \E c : calls' = [calls EXCEPT ![i] = c]
  <2>1. CASE Serve(i)
    BY <2>1 DEF Serve, Answer
  <2>2. CASE ServeLogout(i) \/ ReceiveAnswer(i) \/ RefreshIgnored(i) \/ RefreshFailed(i)
    BY <2>2 DEF ServeLogout, ReceiveAnswer, RefreshIgnored, RefreshFailed, Done
  <2>3. CASE ReceiveUnauthorized(i) \/ Repeat(i)
    BY <2>3 DEF ReceiveUnauthorized, Repeat
  <2>4. CASE ServeRefresh(i)
    BY <2>4 DEF ServeRefresh
  <2>5. CASE RefreshGranted(i)
    BY <2>5 DEF RefreshGranted, Retry
  <2> QED  BY <2>1, <2>2, <2>3, <2>4, <2>5 DEF CallStep
<1> QED  BY <1>1 DEF Falls

LEMMA TabStepFalls ==
  ASSUME SessionInv, NEW j \in Calls, calls[j].phase # "idle", NEW t \in Tabs, TabStep(t) PROVE Falls(j)
<1>1. newest' = newest
  BY DEF TabStep, Draw, Enter, SignIn, SignOut, RefreshAlone, Dispatch
<1>2. CASE Draw(t) \/ Enter(t)
  BY <1>1, <1>2 DEF Draw, Enter, Falls
<1>3. CASE SignIn(t)
  BY <1>1, <1>3 DEF SignIn, Falls, Idle
<1>4. ASSUME NEW i \in Calls, NEW c, calls[i].phase = "idle", calls' = [calls EXCEPT ![i] = c] PROVE Falls(j)
  BY <1>1, <1>4 DEF Falls
<1> QED
  BY <1>2, <1>3, <1>4 DEF TabStep, SignOut, RefreshAlone, Dispatch

\* An expiry takes one from the expiries to come and has a thunk refused, and asked again, at most.
LEMMA ExpireFalls == ASSUME SessionInv, NEW j \in Calls, Expire PROVE Falls(j)
<1>1. newest \in Tokens /\ calls[j].phase \in Phases /\ calls[j].token \in Nat
  BY CallType, ExpiriesAreNat DEF SessionInv, TypeOK, CallRecord, Tokens, None
<1>2. newest' = newest + 1 /\ calls' = calls /\ newest + 1 \in Tokens
  BY <1>1, ExpiriesAreNat DEF Expire, Tokens
<1>3. StepsLeft(calls[j], newest + 1) <= StepsLeft(calls[j], newest) + 4
  <2>1. newest \in Nat
    BY <1>1 DEF Tokens
  <2>2. calls[j].token < newest => calls[j].token < newest + 1
    BY <1>1, <2>1
  <2> QED  BY <1>1, <2>2 DEF StepsLeft, Phases
<1>4. /\ StepsLeft(calls[j], newest) \in 0..7 /\ StepsLeft(calls[j], newest + 1) \in 0..7
      /\ 5 * (MaxExpiries + 1 - (newest + 1)) = 5 * (MaxExpiries + 1 - newest) - 5
      /\ 5 * (MaxExpiries + 1 - newest) \in Nat
  <2>1. 5 * (MaxExpiries + 1 - (newest + 1)) = 5 * (MaxExpiries + 1 - newest) - 5
    BY <1>1, ExpiriesAreNat DEF Tokens
  <2> QED  BY <1>1, <1>2, <2>1, CountIsNatural
<1>5. Left(calls[j], newest + 1) < Left(calls[j], newest)
  BY <1>3, <1>4 DEF Left
<1> QED  BY <1>2, <1>5 DEF Falls

\* However calls, tabs and logins interleave, each step of a call that does not repeat itself and each
\* expiry takes at least one from the natural number Left: a call takes 5 * MaxExpiries + 7 steps at
\* most (handleErrors, refreshToken of actions/common.js).
THEOREM CallsComeToAnEnd == Spec => CallsCountDown
<1>1. SessionInv /\ [Next]_vars =>
        [\A i \in Calls : calls[i].phase # "idle" /\ Ends(i) => Falls(i)]_vars
  <2> SUFFICES ASSUME SessionInv, [Next]_vars, vars' # vars, NEW j \in Calls, calls[j].phase # "idle", Ends(j)
               PROVE  Falls(j)
    OBVIOUS
  <2>1. ASSUME NEW i \in Calls, CallStep(i) PROVE Falls(j)
    BY <2>1, CallStepFalls, OthersStay
  <2>2. ASSUME NEW t \in Tabs, TabStep(t) PROVE Falls(j)
    BY <2>2, TabStepFalls
  <2>3. CASE Expire
    BY <2>3, ExpireFalls
  <2>4. CASE SessionEnds
    BY <2>4 DEF SessionEnds, Falls
  <2> QED  BY <2>1, <2>2, <2>3, <2>4 DEF Next
<1>2. (SessionInv /\ QuietInv) /\ [Next]_vars =>
        [\A i \in Calls : calls[i].phase # "idle" /\ Ends(i) =>
            \/ calls'[i].phase = "idle"
            \/ Left(calls'[i], newest') < Left(calls[i], newest)
            \/ UNCHANGED <<calls[i], newest>>]_vars
  BY <1>1 DEF Falls
<1> QED  BY <1>2, SessionInvariant, PTL DEF Spec, CallsCountDown

=============================================================================
