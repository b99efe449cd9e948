--------------------------- MODULE FacebookLogin ---------------------------
(***************************************************************************)
(* Signing in through the vendored Facebook SDK: loginWithFb of the Login  *)
(* screen, the LoginManager it makes for every tap, the one BridgeAPI that *)
(* shows the dialog and routes URLs, and the current access token, which   *)
(* is global and outlives the process.                                     *)
(*                                                                         *)
(* Every tap is an attempt with a manager of its own, so no manager knows  *)
(* of another, but they share the expected challenge in the keychain, the  *)
(* session and the pending opener of the bridge, and the token.  All       *)
(* handlers run on the main queue: one action is one handler, with the     *)
(* app's completion block in it.                                           *)
(*                                                                         *)
(* Abstractions.  A challenge is the number of its attempt.  Of the        *)
(* permissions only "email" is kept: the public profile is always granted, *)
(* so a token is never without permissions.  A token is stale after a day; *)
(* that it is refreshed at most once an hour is left open.  The requests   *)
(* the app makes with the token are Session's pending graph requests.      *)
(***************************************************************************)
EXTENDS Naturals, FiniteSets

CONSTANTS
    Users,              \* the people with a Facebook account
    MaxAttempts,        \* bound: taps on "log in with Facebook"
    MaxRelaunches,      \* bound: times the process dies
    None                \* no token, no user

Attempts == 1..MaxAttempts
Answers == [user : Users, email : BOOLEAN]

ASSUME ConstantsFit ==
    /\ MaxAttempts \in Nat
    /\ MaxRelaunches \in Nat
    /\ None \notin Users \cup Answers

VARIABLES
    phase,              \* phase[a]: where attempt a is
    answer,             \* answer[a]: who signed in in its dialog, and email granted
    result,             \* result[a]: what its completion block was told
    known,              \* known[a]: the current token its pending request knew
    refreshing,         \* refreshing[a]: the stale token that request renews too
    stray,              \* finished attempts whose manager still makes an exchange
    overlapped,         \* history: attempts that waited while another one did
    foreign,            \* history: attempts that waited while a login URL from
                        \* elsewhere was worked on
    session,            \* BridgeAPI: attempt of the authentication session, or 0
    visible,            \* the session's dialog covers the app
    pendingURLOpen,     \* BridgeAPI: attempt whose manager gets the next URL, or 0
    expectedChallenge,  \* keychain: attempt whose challenge is expected, or 0
    token,              \* the current access token, or None
    graph,              \* history: the graph requests of the app
    relaunches

waits == <<stray, overlapped, foreign>>
attempts == <<phase, answer, result, known, refreshing, waits>>
bridge == <<session, visible, pendingURLOpen>>
vars == <<attempts, bridge, expectedChallenge, token, graph, relaunches>>

Phases == {"unused", "dialog", "exchange", "validate", "done", "gone"}
Results == {"none", "email", "refused", "cancelled", "mismatch", "badChallenge", "error"}
Tokens == [user : Users, attempt : Attempts, stale : BOOLEAN]

TypeOK ==
    /\ phase \in [Attempts -> Phases]
    /\ answer \in [Attempts -> Answers \cup {None}]
    /\ result \in [Attempts -> Results]
    /\ known \in [Attempts -> Tokens \cup {None}]
    /\ refreshing \in [Attempts -> Tokens \cup {None}]
    /\ stray \subseteq Attempts
    /\ overlapped \subseteq Attempts /\ foreign \subseteq Attempts
    /\ session \in Attempts \cup {0}
    /\ visible \in BOOLEAN
    /\ pendingURLOpen \in Attempts \cup {0}
    /\ expectedChallenge \in Attempts \cup {0}
    /\ token \in Tokens \cup {None}
    /\ graph \subseteq [attempt : Attempts, user : Users]
    /\ relaunches \in 0..MaxRelaunches

Init ==
    /\ phase = [a \in Attempts |-> "unused"]
    /\ answer = [a \in Attempts |-> None]
    /\ result = [a \in Attempts |-> "none"]
    /\ known = [a \in Attempts |-> None]
    /\ refreshing = [a \in Attempts |-> None]
    /\ stray = {} /\ overlapped = {} /\ foreign = {}
    /\ session = 0
    /\ visible = FALSE
    /\ pendingURLOpen = 0
    /\ expectedChallenge = 0
    /\ token = None
    /\ graph = {}
    /\ relaunches = 0

-----------------------------------------------------------------------------
(* The end of an attempt, as the handlers below share it.                  *)

\* Attempts that will still present a challenge.
Waiting == {a \in Attempts : phase[a] \in {"dialog", "exchange"}}

\* invokeHandler: tells the app, once.
Finish(a, outcome) ==
    /\ phase' = [phase EXCEPT ![a] = "done"]
    /\ result' = [result EXCEPT ![a] = outcome]

NewToken(a, user) == [user |-> user, attempt |-> a, stale |-> FALSE]

\* A graph request carries the current token when it is made.
AskGraph(a, current) == graph' = graph \cup {[attempt |-> a, user |-> current.user]}

\* Mutant: the app stays logged in.
TellAppOnly(a, email, current, after) ==
    IF email
    THEN Finish(a, "email") /\ AskGraph(a, current) /\ after = current
    ELSE Finish(a, "refused") /\ UNCHANGED graph /\ after = current

\* The completion block of the app, given the token current at that time: with
\* an email it asks the graph and logs out at once, otherwise it does nothing.
\* `after' is the current token after it.
TellApp(a, email, current, after) ==
    IF email
    THEN Finish(a, "email") /\ AskGraph(a, current) /\ after = None
    ELSE Finish(a, "refused") /\ UNCHANGED graph /\ after = current

\* A request of this attempt starts; it takes a stale token along to renew it.
StartRequest(a, current) ==
    /\ known' = [known EXCEPT ![a] = current]
    /\ \E t \in {None, current} :
          /\ t # None => t.stale
          /\ refreshing' = [refreshing EXCEPT ![a] = t]

NoRequest == UNCHANGED <<known, refreshing>>

\* The URL shows the challenge that is expected: one from elsewhere (None), which
\* answers no dialog, never does.
ChallengePasses(a, who) == who # None /\ expectedChallenge = a

\* Mutant: a token that is there is kept and nothing is validated.
CompleteWithOldToken(a, who, after) ==
    IF ~ChallengePasses(a, who)
    THEN Finish(a, "badChallenge") /\ after = token /\ NoRequest /\ UNCHANGED graph
    ELSE /\ TellApp(a, who.email, IF token = None THEN NewToken(a, who.user) ELSE token,
                    after)
         /\ NoRequest

\* completeAuthentication with a token for `who'; `after' is the token after it.
CompleteAuthentication(a, who, after) ==
    IF ~ChallengePasses(a, who)
    THEN Finish(a, "badChallenge") /\ after = token /\ NoRequest /\ UNCHANGED graph
    ELSE IF token = None
    THEN TellApp(a, who.email, NewToken(a, who.user), after) /\ NoRequest
    ELSE IF who.email
    THEN /\ phase' = [phase EXCEPT ![a] = "validate"]
         /\ StartRequest(a, token)
         /\ after = token
         /\ UNCHANGED <<result, graph>>
    ELSE Finish(a, "refused") /\ after = token /\ NoRequest /\ UNCHANGED graph

\* Mutant: a renewal is not compared with the current token.
RefreshAnyway(a, current) ==
    IF refreshing[a] # None
    THEN token' = [user |-> IF current = None THEN None ELSE current.user,
                   attempt |-> refreshing[a].attempt, stale |-> FALSE]
    ELSE token' = current

\* A renewed token, one marked as expired, or none if it was found invalid.
Renewals(t) == {[t EXCEPT !.stale = FALSE], t, None}

\* The rest of a batch whose answer left `current' changes it only if it still
\* is the token that was to be renewed.
Refresh(a, current) ==
    IF refreshing[a] # None /\ refreshing[a] = current
    THEN token' \in Renewals(current)
    ELSE token' = current

-----------------------------------------------------------------------------
\* A session that is still there is canceled; its manager hears nothing.
OpenSession(a) ==
    /\ session' = a
    /\ visible' = TRUE
    /\ pendingURLOpen' = a

\* Mutant: a challenge that is still expected is kept.
LoginTappedKeepsChallenge(a) ==
    /\ ~visible
    /\ phase[a] = "unused"
    /\ \A b \in 1..(a - 1) : phase[b] # "unused"
    /\ phase' = [b \in Attempts |->
                    CASE b = a -> "dialog" [] b = session -> "gone" [] OTHER -> phase[b]]
    /\ overlapped' = IF Waiting = {} THEN overlapped ELSE overlapped \cup Waiting \cup {a}
    /\ foreign' = IF stray = {} THEN foreign ELSE foreign \cup {a}
    /\ OpenSession(a)
    /\ expectedChallenge' = IF expectedChallenge = 0 THEN a ELSE expectedChallenge
    /\ UNCHANGED <<answer, result, known, refreshing, stray, token, graph, relaunches>>

\* Every tap makes a manager, stores a new challenge and opens a session.
LoginTapped(a) ==
    /\ ~visible
    /\ phase[a] = "unused"
    /\ \A b \in 1..(a - 1) : phase[b] # "unused"
    /\ phase' = [b \in Attempts |->
                    CASE b = a -> "dialog" [] b = session -> "gone" [] OTHER -> phase[b]]
    /\ overlapped' = IF Waiting = {} THEN overlapped ELSE overlapped \cup Waiting \cup {a}
    /\ foreign' = IF stray = {} THEN foreign ELSE foreign \cup {a}
    /\ OpenSession(a)
    /\ expectedChallenge' = a
    /\ UNCHANGED <<answer, result, known, refreshing, stray, token, graph, relaunches>>

\* The screen is locked: the dialog may be gone afterwards, without a callback.
DialogVanishes ==
    /\ visible
    /\ visible' = FALSE
    /\ UNCHANGED <<attempts, session, pendingURLOpen, expectedChallenge, token,
                   graph, relaunches>>

\* The user closes the dialog: an implicit cancel, no URL.
DialogClosed ==
    /\ visible
    /\ visible' = FALSE
    /\ session' = 0
    /\ Finish(session, "cancelled")
    /\ UNCHANGED <<answer, known, refreshing, waits, pendingURLOpen,
                   expectedChallenge, token, graph, relaunches>>

\* The session ends with an URL: it goes to the pending opener.
URLReturned ==
    /\ visible
    /\ visible' = FALSE
    /\ session' = 0
    /\ pendingURLOpen' = 0

\* The URL says that the user declined, or names an error.
LoginDeclined ==
    /\ URLReturned
    /\ expectedChallenge' = 0
    /\ Finish(pendingURLOpen, "cancelled")
    /\ UNCHANGED <<answer, known, refreshing, waits, token, graph, relaunches>>

\* The URL carries a token.
TokenReturned ==
    /\ URLReturned
    /\ expectedChallenge' = 0
    /\ \E who \in Answers :
          /\ answer' = [answer EXCEPT ![pendingURLOpen] = who]
          /\ CompleteAuthentication(pendingURLOpen, who, token')
    /\ UNCHANGED <<waits, relaunches>>

\* The URL carries a nonce, which is exchanged for a token first, or a token
\* without a user, who is asked for first.
NonceReturned ==
    /\ URLReturned
    /\ phase' = [phase EXCEPT ![pendingURLOpen] = "exchange"]
    /\ \E who \in Answers : answer' = [answer EXCEPT ![pendingURLOpen] = who]
    /\ StartRequest(pendingURLOpen, token)
    /\ UNCHANGED <<result, waits, expectedChallenge, token, graph, relaunches>>

NonceExchanged(a) ==
    /\ phase[a] = "exchange"
    /\ expectedChallenge' = 0
    /\ \E after \in Tokens \cup {None} :
          /\ CompleteAuthentication(a, answer[a], after)
          /\ Refresh(a, after)
    /\ UNCHANGED <<answer, waits, bridge, relaunches>>

ExchangeFailed(a) ==
    /\ phase[a] = "exchange"
    /\ expectedChallenge' = 0
    /\ Finish(a, "error")
    /\ Refresh(a, token)
    /\ UNCHANGED <<answer, known, refreshing, waits, bridge, graph, relaunches>>

\* validateReauthentication: the new token must be of the user of the token that
\* was current when the request was made.
Validated(a) ==
    /\ phase[a] = "validate"
    /\ \E after \in Tokens \cup {None} :
          /\ IF known[a].user = answer[a].user
             THEN TellApp(a, TRUE, NewToken(a, answer[a].user), after)
             ELSE Finish(a, "mismatch") /\ after = token /\ UNCHANGED graph
          /\ Refresh(a, after)
    /\ UNCHANGED <<answer, known, refreshing, waits, bridge, expectedChallenge,
                   relaunches>>

\* Without an answer to the request no user matches.
ValidationFailed(a) ==
    /\ phase[a] = "validate"
    /\ Finish(a, "mismatch")
    /\ Refresh(a, token)
    /\ UNCHANGED <<answer, known, refreshing, waits, bridge, expectedChallenge,
                   graph, relaunches>>

\* Mutant: only the pending opener is forgotten.
OtherURLOpenedKeepsSession ==
    /\ pendingURLOpen' = 0
    /\ UNCHANGED <<attempts, session, visible, expectedChallenge, token, graph,
                   relaunches>>

\* Mutant: the session is canceled without a word.
OtherURLOpenedSilently ==
    /\ pendingURLOpen' = 0
    /\ session' = 0
    /\ visible' = FALSE
    /\ UNCHANGED <<attempts, expectedChallenge, token, graph, relaunches>>

\* Another app opens an URL of this app that is not for the login: a session that
\* is still there is canceled and its manager told so.
OtherURLOpened ==
    /\ pendingURLOpen' = 0
    /\ session' = 0
    /\ visible' = FALSE
    /\ IF session # 0 THEN Finish(session, "error") ELSE UNCHANGED <<phase, result>>
    /\ UNCHANGED <<answer, known, refreshing, waits, expectedChallenge, token,
                   graph, relaunches>>

\* Another app opens a login URL, which answers no dialog of this one: a session
\* still there is canceled without a word, as the pending manager gets the URL.
LoginURLOpened ==
    /\ pendingURLOpen # 0
    /\ session' = 0
    /\ visible' = FALSE
    /\ pendingURLOpen' = 0
    /\ foreign' = foreign \cup Waiting
    /\ UNCHANGED <<answer, overlapped, token, graph, relaunches>>

\* It carries a token, or says that somebody declined, or names an error.  A
\* manager that has told the app its end tells it nothing more.
ForeignAnswer ==
    /\ LoginURLOpened
    /\ expectedChallenge' = 0
    /\ IF phase[pendingURLOpen] = "dialog"
       THEN \E outcome \in {"badChallenge", "cancelled", "error"} :
               Finish(pendingURLOpen, outcome)
       ELSE UNCHANGED <<phase, result>>
    /\ UNCHANGED <<known, refreshing, stray>>

\* It carries a nonce, or a token without a user: there is a request first.
ForeignNonce ==
    /\ LoginURLOpened
    /\ StartRequest(pendingURLOpen, token)
    /\ IF phase[pendingURLOpen] = "dialog"
       THEN phase' = [phase EXCEPT ![pendingURLOpen] = "exchange"] /\ UNCHANGED stray
       ELSE stray' = stray \cup {pendingURLOpen} /\ UNCHANGED phase
    /\ UNCHANGED <<result, expectedChallenge>>

\* The request of a manager that had finished is answered or fails: the expected
\* challenge is cleared, whosever it is, and nobody is told.
StrayExchanged(a) ==
    /\ a \in stray
    /\ stray' = stray \ {a}
    /\ expectedChallenge' = 0
    /\ Refresh(a, token)
    /\ UNCHANGED <<phase, answer, result, known, refreshing, overlapped, foreign, bridge,
                   graph, relaunches>>

\* The refreshDate of the token is more than a day ago.
TokenAges ==
    /\ token # None
    /\ token' = [token EXCEPT !.stale = TRUE]
    /\ UNCHANGED <<attempts, bridge, expectedChallenge, graph, relaunches>>

\* The process dies with what was pending; the token is read from its cache, and
\* the challenge stays in the keychain.
Relaunch ==
    /\ relaunches < MaxRelaunches
    /\ relaunches' = relaunches + 1
    /\ phase' = [a \in Attempts |->
                    IF phase[a] \in {"unused", "done"} THEN phase[a] ELSE "gone"]
    /\ session' = 0
    /\ visible' = FALSE
    /\ pendingURLOpen' = 0
    /\ stray' = {}
    /\ UNCHANGED <<answer, result, known, refreshing, overlapped, foreign,
                   expectedChallenge, token, graph>>

Next ==
    \/ \E a \in Attempts :
          LoginTapped(a) \/ NonceExchanged(a) \/ ExchangeFailed(a)
             \/ Validated(a) \/ ValidationFailed(a) \/ StrayExchanged(a)
    \/ DialogVanishes \/ DialogClosed \/ LoginDeclined \/ TokenReturned \/ NonceReturned
    \/ OtherURLOpened \/ ForeignAnswer \/ ForeignNonce \/ TokenAges \/ Relaunch

(* A user ends a dialog that is shown, and every request is answered or    *)
(* fails, at the latest by its timeout.                                    *)
Spec ==
    /\ Init
    /\ [][Next]_vars
    /\ WF_vars(DialogClosed \/ LoginDeclined \/ TokenReturned \/ NonceReturned)
    /\ \A a \in Attempts :
          WF_vars(NonceExchanged(a) \/ ExchangeFailed(a) \/ Validated(a)
                     \/ ValidationFailed(a) \/ StrayExchanged(a))

-----------------------------------------------------------------------------
(* Properties.                                                             *)

\* The app asks the graph for whoever is current, not for the result it was
\* given: still it only asks for the person who signed in in the dialog of this
\* very tap, and who granted the email.
GraphAsksForTheAnswer ==
    \A g \in graph : answer[g.attempt] = [user |-> g.user, email |-> TRUE]

\* A session of Facebook outlives its login only if the email was refused: the
\* app logs out of every other, and no pending renewal brings one back.
OnlyRefusalsStay == token # None => result[token.attempt] = "refused"

\* Whoever answers the dialog, the URL reaches the manager that opened it.
URLReachesItsManager ==
    session # 0 => pendingURLOpen = session /\ phase[session] = "dialog"

\* The managers share one expected challenge; a login is refused for it only if
\* two attempts waited at the same time, or if it waited while a login URL from
\* elsewhere, its own or one left to a manager that had finished, was worked on.
BadChallengeNeedsInterference ==
    \A a \in Attempts : result[a] = "badChallenge" => a \in overlapped \cup foreign

\* Every login whose dialog did not vanish tells the app how it ended, unless
\* the process dies.
EveryLoginEnds ==
    \A a \in Attempts :
        phase[a] \in {"dialog", "exchange", "validate"} ~>
            phase[a] \in {"done", "gone"} \/ (session = a /\ ~visible)

=============================================================================
