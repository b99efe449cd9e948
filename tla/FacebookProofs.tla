---------------------------- MODULE FacebookProofs ----------------------------
(***************************************************************************)
(* The safety properties of FacebookLogin for any number of taps, people   *)
(* and relaunches.                                                         *)
(*                                                                         *)
(* Managers that know nothing of each other stay apart because an attempt  *)
(* is told its end once (the token and the graph requests belong to        *)
(* attempts that are done), because the bridge keeps one session and one   *)
(* opener, of the same attempt, and because a challenge can be lost only   *)
(* to an attempt that waited at the same time, which both then remember,   *)
(* or to an URL from elsewhere, which every waiting attempt remembers.     *)
(***************************************************************************)
EXTENDS FacebookLogin, TLAPS

BridgeAgrees ==
    /\ URLReachesItsManager
    /\ visible => session # 0
    /\ pendingURLOpen # 0 => phase[pendingURLOpen] \in {"dialog", "done"}

AnswersKnown ==
    \A a \in Attempts :
        /\ phase[a] = "exchange" => answer[a] \in Answers \/ a \in foreign
        /\ phase[a] = "validate" =>
              answer[a] \in Answers /\ answer[a].email /\ known[a] \in Tokens

GraphIsDone ==
    \A g \in graph :
        /\ phase[g.attempt] = "done"
        /\ answer[g.attempt] \in Answers
        /\ answer[g.attempt].user = g.user /\ answer[g.attempt].email

TokenIsDone ==
    token # None => phase[token.attempt] = "done" /\ result[token.attempt] = "refused"

ChallengesShared ==
    /\ \A a \in Waiting : a \in overlapped \cup foreign \/ expectedChallenge = a
    /\ \A a, b \in Waiting : a # b => a \in overlapped
    /\ stray # {} => Waiting \subseteq foreign

IInv ==
    /\ BridgeAgrees /\ AnswersKnown /\ GraphIsDone /\ TokenIsDone
    /\ ChallengesShared /\ BadChallengeNeedsInterference

-----------------------------------------------------------------------------
(* The moves of one attempt.                                               *)

\* What a handler of attempt a may do to the attempt and to what is shared.
Moves(a) ==
    /\ phase[a] \in {"dialog", "exchange", "validate"}
    /\ phase' \in [Attempts -> Phases] /\ result' \in [Attempts -> Results]
    /\ answer' \in [Attempts -> Answers \cup {None}]
    /\ known' \in [Attempts -> Tokens \cup {None}]
    /\ refreshing' \in [Attempts -> Tokens \cup {None}]
    /\ \A b \in Attempts \ {a} : /\ phase'[b] = phase[b] /\ result'[b] = result[b]
                                 /\ answer'[b] = answer[b] /\ known'[b] = known[b]
    /\ phase'[a] \in {"exchange", "validate", "done"}
    /\ phase'[a] = "exchange" =>
          phase[a] = "dialog" /\ (answer'[a] \in Answers \/ a \in foreign')
    /\ phase'[a] = "validate" =>
          answer'[a] \in Answers /\ answer'[a].email /\ known'[a] \in Tokens
    /\ result'[a] = "badChallenge" => a \in overlapped \cup foreign'
    /\ \/ UNCHANGED graph
       \/ /\ graph' = graph \cup {[attempt |-> a, user |-> answer'[a].user]}
          /\ phase'[a] = "done" /\ answer'[a] \in Answers /\ answer'[a].email
    /\ token' \in Tokens \cup {None}
    /\ token' # None =>
          \/ token # None /\ token'.attempt = token.attempt
          \/ token'.attempt = a /\ phase'[a] = "done" /\ result'[a] = "refused"
    /\ \/ UNCHANGED expectedChallenge
       \/ /\ expectedChallenge' = 0 /\ phase'[a] # "exchange"
          /\ phase[a] \in {"dialog", "exchange"}
    /\ \/ UNCHANGED <<session, visible, pendingURLOpen>> /\ phase[a] # "dialog"
       \/ /\ session' = 0 /\ ~visible'
          /\ \/ pendingURLOpen' = 0
             \/ pendingURLOpen' = pendingURLOpen /\ phase'[a] = "done"
    /\ visible' \in BOOLEAN
    /\ foreign \subseteq foreign' /\ foreign' \subseteq Attempts
    /\ UNCHANGED <<stray, overlapped, relaunches>>

LEMMA MovesTyped ==
    ASSUME TypeOK, NEW a \in Attempts, Moves(a)
    PROVE  TypeOK'
<1>1. graph' \subseteq [attempt : Attempts, user : Users]
  BY DEF TypeOK, Moves, Answers
<1>2. /\ expectedChallenge' \in Attempts \cup {0} /\ session' \in Attempts \cup {0}
      /\ pendingURLOpen' \in Attempts \cup {0} /\ visible' \in BOOLEAN
  BY DEF TypeOK, Moves
<1> QED BY <1>1, <1>2 DEF TypeOK, Moves

LEMMA TokenFacts ==
    ASSUME TypeOK
    PROVE  /\ token # None => token \in Tokens /\ token.attempt \in Attempts
           /\ \A g \in graph : g.attempt \in Attempts /\ g.user \in Users
BY DEF TypeOK, Tokens

LEMMA MovesKeep ==
    ASSUME TypeOK, IInv, NEW a \in Attempts, Moves(a)
    PROVE  IInv'
<1>0. 0 \notin Attempts
  BY DEF Attempts
<1>1. BridgeAgrees'
  <2>1. CASE UNCHANGED <<session, visible, pendingURLOpen>> /\ phase[a] # "dialog"
    BY <2>1 DEF TypeOK, IInv, BridgeAgrees, URLReachesItsManager, Moves
  <2>2. CASE session' = 0 /\ ~visible' /\ pendingURLOpen' = 0
    BY <2>2 DEF BridgeAgrees, URLReachesItsManager
  <2>3. CASE /\ session' = 0 /\ ~visible'
             /\ pendingURLOpen' = pendingURLOpen /\ phase'[a] = "done"
    BY <2>3 DEF TypeOK, IInv, BridgeAgrees, URLReachesItsManager, Moves
  <2> QED BY <2>1, <2>2, <2>3 DEF Moves
<1>2. AnswersKnown'
  BY DEF IInv, AnswersKnown, Moves
<1>3. GraphIsDone'
  <2>1. ASSUME NEW g \in graph
        PROVE  /\ phase'[g.attempt] = "done" /\ answer'[g.attempt] \in Answers
               /\ answer'[g.attempt].user = g.user /\ answer'[g.attempt].email
    <3>1. g.attempt \in Attempts \ {a}
      BY TokenFacts DEF IInv, GraphIsDone, Moves
    <3> QED BY <3>1 DEF IInv, GraphIsDone, Moves
  <2>2. ASSUME NEW g, g = [attempt |-> a, user |-> answer'[a].user],
               phase'[a] = "done", answer'[a] \in Answers, answer'[a].email
        PROVE  /\ phase'[g.attempt] = "done" /\ answer'[g.attempt] \in Answers
               /\ answer'[g.attempt].user = g.user /\ answer'[g.attempt].email
    BY <2>2
  <2> QED BY <2>1, <2>2 DEF GraphIsDone, Moves
<1>4. TokenIsDone'
  <2>1. CASE token' # None /\ token # None /\ token'.attempt = token.attempt
    <3>1. token.attempt \in Attempts \ {a}
      BY <2>1, TokenFacts DEF IInv, TokenIsDone, Moves
    <3> QED BY <2>1, <3>1 DEF IInv, TokenIsDone, Moves
  <2>2. CASE token' # None /\ token'.attempt = a /\ phase'[a] = "done"
                /\ result'[a] = "refused"
    BY <2>2 DEF TokenIsDone
  <2> QED BY <2>1, <2>2 DEF TokenIsDone, Moves
<1>5. ChallengesShared'
  <2>1. \A b \in Waiting' : b \in Waiting
    BY DEF Waiting, Moves
  <2>2. ASSUME NEW b \in Waiting'
        PROVE  b \in overlapped' \cup foreign' \/ expectedChallenge' = b
    <3>1. CASE UNCHANGED expectedChallenge
      BY <2>1, <3>1 DEF IInv, ChallengesShared, Moves
    <3>2. CASE phase'[a] # "exchange" /\ phase[a] \in {"dialog", "exchange"}
      <4>1. b # a /\ a \in Waiting
        BY <3>2 DEF Waiting, Moves
      <4> QED BY <2>1, <4>1 DEF IInv, ChallengesShared, Moves
    <3> QED BY <3>1, <3>2 DEF Moves
  <2> QED BY <2>1, <2>2 DEF IInv, ChallengesShared, Moves
<1>6. BadChallengeNeedsInterference'
  BY DEF IInv, BadChallengeNeedsInterference, Moves
<1> QED BY <1>1, <1>2, <1>3, <1>4, <1>5, <1>6 DEF IInv

-----------------------------------------------------------------------------
(* What the shared parts of the handlers do.                               *)

\* The end of an attempt, as far as the app, its requests and the token go.
Ends(a, who, after) ==
    /\ phase' \in [Attempts -> Phases] /\ result' \in [Attempts -> Results]
    /\ known' \in [Attempts -> Tokens \cup {None}]
    /\ refreshing' \in [Attempts -> Tokens \cup {None}]
    /\ \A b \in Attempts \ {a} : /\ phase'[b] = phase[b] /\ result'[b] = result[b]
                                 /\ known'[b] = known[b]
    /\ phase'[a] \in {"validate", "done"}
    /\ phase'[a] = "validate" => who \in Answers /\ who.email /\ known'[a] \in Tokens
    /\ result'[a] = "badChallenge" => a \in overlapped \cup foreign
    /\ \/ UNCHANGED graph
       \/ /\ graph' = graph \cup {[attempt |-> a, user |-> who.user]}
          /\ phase'[a] = "done" /\ who \in Answers /\ who.email
    /\ after \in Tokens \cup {None}
    /\ after # None => \/ after = token
                       \/ /\ after.attempt = a /\ phase'[a] = "done"
                          /\ result'[a] = "refused"

LEMMA FinishFacts ==
    ASSUME TypeOK, NEW a \in Attempts, NEW outcome \in Results, Finish(a, outcome)
    PROVE  /\ phase' \in [Attempts -> Phases] /\ result' \in [Attempts -> Results]
           /\ phase'[a] = "done" /\ result'[a] = outcome
           /\ \A b \in Attempts \ {a} : phase'[b] = phase[b] /\ result'[b] = result[b]
BY DEF TypeOK, Finish, Phases

LEMMA NewTokenFacts ==
    ASSUME NEW a \in Attempts, NEW user \in Users
    PROVE  /\ NewToken(a, user) \in Tokens /\ NewToken(a, user).attempt = a
           /\ NewToken(a, user).user = user
BY DEF NewToken, Tokens

LEMMA RequestFacts ==
    ASSUME TypeOK, NEW a \in Attempts, NEW current \in Tokens \cup {None},
           StartRequest(a, current)
    PROVE  /\ known' \in [Attempts -> Tokens \cup {None}]
           /\ refreshing' \in [Attempts -> Tokens \cup {None}]
           /\ known'[a] = current
           /\ \A b \in Attempts \ {a} : known'[b] = known[b]
BY DEF TypeOK, StartRequest

\* The app is told of a new token of the attempt.
LEMMA TellEnds ==
    ASSUME TypeOK, NEW a \in Attempts, NEW who \in Answers, NEW after,
           TellApp(a, who.email, NewToken(a, who.user), after),
           UNCHANGED <<known, refreshing>>
    PROVE  Ends(a, who, after)
<1>1. /\ NewToken(a, who.user) \in Tokens /\ NewToken(a, who.user).attempt = a
      /\ NewToken(a, who.user).user = who.user
  BY NewTokenFacts DEF Answers
<1>2. /\ known' \in [Attempts -> Tokens \cup {None}]
      /\ refreshing' \in [Attempts -> Tokens \cup {None}]
  BY DEF TypeOK
<1>3. CASE who.email
  <2>1. Finish(a, "email") /\ AskGraph(a, NewToken(a, who.user)) /\ after = None
    BY <1>3 DEF TellApp
  <2>2. graph' = graph \cup {[attempt |-> a, user |-> who.user]}
    BY <1>1, <2>1 DEF AskGraph
  <2> QED BY <1>2, <1>3, <2>1, <2>2, FinishFacts DEF Ends, Results
<1>4. CASE ~who.email
  <2>1. Finish(a, "refused") /\ UNCHANGED graph /\ after = NewToken(a, who.user)
    BY <1>4 DEF TellApp
  <2> QED BY <1>1, <1>2, <2>1, FinishFacts DEF Ends, Results
<1> QED BY <1>3, <1>4

LEMMA CompleteEnds ==
    ASSUME TypeOK, IInv, NEW a \in Attempts, phase[a] \in {"dialog", "exchange"},
           NEW who, IF who = None THEN a \in foreign ELSE who \in Answers,
           NEW after, CompleteAuthentication(a, who, after)
    PROVE  Ends(a, who, after)
<1>0. token \in Tokens \cup {None} /\ a \in Waiting
  BY DEF TypeOK, Waiting
<1>1. ChallengePasses(a, who) => who \in Answers
  BY DEF ChallengePasses
<1>2. CASE ~ChallengePasses(a, who)
  <2>1. /\ Finish(a, "badChallenge") /\ after = token
        /\ UNCHANGED <<known, refreshing, graph>>
    BY <1>2 DEF CompleteAuthentication, NoRequest
  <2>2. a \in overlapped \cup foreign
    <3>1. CASE who = None
      BY <3>1
    <3>2. CASE who # None
      BY <1>0, <1>2, <3>2 DEF IInv, ChallengesShared, ChallengePasses
    <3> QED BY <3>1, <3>2
  <2> QED BY <1>0, <2>1, <2>2, FinishFacts DEF Ends, Results, TypeOK
<1>3. CASE ChallengePasses(a, who) /\ token = None
  <2>1. /\ TellApp(a, who.email, NewToken(a, who.user), after)
        /\ UNCHANGED <<known, refreshing>>
    BY <1>3 DEF CompleteAuthentication, NoRequest
  <2> QED BY <1>1, <1>3, <2>1, TellEnds
<1>4. CASE ChallengePasses(a, who) /\ token # None /\ who.email
  <2>1. /\ phase' = [phase EXCEPT ![a] = "validate"]
        /\ StartRequest(a, token) /\ after = token /\ UNCHANGED <<result, graph>>
    BY <1>4 DEF CompleteAuthentication
  <2>2. phase' \in [Attempts -> Phases] /\ phase'[a] = "validate"
        /\ \A b \in Attempts \ {a} : phase'[b] = phase[b]
    BY <2>1 DEF TypeOK, Phases
  <2>3. result \in [Attempts -> Results]
    BY DEF TypeOK
  <2>4. result[a] = "badChallenge" => a \in overlapped \cup foreign
    BY DEF IInv, BadChallengeNeedsInterference
  <2> QED BY <1>0, <1>4, <1>1, <2>1, <2>2, <2>3, <2>4, RequestFacts DEF Ends
<1>5. CASE ChallengePasses(a, who) /\ token # None /\ ~who.email
  <2>1. /\ Finish(a, "refused") /\ after = token
        /\ UNCHANGED <<known, refreshing, graph>>
    BY <1>5 DEF CompleteAuthentication, NoRequest
  <2> QED BY <1>0, <2>1, FinishFacts DEF Ends, Results, TypeOK
<1> QED BY <1>2, <1>3, <1>4, <1>5

\* A renewal keeps the attempt of the token.
LEMMA RefreshFacts ==
    ASSUME TypeOK, NEW a \in Attempts, NEW current \in Tokens \cup {None},
           Refresh(a, current)
    PROVE  /\ token' \in Tokens \cup {None}
           /\ token' # None => current # None /\ token'.attempt = current.attempt
<1>1. CASE current \in Tokens
  <2>1. \A t \in Renewals(current) :
            t = None \/ (t \in Tokens /\ t.attempt = current.attempt)
    BY <1>1 DEF Renewals, Tokens
  <2>2. \/ token' \in Renewals(current) /\ current # None
        \/ token' = current
    BY DEF Refresh
  <2> QED BY <1>1, <2>1, <2>2
<1>2. CASE current = None
  BY <1>2 DEF Refresh
<1> QED BY <1>1, <1>2

\* An attempt that ends, with the renewal its request brought along.
LEMMA EndsMoves ==
    ASSUME TypeOK, IInv, NEW a \in Attempts,
           phase[a] \in {"exchange", "validate"},
           NEW after, Ends(a, answer[a], after), Refresh(a, after),
           \/ UNCHANGED expectedChallenge
           \/ expectedChallenge' = 0 /\ phase[a] = "exchange",
           UNCHANGED <<answer, waits, bridge, relaunches>>
    PROVE  Moves(a)
<1>1. /\ answer \in [Attempts -> Answers \cup {None}]
      /\ foreign \subseteq Attempts /\ UNCHANGED <<stray, overlapped, foreign>>
  BY DEF TypeOK, waits
<1>2. /\ token' \in Tokens \cup {None}
      /\ token' # None => after # None /\ token'.attempt = after.attempt
  BY RefreshFacts DEF Ends
<1>3. token' # None =>
          \/ token # None /\ token'.attempt = token.attempt
          \/ token'.attempt = a /\ phase'[a] = "done" /\ result'[a] = "refused"
  BY <1>2 DEF Ends
<1>4. visible' \in BOOLEAN /\ UNCHANGED <<session, visible, pendingURLOpen>>
  BY DEF TypeOK, bridge
<1> QED BY <1>1, <1>2, <1>3, <1>4 DEF Ends, Moves

-----------------------------------------------------------------------------
(* The handlers.                                                           *)

LEMMA DialogMoves ==
    ASSUME TypeOK, IInv,
           DialogClosed \/ LoginDeclined \/ TokenReturned \/ NonceReturned
    PROVE  Moves(session) /\ session \in Attempts
<1>0. /\ session \in Attempts /\ pendingURLOpen = session /\ phase[session] = "dialog"
      /\ token \in Tokens \cup {None} /\ answer \in [Attempts -> Answers \cup {None}]
      /\ known \in [Attempts -> Tokens \cup {None}]
      /\ refreshing \in [Attempts -> Tokens \cup {None}]
      /\ result[session] = "badChallenge" => session \in overlapped \cup foreign
      /\ foreign \subseteq Attempts
  BY DEF TypeOK, IInv, BridgeAgrees, URLReachesItsManager, BadChallengeNeedsInterference,
         DialogClosed, LoginDeclined, TokenReturned, NonceReturned, URLReturned
<1>1. CASE DialogClosed \/ LoginDeclined
  <2>1. /\ Finish(session, "cancelled") /\ session' = 0 /\ visible' = FALSE
        /\ pendingURLOpen' \in {pendingURLOpen, 0}
        /\ expectedChallenge' \in {expectedChallenge, 0}
        /\ UNCHANGED <<answer, known, refreshing, stray, overlapped, foreign, token, graph,
                       relaunches>>
    BY <1>0, <1>1 DEF DialogClosed, LoginDeclined, URLReturned, waits
  <2> QED BY <1>0, <2>1, FinishFacts DEF Moves, Results
<1>2. CASE TokenReturned
  <2>1. PICK who \in Answers :
            /\ answer' = [answer EXCEPT ![session] = who]
            /\ CompleteAuthentication(session, who, token')
    BY <1>0, <1>2 DEF TokenReturned
  <2>2. Ends(session, who, token')
    BY <1>0, <2>1, ConstantsFit, CompleteEnds
  <2>3. /\ session' = 0 /\ visible' = FALSE /\ pendingURLOpen' = 0
        /\ expectedChallenge' = 0 /\ UNCHANGED <<stray, overlapped, foreign, relaunches>>
    BY <1>2 DEF TokenReturned, URLReturned, waits
  <2>4. /\ answer' \in [Attempts -> Answers \cup {None}] /\ answer'[session] = who
        /\ \A b \in Attempts \ {session} : answer'[b] = answer[b]
    BY <1>0, <2>1
  <2> QED BY <1>0, <2>2, <2>3, <2>4 DEF Ends, Moves
<1>3. CASE NonceReturned
  <2>1. PICK who \in Answers : answer' = [answer EXCEPT ![session] = who]
    BY <1>0, <1>3 DEF NonceReturned
  <2>2. /\ phase' = [phase EXCEPT ![session] = "exchange"]
        /\ StartRequest(session, token)
        /\ session' = 0 /\ visible' = FALSE /\ pendingURLOpen' = 0
        /\ UNCHANGED <<result, stray, overlapped, foreign, expectedChallenge, token, graph,
                       relaunches>>
    BY <1>0, <1>3 DEF NonceReturned, URLReturned, waits
  <2>3. /\ answer' \in [Attempts -> Answers \cup {None}] /\ answer'[session] = who
        /\ \A b \in Attempts \ {session} : answer'[b] = answer[b]
    BY <1>0, <2>1
  <2>4. /\ phase' \in [Attempts -> Phases] /\ phase'[session] = "exchange"
        /\ \A b \in Attempts \ {session} : phase'[b] = phase[b]
        /\ result \in [Attempts -> Results]
    BY <1>0, <2>2 DEF TypeOK, Phases
  <2>5. /\ known' \in [Attempts -> Tokens \cup {None}]
        /\ refreshing' \in [Attempts -> Tokens \cup {None}]
        /\ \A b \in Attempts \ {session} : known'[b] = known[b]
    BY <1>0, <2>2, RequestFacts
  <2> QED BY <1>0, <2>1, <2>2, <2>3, <2>4, <2>5 DEF Moves
<1> QED BY <1>0, <1>1, <1>2, <1>3

LEMMA RequestMoves ==
    ASSUME TypeOK, IInv, NEW a \in Attempts,
           \/ NonceExchanged(a) \/ ExchangeFailed(a) \/ Validated(a)
           \/ ValidationFailed(a)
    PROVE  Moves(a)
<1>0. /\ phase[a] \in {"exchange", "validate"}
      /\ \/ answer[a] \in Answers
         \/ answer[a] = None /\ phase[a] = "exchange" /\ a \in foreign
      /\ token \in Tokens \cup {None}
      /\ known \in [Attempts -> Tokens \cup {None}]
      /\ refreshing \in [Attempts -> Tokens \cup {None}]
  BY DEF TypeOK, IInv, AnswersKnown, NonceExchanged, ExchangeFailed, Validated,
         ValidationFailed
<1>1. CASE NonceExchanged(a)
  <2>1. PICK after \in Tokens \cup {None} :
            CompleteAuthentication(a, answer[a], after) /\ Refresh(a, after)
    BY <1>1 DEF NonceExchanged
  <2>2. Ends(a, answer[a], after)
    BY <1>0, <1>1, <2>1, ConstantsFit, CompleteEnds DEF NonceExchanged
  <2> QED BY <1>0, <1>1, <2>1, <2>2, EndsMoves DEF NonceExchanged
<1>2. ASSUME NEW outcome \in {"error", "mismatch"}, Finish(a, outcome),
             UNCHANGED <<known, refreshing, graph>>
      PROVE  Ends(a, answer[a], token)
  BY <1>0, <1>2, FinishFacts DEF Ends, Results
<1>3. CASE ExchangeFailed(a)
  <2>1. Ends(a, answer[a], token)
    BY <1>2, <1>3 DEF ExchangeFailed
  <2> QED BY <1>0, <1>3, <2>1, EndsMoves DEF ExchangeFailed
<1>4. CASE Validated(a)
  <2>1. PICK after \in Tokens \cup {None} :
            /\ IF known[a].user = answer[a].user
               THEN TellApp(a, TRUE, NewToken(a, answer[a].user), after)
               ELSE Finish(a, "mismatch") /\ after = token /\ UNCHANGED graph
            /\ Refresh(a, after)
    BY <1>4 DEF Validated
  <2>2. answer[a] \in Answers /\ answer[a].email = TRUE
    BY <1>0, <1>4 DEF Validated, IInv, AnswersKnown, Answers
  <2>3. Ends(a, answer[a], after)
    <3>1. CASE TellApp(a, TRUE, NewToken(a, answer[a].user), after)
      BY <1>0, <1>4, <2>2, <3>1, TellEnds DEF Validated
    <3>2. CASE Finish(a, "mismatch") /\ after = token /\ UNCHANGED graph
      BY <1>2, <1>4, <3>2 DEF Validated
    <3> QED BY <2>1, <3>1, <3>2
  <2> QED BY <1>0, <1>4, <2>1, <2>3, EndsMoves DEF Validated
<1>5. CASE ValidationFailed(a)
  <2>1. Ends(a, answer[a], token)
    BY <1>2, <1>5 DEF ValidationFailed
  <2> QED BY <1>0, <1>5, <2>1, EndsMoves DEF ValidationFailed
<1> QED BY <1>1, <1>3, <1>4, <1>5

LEMMA CanceledMoves ==
    ASSUME TypeOK, IInv, OtherURLOpened, session # 0
    PROVE  Moves(session) /\ session \in Attempts
<1>1. /\ session \in Attempts /\ phase[session] = "dialog"
      /\ foreign \subseteq Attempts
      /\ token \in Tokens \cup {None} /\ answer \in [Attempts -> Answers \cup {None}]
      /\ known \in [Attempts -> Tokens \cup {None}]
      /\ refreshing \in [Attempts -> Tokens \cup {None}]
  BY DEF TypeOK, IInv, BridgeAgrees, URLReachesItsManager
<1>2. Finish(session, "error")
  BY DEF OtherURLOpened
<1> QED BY <1>1, <1>2, FinishFacts DEF OtherURLOpened, Moves, Results, waits

\* A login URL from elsewhere ends the attempt whose dialog is pending, or starts
\* its exchange.
LEMMA ForeignMoves ==
    ASSUME TypeOK, IInv, NEW a \in Attempts, a = pendingURLOpen, phase[a] = "dialog",
           ForeignAnswer \/ ForeignNonce
    PROVE  Moves(a)
<1>1. /\ a \in Waiting /\ Waiting \subseteq Attempts /\ foreign \subseteq Attempts
      /\ phase \in [Attempts -> Phases] /\ result \in [Attempts -> Results]
      /\ token \in Tokens \cup {None} /\ answer \in [Attempts -> Answers \cup {None}]
      /\ known \in [Attempts -> Tokens \cup {None}]
      /\ refreshing \in [Attempts -> Tokens \cup {None}]
  BY DEF TypeOK, Waiting
<1>2. /\ session' = 0 /\ visible' = FALSE /\ pendingURLOpen' = 0
      /\ foreign' = foreign \cup Waiting
      /\ UNCHANGED <<answer, overlapped, token, graph, relaunches>>
  BY DEF ForeignAnswer, ForeignNonce, LoginURLOpened
<1>3. /\ a \in foreign' /\ foreign \subseteq foreign' /\ foreign' \subseteq Attempts
  BY <1>1, <1>2
<1>4. CASE ForeignAnswer
  <2>1. PICK outcome \in {"badChallenge", "cancelled", "error"} : Finish(a, outcome)
    BY <1>4 DEF ForeignAnswer
  <2>2. expectedChallenge' = 0 /\ UNCHANGED <<known, refreshing, stray>>
    BY <1>4 DEF ForeignAnswer
  <2>3. /\ phase' \in [Attempts -> Phases] /\ result' \in [Attempts -> Results]
        /\ phase'[a] = "done"
        /\ \A b \in Attempts \ {a} : phase'[b] = phase[b] /\ result'[b] = result[b]
    BY <2>1, FinishFacts DEF Results
  <2> QED BY <1>1, <1>2, <1>3, <2>2, <2>3 DEF Moves
<1>5. CASE ForeignNonce
  <2>1. /\ phase' = [phase EXCEPT ![a] = "exchange"] /\ StartRequest(a, token)
        /\ UNCHANGED <<result, stray, expectedChallenge>>
    BY <1>5 DEF ForeignNonce
  <2>2. /\ phase' \in [Attempts -> Phases] /\ phase'[a] = "exchange"
        /\ \A b \in Attempts \ {a} : phase'[b] = phase[b]
    BY <1>1, <2>1 DEF Phases
  <2>3. /\ known' \in [Attempts -> Tokens \cup {None}]
        /\ refreshing' \in [Attempts -> Tokens \cup {None}]
        /\ \A b \in Attempts \ {a} : known'[b] = known[b]
    BY <1>1, <2>1, RequestFacts
  <2> QED BY <1>1, <1>2, <1>3, <2>1, <2>2, <2>3 DEF Moves
<1> QED BY <1>4, <1>5

\* Steps of a manager that had finished, or of its URL: they may clear the expected
\* challenge of attempts that all remember the URL from elsewhere.
LEMMA StrayKeeps ==
    ASSUME TypeOK, IInv, UNCHANGED <<phase, answer, result, overlapped, graph, relaunches>>,
           known' \in [Attempts -> Tokens \cup {None}],
           refreshing' \in [Attempts -> Tokens \cup {None}],
           \A a \in Attempts : phase[a] = "validate" => known'[a] = known[a],
           stray' \subseteq Attempts,
           foreign \subseteq foreign', foreign' \subseteq Attempts, Waiting \subseteq foreign',
           expectedChallenge' \in {expectedChallenge, 0},
           token' \in Tokens \cup {None},
           token' # None => token # None /\ token'.attempt = token.attempt,
           \/ UNCHANGED bridge
           \/ session' = 0 /\ visible' = FALSE /\ pendingURLOpen' = 0
    PROVE  TypeOK' /\ IInv'
<1>1. TypeOK'
  BY DEF TypeOK, bridge
<1>2. BridgeAgrees'
  BY DEF IInv, BridgeAgrees, URLReachesItsManager, bridge
<1>3. AnswersKnown'
  BY DEF IInv, AnswersKnown
<1>4. GraphIsDone' /\ TokenIsDone'
  BY DEF IInv, GraphIsDone, TokenIsDone
<1>5. ChallengesShared' /\ BadChallengeNeedsInterference'
  BY DEF IInv, ChallengesShared, BadChallengeNeedsInterference, Waiting
<1> QED BY <1>1, <1>2, <1>3, <1>4, <1>5 DEF IInv

\* A login URL from elsewhere that finds a manager which has told its end.
LEMMA ForeignStray ==
    ASSUME TypeOK, IInv, NEW a \in Attempts, a = pendingURLOpen, phase[a] = "done",
           ForeignAnswer \/ ForeignNonce
    PROVE  TypeOK' /\ IInv'
<1>1. /\ Waiting \subseteq Attempts /\ foreign \subseteq Attempts /\ stray \subseteq Attempts
      /\ token \in Tokens \cup {None}
      /\ known \in [Attempts -> Tokens \cup {None}]
      /\ refreshing \in [Attempts -> Tokens \cup {None}]
  BY DEF TypeOK, Waiting
<1>2. /\ session' = 0 /\ visible' = FALSE /\ pendingURLOpen' = 0
      /\ foreign' = foreign \cup Waiting
      /\ UNCHANGED <<answer, overlapped, token, graph, relaunches>>
  BY DEF ForeignAnswer, ForeignNonce, LoginURLOpened
<1>3. CASE ForeignAnswer
  <2>1. expectedChallenge' = 0 /\ UNCHANGED <<phase, result, known, refreshing, stray>>
    BY <1>3 DEF ForeignAnswer
  <2> QED BY <1>1, <1>2, <2>1, StrayKeeps
<1>4. CASE ForeignNonce
  <2>1. /\ StartRequest(a, token) /\ stray' = stray \cup {a}
        /\ UNCHANGED <<phase, result, expectedChallenge>>
    BY <1>4 DEF ForeignNonce
  <2>2. /\ known' \in [Attempts -> Tokens \cup {None}]
        /\ refreshing' \in [Attempts -> Tokens \cup {None}]
        /\ \A b \in Attempts : phase[b] = "validate" => known'[b] = known[b]
    BY <1>1, <2>1, RequestFacts
  <2>3. stray' \subseteq Attempts
    BY <1>1, <2>1
  <2> QED BY <1>1, <1>2, <2>1, <2>2, <2>3, StrayKeeps
<1> QED BY <1>3, <1>4

LEMMA StrayExchangedKeeps ==
    ASSUME TypeOK, IInv, NEW a \in Attempts, StrayExchanged(a)
    PROVE  TypeOK' /\ IInv'
<1>1. /\ foreign \subseteq Attempts /\ stray \subseteq Attempts
      /\ token \in Tokens \cup {None}
      /\ known \in [Attempts -> Tokens \cup {None}]
      /\ refreshing \in [Attempts -> Tokens \cup {None}]
  BY DEF TypeOK
<1>2. Waiting \subseteq foreign
  BY DEF StrayExchanged, IInv, ChallengesShared
<1>3. /\ stray' \subseteq stray /\ expectedChallenge' = 0 /\ Refresh(a, token)
      /\ UNCHANGED <<phase, answer, result, known, refreshing, overlapped, foreign, bridge,
                     graph, relaunches>>
  BY DEF StrayExchanged
<1>4. /\ token' \in Tokens \cup {None}
      /\ token' # None => token # None /\ token'.attempt = token.attempt
  BY <1>1, <1>3, RefreshFacts
<1> QED BY <1>1, <1>2, <1>3, <1>4, StrayKeeps

LEMMA TapKeeps ==
    ASSUME TypeOK, IInv, NEW a \in Attempts, LoginTapped(a)
    PROVE  TypeOK' /\ IInv'
<1>0. /\ phase \in [Attempts -> Phases] /\ session \in Attempts \cup {0}
      /\ 0 \notin Attempts /\ phase[a] = "unused"
      /\ session # 0 => phase[session] = "dialog"
  BY DEF TypeOK, IInv, BridgeAgrees, URLReachesItsManager, LoginTapped, Attempts
<1>1. /\ phase' \in [Attempts -> Phases] /\ phase'[a] = "dialog"
      /\ \A b \in Attempts \ {a} :
            \/ phase'[b] = phase[b]
            \/ phase[b] = "dialog" /\ phase'[b] = "gone"
  <2>1. phase' = [b \in Attempts |->
                     CASE b = a -> "dialog" [] b = session -> "gone"
                       [] OTHER -> phase[b]]
    BY DEF LoginTapped
  <2>2. \A b \in Attempts :
            phase'[b] = IF b = a THEN "dialog"
                        ELSE IF b = session THEN "gone" ELSE phase[b]
    BY <1>0, <2>1
  <2> QED BY <1>0, <2>1, <2>2 DEF Phases
<1>2. /\ session' = a /\ visible' = TRUE /\ pendingURLOpen' = a
      /\ expectedChallenge' = a
      /\ overlapped' = IF Waiting = {} THEN overlapped
                                       ELSE overlapped \cup Waiting \cup {a}
      /\ foreign' = IF stray = {} THEN foreign ELSE foreign \cup {a}
      /\ UNCHANGED <<answer, result, known, refreshing, stray, token, graph, relaunches>>
  BY DEF LoginTapped, OpenSession
<1>3. TypeOK'
  BY <1>1, <1>2 DEF TypeOK, Waiting
<1>4. BridgeAgrees'
  BY <1>0, <1>1, <1>2 DEF BridgeAgrees, URLReachesItsManager
<1>5. AnswersKnown'
  BY <1>1, <1>2 DEF IInv, AnswersKnown
<1>6. GraphIsDone' /\ TokenIsDone'
  <2>1. \A b \in Attempts : phase[b] = "done" => phase'[b] = "done"
    BY <1>0, <1>1
  <2> QED BY <1>2, <2>1, TokenFacts DEF IInv, GraphIsDone, TokenIsDone
<1>7. ChallengesShared'
  <2>1. Waiting' \subseteq Waiting \cup {a}
    BY <1>1 DEF Waiting
  <2> QED BY <1>2, <2>1 DEF IInv, ChallengesShared
<1>8. BadChallengeNeedsInterference'
  BY <1>2 DEF IInv, BadChallengeNeedsInterference
<1> QED BY <1>3, <1>4, <1>5, <1>6, <1>7, <1>8 DEF IInv

LEMMA RelaunchKeeps ==
    ASSUME TypeOK, IInv, Relaunch
    PROVE  TypeOK' /\ IInv'
<1>1. /\ phase' \in [Attempts -> Phases]
      /\ \A a \in Attempts : phase'[a] = phase[a] \/ phase'[a] = "gone"
      /\ \A a \in Attempts : phase[a] = "done" => phase'[a] = "done"
      /\ \A a \in Attempts : phase'[a] \in {"unused", "done", "gone"}
  BY DEF TypeOK, Relaunch, Phases
<1>2. TypeOK'
  <2>1. relaunches' \in 0..MaxRelaunches
    BY ConstantsFit DEF TypeOK, Relaunch
  <2>2. 0 \in Attempts \cup {0} /\ FALSE \in BOOLEAN
    OBVIOUS
  <2>3. /\ session' = 0 /\ visible' = FALSE /\ pendingURLOpen' = 0
        /\ stray' = {}
        /\ UNCHANGED <<answer, result, known, refreshing, overlapped, foreign,
                       expectedChallenge, token, graph>>
    BY DEF Relaunch
  <2> QED BY <1>1, <2>1, <2>2, <2>3 DEF TypeOK
<1>3. BridgeAgrees' /\ AnswersKnown'
  BY <1>1 DEF Relaunch, BridgeAgrees, URLReachesItsManager, AnswersKnown
<1>4. GraphIsDone' /\ TokenIsDone'
  BY <1>1, TokenFacts DEF Relaunch, IInv, GraphIsDone, TokenIsDone
<1>5. ChallengesShared' /\ BadChallengeNeedsInterference'
  <2>1. Waiting' = {}
    BY <1>1 DEF Waiting
  <2> QED BY <2>1 DEF Relaunch, IInv, ChallengesShared, BadChallengeNeedsInterference
<1> QED BY <1>2, <1>3, <1>4, <1>5 DEF IInv

\* Steps that move no attempt and leave the token its owner.
LEMMA SharedKeeps ==
    ASSUME TypeOK, IInv, UNCHANGED <<attempts, graph, expectedChallenge, relaunches>>,
           token' \in Tokens \cup {None},
           token' # None => token # None /\ token'.attempt = token.attempt,
           \/ UNCHANGED bridge
           \/ visible' = FALSE /\ UNCHANGED <<session, pendingURLOpen>>
           \/ session' = 0 /\ visible' = FALSE /\ pendingURLOpen' = 0
    PROVE  TypeOK' /\ IInv'
<1>1. TypeOK'
  BY DEF TypeOK, attempts, waits, bridge
<1>2. BridgeAgrees'
  BY DEF IInv, BridgeAgrees, URLReachesItsManager, attempts, bridge
<1>3. AnswersKnown' /\ GraphIsDone' /\ TokenIsDone'
  BY DEF IInv, AnswersKnown, GraphIsDone, TokenIsDone, attempts, waits
<1>4. ChallengesShared' /\ BadChallengeNeedsInterference'
  BY DEF IInv, ChallengesShared, BadChallengeNeedsInterference, Waiting, attempts, waits
<1> QED BY <1>1, <1>2, <1>3, <1>4 DEF IInv

LEMMA FacebookInit == Init => TypeOK /\ IInv
<1> SUFFICES ASSUME Init PROVE TypeOK /\ IInv
  OBVIOUS
<1>1. TypeOK
  <2>1. 0 \in 0..MaxRelaunches
    BY ConstantsFit
  <2>2. /\ phase \in [Attempts -> Phases] /\ result \in [Attempts -> Results]
        /\ answer \in [Attempts -> Answers \cup {None}]
        /\ known \in [Attempts -> Tokens \cup {None}]
        /\ refreshing \in [Attempts -> Tokens \cup {None}]
    BY DEF Init, Phases, Results
  <2> QED BY <2>1, <2>2 DEF Init, TypeOK
<1>2. IInv
  BY DEF Init, IInv, BridgeAgrees, URLReachesItsManager, AnswersKnown, GraphIsDone,
         TokenIsDone, ChallengesShared, Waiting, BadChallengeNeedsInterference
<1> QED BY <1>1, <1>2

LEMMA FacebookStep == TypeOK /\ IInv /\ [Next]_vars => TypeOK' /\ IInv'
<1> SUFFICES ASSUME TypeOK, IInv, [Next]_vars PROVE TypeOK' /\ IInv'
  OBVIOUS
<1>0. token \in Tokens \cup {None}
  BY DEF TypeOK
<1>1. ASSUME NEW a \in Attempts, Moves(a) PROVE TypeOK' /\ IInv'
  BY <1>1, MovesTyped, MovesKeep
<1>2. ASSUME NEW a \in Attempts,
             \/ NonceExchanged(a) \/ ExchangeFailed(a) \/ Validated(a)
             \/ ValidationFailed(a)
      PROVE  TypeOK' /\ IInv'
  BY <1>1, <1>2, RequestMoves
<1>3. CASE DialogClosed \/ LoginDeclined \/ TokenReturned \/ NonceReturned
  BY <1>1, <1>3, DialogMoves
<1>4. CASE OtherURLOpened
  <2>1. CASE session # 0
    BY <1>1, <1>4, <2>1, CanceledMoves
  <2>2. CASE session = 0
    BY <1>0, <1>4, <2>2, SharedKeeps DEF OtherURLOpened, attempts
  <2> QED BY <2>1, <2>2
<1>5. CASE DialogVanishes
  BY <1>0, <1>5, SharedKeeps DEF DialogVanishes
<1>6. CASE TokenAges
  <2>1. token # None /\ token' \in Tokens /\ token'.attempt = token.attempt
    BY <1>0, <1>6 DEF TokenAges, Tokens
  <2> QED BY <1>6, <2>1, SharedKeeps DEF TokenAges
<1>7. CASE ForeignAnswer \/ ForeignNonce
  <2>1. pendingURLOpen \in Attempts /\ phase[pendingURLOpen] \in {"dialog", "done"}
    BY <1>7 DEF TypeOK, IInv, BridgeAgrees, ForeignAnswer, ForeignNonce, LoginURLOpened
  <2> QED BY <1>1, <1>7, <2>1, ForeignMoves, ForeignStray
<1>8. CASE UNCHANGED vars
  BY <1>0, <1>8, SharedKeeps DEF vars
<1> QED BY <1>2, <1>3, <1>4, <1>5, <1>6, <1>7, <1>8, TapKeeps, RelaunchKeeps,
           StrayExchangedKeeps DEF Next

LEMMA FacebookInvariant == Spec => []TypeOK /\ []IInv
<1>1. Spec => [](TypeOK /\ IInv)
  BY FacebookInit, FacebookStep, PTL DEF Spec
<1> QED BY <1>1, PTL

-----------------------------------------------------------------------------
(* The theorems.                                                           *)

\* The attempts, the bridge and the token are well typed in every state.
THEOREM FacebookTyped == Spec => []TypeOK
BY FacebookInvariant, PTL

\* The URL a dialog ends with always reaches the manager that opened it.
THEOREM URLsAreRouted == Spec => []URLReachesItsManager
<1>1. IInv => URLReachesItsManager
  BY DEF IInv, BridgeAgrees
<1> QED BY <1>1, FacebookInvariant, PTL

\* A current token is of a login whose email was refused: no other survives the
\* logout of the app, not even through a renewal under way.
THEOREM LoggedOutOfFacebook == Spec => []OnlyRefusalsStay
<1>1. IInv => OnlyRefusalsStay
  BY DEF IInv, TokenIsDone, OnlyRefusalsStay
<1> QED BY <1>1, FacebookInvariant, PTL

\* The app asks the graph for the person who signed in in the dialog of that tap.
THEOREM RightPersonIsAsked == Spec => []GraphAsksForTheAnswer
<1>1. ASSUME NEW who \in Answers, NEW user, who.user = user, who.email
      PROVE  who = [user |-> user, email |-> TRUE]
  BY <1>1 DEF Answers
<1>2. IInv => GraphAsksForTheAnswer
  BY <1>1 DEF IInv, GraphIsDone, GraphAsksForTheAnswer
<1> QED BY <1>2, FacebookInvariant, PTL

\* A login fails for its challenge only beside another that waited with it, or
\* when a login URL from elsewhere was worked on while it waited.
THEOREM ChallengesFailByInterference == Spec => []BadChallengeNeedsInterference
<1>1. IInv => BadChallengeNeedsInterference
  BY DEF IInv
<1> QED BY <1>1, FacebookInvariant, PTL

=============================================================================
