--------------------------- MODULE SessionProofs ---------------------------
(***************************************************************************)
(* Proofs about module Session, for any number of screens, accounts,       *)
(* profiles and pending graph requests.                                    *)
(***************************************************************************)
EXTENDS Session, SequenceTheorems, TLAPS

-----------------------------------------------------------------------------
(* Facts about screens and about stacks of them.                           *)

\* Every screen the app pushes is a screen, and is told from others by kind.
LEMMA ScreenFacts ==
    /\ Welcome \in Screens /\ Welcome.kind = "Welcome"
    /\ Buttons \in Screens /\ Buttons.kind = "Buttons"
    /\ Play \in Screens /\ Play.kind = "Play"
    /\ \A id \in ScreenIds, kind \in {"Login", "SignUp"} :
         AccountScreen(kind, id) \in Screens /\ AccountScreen(kind, id).kind = kind
    /\ \A n \in Names \cup {Blank} :
         /\ Home(n) \in Screens /\ Home(n).kind = "Home" /\ Home(n).greeting = n
    /\ \A b \in {"speaking", "over"} :
         /\ Speak(b) \in Screens /\ Speak(b).kind = "Speak" /\ Speak(b).speech = b
BY DEF Screens, Welcome, Buttons, Play, AccountScreen, Home, Speak

\* Only Welcome has Welcome's kind.
LEMMA WelcomeKind == \A s \in Screens : s.kind = "Welcome" <=> s = Welcome
BY DEF Screens, Welcome, Buttons, Play

\* A push adds one screen on top and leaves those below.
LEMMA PushFacts ==
    ASSUME NEW s \in Seq(Screens), NEW screen \in Screens
    PROVE  /\ Append(s, screen) \in Seq(Screens)
           /\ Append(s, screen) # <<>>
           /\ Len(Append(s, screen)) = Len(s) + 1
           /\ \A i \in 1..Len(s) : Append(s, screen)[i] = s[i]
           /\ Append(s, screen)[Len(s) + 1] = screen
BY AppendProperties

\* Cutting a stack at a screen keeps those up to it.
LEMMA CutFacts ==
    ASSUME NEW s \in Seq(Screens), NEW n \in 1..Len(s)
    PROVE  /\ SubSeq(s, 1, n) \in Seq(Screens)
           /\ SubSeq(s, 1, n) # <<>>
           /\ Len(SubSeq(s, 1, n)) = n
           /\ \A i \in 1..n : SubSeq(s, 1, n)[i] = s[i]
<1>1. \A i \in 1..n : s[i] \in Screens
  BY ElementOfSeq, LenProperties
<1>2. /\ SubSeq(s, 1, n) \in Seq(Screens)
      /\ Len(SubSeq(s, 1, n)) = n
      /\ \A i \in 1..n : SubSeq(s, 1, n)[i] = s[1 + i - 1]
  BY <1>1, SubSeqProperties, LenProperties
<1>3. SubSeq(s, 1, n) # <<>>
  BY <1>2, EmptySeq
<1> QED BY <1>2, <1>3, LenProperties

\* A pop takes the top screen away and leaves those below.
LEMMA PopFacts ==
    ASSUME NEW s \in Seq(Screens), Len(s) > 1
    PROVE  /\ Popped(s) \in Seq(Screens)
           /\ Popped(s) # <<>>
           /\ Len(Popped(s)) = Len(s) - 1
           /\ \A i \in 1..(Len(s) - 1) : Popped(s)[i] = s[i]
<1>1. Len(s) - 1 \in 1..Len(s)
  BY LenProperties
<1> QED BY <1>1, CutFacts DEF Popped

\* A stack of type Seq(Screens) that is not empty has a top.
LEMMA TopFacts ==
    ASSUME stack \in Seq(Screens), stack # <<>>
    PROVE  /\ Len(stack) \in Nat \ {0}
           /\ Top \in Screens
           /\ \A i \in 1..Len(stack) : stack[i] \in Screens
<1>1. Len(stack) \in Nat \ {0}
  BY EmptySeq
<1> QED BY <1>1, ElementOfSeq DEF Top

\* Names of accounts and of launch screens are greetings.
LEMMA AccountFacts ==
    /\ \A a \in Accounts : a.name \in Names /\ a.email \in Emails
    /\ \A p \in FbProfiles : FbAccount(p) \in Accounts
                             /\ p.name \in Names /\ p.email \in Emails
<1>1. \A a \in Accounts : a.name \in Names /\ a.email \in Emails
  BY DEF Names, Emails
<1>2. ASSUME NEW p \in FbProfiles
      PROVE  /\ FbAccount(p) \in Accounts
             /\ p.name \in Names /\ p.email \in Emails
  <2>1. FbAccount(p) \in Accounts
    BY DEF Accounts
  <2>2. FbAccount(p).name = p.name /\ FbAccount(p).email = p.email
    BY DEF FbAccount
  <2> QED BY <1>1, <2>1, <2>2
<1> QED BY <1>1, <1>2

-----------------------------------------------------------------------------
(* Types, and Welcome at the root.                                         *)

\* A deeper stack admits every alert a shallower one does.
LEMMA AlertFacts ==
    /\ \A m, n \in Nat : m <= n => Alerts(m) \subseteq Alerts(n)
    /\ \A n \in Nat : /\ NoAlert \in Alerts(n)
                      /\ AskLogout(0) \in Alerts(n)
                      /\ \A e \in Emails : Unknown(e) \in Alerts(n)
                      /\ \A k \in {"form", "password", "taken", "notFacebook"} :
                           Message(k) \in Alerts(n)
                      /\ \A i \in 1..n : AskLogout(i) \in Alerts(n)
    /\ \A n \in Nat : \A a \in Alerts(n) : a.kind = "logout" => a.at \in 0..n
BY DEF Alerts, NoAlert, AskLogout, Unknown, Message

\* A shallower stack admits an alert that asks for none of the screens cut off.
LEMMA AlertShrink ==
    ASSUME NEW m \in Nat, NEW n \in Nat, NEW a \in Alerts(n),
           a.kind = "logout" => a.at \in 0..m
    PROVE  a \in Alerts(m)
BY DEF Alerts

\* A push of a screen other than Welcome keeps the root, if account screens
\* are pushed on Welcome alone.
LEMMA PushKeeps ==
    ASSUME TypeOK, RootIsWelcome, NEW screen \in Screens, Push(screen),
           screen # Welcome, screen.kind \in {"Login", "SignUp"} => Len(stack) = 1
    PROVE  /\ stack' \in Seq(Screens) /\ stack' # <<>>
           /\ Len(stack') = Len(stack) + 1
           /\ \A i \in 1..Len(stack) : stack'[i] = stack[i]
           /\ stack'[Len(stack) + 1] = screen
           /\ RootIsWelcome'
<1>1. Len(stack) \in Nat \ {0}
  BY TopFacts DEF TypeOK
<1>2. /\ stack' \in Seq(Screens) /\ stack' # <<>>
      /\ Len(stack') = Len(stack) + 1
      /\ \A i \in 1..Len(stack) : stack'[i] = stack[i]
      /\ stack'[Len(stack) + 1] = screen
  BY PushFacts DEF TypeOK, Push
<1>3. RootIsWelcome'
  BY <1>1, <1>2 DEF RootIsWelcome, Welcome
<1> QED BY <1>2, <1>3

\* Cutting the stack above any screen keeps the root.
LEMMA CutKeeps ==
    ASSUME TypeOK, RootIsWelcome, NEW n \in 1..Len(stack),
           Len(stack') = n, \A i \in 1..n : stack'[i] = stack[i]
    PROVE  RootIsWelcome'
<1>1. Len(stack) \in Nat \ {0}
  BY TopFacts DEF TypeOK
<1> QED BY <1>1 DEF RootIsWelcome, Welcome

\* The screen that speaks is above Welcome, so ending its speech pops a screen.
LEMMA SpeechPops ==
    ASSUME TypeOK, RootIsWelcome, NEW i \in 1..Len(stack), SpeechFinished(i)
    PROVE  /\ Len(stack) > 1
           /\ stack' \in Seq(Screens) /\ stack' # <<>>
           /\ Len(stack') = Len(stack) - 1
           /\ \A j \in 1..(Len(stack) - 1) :
                stack'[j] = IF j = i THEN Speak("over") ELSE stack[j]
<1>1. Len(stack) \in Nat \ {0} /\ stack[i] = Speak("speaking")
  BY TopFacts DEF TypeOK, SpeechFinished
<1>2. i # 1
  BY <1>1 DEF RootIsWelcome, Welcome, Speak
<1>3. Len(stack) > 1
  BY <1>1, <1>2
<1> DEFINE silent == [stack EXCEPT ![i] = Speak("over")]
<1>4. /\ silent \in Seq(Screens)
      /\ Len(silent) = Len(stack)
      /\ \A j \in 1..Len(stack) : silent[j] = IF j = i THEN Speak("over") ELSE stack[j]
  <2>1. Speak("over") \in Screens /\ stack \in Seq(Screens)
    BY ScreenFacts DEF TypeOK
  <2>2. silent \in Seq(Screens)
    BY <2>1, ExceptSeq
  <2>3. Len(silent) = Len(stack)
    BY <2>1, ExceptSeq
  <2>4. stack \in [1..Len(stack) -> Screens]
    BY <2>1, LenProperties
  <2> QED BY <2>2, <2>3, <2>4
<1>5. stack' = Popped(silent)
  BY DEF SpeechFinished
<1> HIDE DEF silent
<1>6. /\ Popped(silent) \in Seq(Screens)
      /\ Popped(silent) # <<>>
      /\ Len(Popped(silent)) = Len(silent) - 1
      /\ \A j \in 1..(Len(silent) - 1) : Popped(silent)[j] = silent[j]
  BY <1>3, <1>4, PopFacts
<1>7. Len(stack') = Len(stack) - 1
  BY <1>4, <1>5, <1>6
<1>8. ASSUME NEW j \in 1..(Len(stack) - 1)
      PROVE  stack'[j] = IF j = i THEN Speak("over") ELSE stack[j]
  <2>1. j \in 1..Len(stack) /\ j \in 1..(Len(silent) - 1)
    BY <1>1, <1>4
  <2>2. stack'[j] = silent[j]
    BY <2>1, <1>5, <1>6
  <2> QED BY <2>1, <2>2, <1>4
<1> QED BY <1>3, <1>5, <1>6, <1>7, <1>8

\* popToViewController finds Welcome at the bottom.
LEMMA WelcomeIsFound ==
    ASSUME TypeOK, RootIsWelcome
    PROVE  AtWelcome(stack) = 1
<1>1. Len(stack) \in Nat \ {0}
  BY TopFacts DEF TypeOK
<1>2. stack[1] = Welcome /\ \A i \in 1..Len(stack) : stack[i] = Welcome => i = 1
  BY <1>1 DEF RootIsWelcome
<1> QED BY <1>1, <1>2 DEF AtWelcome

\* The stacks a scene starts with.
LEMMA LaunchFacts ==
    /\ LaunchStack \in Seq(Screens) /\ LaunchStack # <<>>
    /\ \/ username \in {NoName, Blank} /\ LaunchStack = <<Welcome>>
       \/ username \notin {NoName, Blank} /\ LaunchStack = <<Welcome, Home(Blank)>>
BY ScreenFacts DEF LaunchStack

TypeInv == TypeOK /\ RootIsWelcome

\* Signing in pushes a Home, or leaves the stack alone.
LEMMA SignInKeeps ==
    ASSUME TypeInv, NEW kind, NEW id, NEW name \in Names, SignIn(kind, id, name)
    PROVE  /\ stack' \in Seq(Screens) /\ stack' # <<>> /\ RootIsWelcome'
           /\ username' \in Names
           /\ alert \in Alerts(Len(stack'))
<1>1. Len(stack) \in Nat \ {0}
  BY TopFacts DEF TypeInv, TypeOK
<1>2. /\ Home(name) \in Screens /\ Home(name) # Welcome
      /\ Home(name).kind \notin {"Login", "SignUp"}
  BY ScreenFacts
<1>3. CASE OnStack(kind, id)
  <2>1. Push(Home(name))
    BY <1>3 DEF SignIn
  <2>2. /\ stack' \in Seq(Screens) /\ stack' # <<>>
        /\ Len(stack') = Len(stack) + 1
        /\ RootIsWelcome'
    BY <1>2, <2>1, PushKeeps DEF TypeInv
  <2> QED BY <1>1, <2>2, AlertFacts DEF TypeInv, TypeOK, SignIn
<1>4. CASE ~OnStack(kind, id)
  <2>1. stack' = stack
    BY <1>4 DEF SignIn
  <2> QED BY <2>1 DEF TypeInv, TypeOK, RootIsWelcome, SignIn
<1> QED BY <1>3, <1>4

\* The same stack under a new alert.
LEMMA SayKeeps ==
    ASSUME TypeInv, NEW message \in Alerts(Len(stack)), Say(message)
    PROVE  TypeInv'
<1>1. RootIsWelcome'
  BY DEF TypeInv, RootIsWelcome, Say
<1> QED BY <1>1 DEF TypeInv, TypeOK, Say, cloud

\* Opening a screen under no alert: the rest of the state stays.
LEMMA OpenKeeps ==
    ASSUME TypeInv, NEW below, NEW screen \in {Buttons, Play, Speak("speaking")},
           Open(below, screen)
    PROVE  TypeInv'
<1>1. /\ screen \in Screens /\ screen # Welcome
      /\ screen.kind \notin {"Login", "SignUp"}
  BY ScreenFacts
<1>2. /\ stack' \in Seq(Screens) /\ stack' # <<>>
      /\ Len(stack') = Len(stack) + 1
      /\ RootIsWelcome'
  BY <1>1, PushKeeps DEF TypeInv, Open
<1>3. Len(stack) \in Nat
  BY TopFacts DEF TypeInv, TypeOK
<1> QED BY <1>2, <1>3, AlertFacts DEF TypeInv, TypeOK, Open, cloud

\* A scene starts with Welcome at the root, and no alert.
LEMMA LaunchKeeps ==
    ASSUME stack' = LaunchStack, alert' = NoAlert
    PROVE  /\ stack' \in Seq(Screens) /\ stack' # <<>> /\ RootIsWelcome'
           /\ alert' \in Alerts(Len(stack'))
<1>1. stack' \in Seq(Screens) /\ stack' # <<>>
  BY LaunchFacts
<1>2. RootIsWelcome'
  BY LaunchFacts, ScreenFacts DEF RootIsWelcome
<1> QED BY <1>1, <1>2, AlertFacts, EmptySeq

\* No pending requests and empty lists have their types.
LEMMA FreshFacts ==
    /\ [id \in ScreenIds |-> 0] \in [ScreenIds -> 0..MaxGraph]
    /\ NothingKnown \in [Emails -> Accounts \cup {Absent}]
    /\ [id \in ScreenIds |-> NothingKnown]
         \in [ScreenIds -> [Emails -> Accounts \cup {Absent}]]
    /\ NothingWithdrawn \in [ScreenIds -> SUBSET Accounts]
<1>1. [id \in ScreenIds |-> 0] \in [ScreenIds -> 0..MaxGraph]
  BY SentinelsAreNoValues
<1>2. NothingKnown \in [Emails -> Accounts \cup {Absent}]
  BY DEF NothingKnown
<1>3. NothingWithdrawn \in [ScreenIds -> SUBSET Accounts]
  BY DEF NothingWithdrawn
<1> QED BY <1>1, <1>2, <1>3

LEMMA TypeInit == Init => TypeInv
<1> SUFFICES ASSUME Init PROVE TypeInv
  OBVIOUS
<1>1. stack \in Seq(Screens) /\ stack # <<>> /\ Len(stack) = 1 /\ stack[1] = Welcome
  BY ScreenFacts DEF Init
<1>2. RootIsWelcome
  BY <1>1, ScreenFacts DEF RootIsWelcome
<1>3. alert \in Alerts(Len(stack))
  BY <1>1, AlertFacts DEF Init
<1> QED BY <1>1, <1>2, <1>3, FreshFacts DEF Init, TypeInv, TypeOK

\* One step of the phone keeps the types and the root.
LEMMA TypeStep == TypeInv /\ [Next]_vars => TypeInv'
<1> SUFFICES ASSUME TypeInv, [Next]_vars PROVE TypeInv'
  OBVIOUS
<1> USE DEF TypeInv
<1>0. Len(stack) \in Nat \ {0} /\ Top \in Screens
  BY TopFacts DEF TypeOK
<1>1. ASSUME NEW id \in ScreenIds, NEW kind \in {"Login", "SignUp"},
             OpenAccountScreen(kind, id)
      PROVE  TypeInv'
  <2>1. Len(stack) = 1
    <3>1. Top = Welcome
      BY <1>0, <1>1, WelcomeKind DEF OpenAccountScreen, OnTop
    <3>2. Len(stack) \in 1..Len(stack) /\ stack[Len(stack)] = Welcome
      BY <1>0, <3>1 DEF Top
    <3>3. \A i \in 1..Len(stack) : stack[i] = Welcome => i = 1
      BY DEF RootIsWelcome
    <3> QED BY <3>2, <3>3
  <2>2. /\ stack' \in Seq(Screens) /\ stack' # <<>>
        /\ Len(stack') = Len(stack) + 1
        /\ RootIsWelcome'
    BY <1>1, <2>1, ScreenFacts, PushKeeps DEF OpenAccountScreen
  <2>3. alert' \in Alerts(Len(stack'))
    BY <1>0, <1>1, <2>2, AlertFacts DEF OpenAccountScreen, TypeOK
  <2>4. known' \in [ScreenIds -> [Emails -> Accounts \cup {Absent}]]
    BY <1>1, FreshFacts DEF OpenAccountScreen, TypeOK
  <2>5. withdrawn' \in [ScreenIds -> SUBSET Accounts]
    BY <1>1 DEF OpenAccountScreen, TypeOK
  <2> QED BY <1>1, <2>2, <2>3, <2>4, <2>5 DEF OpenAccountScreen, TypeOK
<1>2. ASSUME NEW id, NEW kind, FormRejected(kind, id)
      PROVE  TypeInv'
  BY <1>0, <1>2, AlertFacts, SayKeeps DEF FormRejected
<1>3. ASSUME NEW id \in ScreenIds, NEW e \in Emails, NEW p \in Passwords, LogIn(id, e, p)
      PROVE  TypeInv'
  <2>1. CASE Say(Unknown(e)) \/ Say(Message("password"))
    BY <1>0, <2>1, AlertFacts, SayKeeps
  <2>2. CASE /\ known[id][e] # Absent
             /\ SignIn("Login", id, known[id][e].name)
             /\ UNCHANGED <<alert, dialog, graph, known, cloud, late>>
    <3>1. known[id][e].name \in Names
      BY <2>2, AccountFacts DEF TypeOK
    <3>2. /\ stack' \in Seq(Screens) /\ stack' # <<>> /\ RootIsWelcome'
          /\ username' \in Names
          /\ alert \in Alerts(Len(stack'))
      BY <2>2, <3>1, SignInKeeps
    <3> QED BY <2>2, <3>2 DEF TypeOK, cloud
  <2> QED BY <1>3, <2>1, <2>2 DEF LogIn
<1>4. ASSUME NEW id \in ScreenIds, NEW a \in FormAccounts, SignUp(id, a)
      PROVE  TypeInv'
  <2>1. CASE Say(Message("taken"))
    BY <1>0, <2>1, AlertFacts, SayKeeps
  <2>2. CASE /\ Register(a)
             /\ SignIn("SignUp", id, a.name)
             /\ UNCHANGED <<alert, dialog, graph, known, late>>
    <3>1. a \in Accounts /\ a.name \in Names
      BY AccountFacts DEF Accounts
    <3>2. /\ stack' \in Seq(Screens) /\ stack' # <<>> /\ RootIsWelcome'
          /\ username' \in Names
          /\ alert \in Alerts(Len(stack'))
      BY <2>2, <3>1, SignInKeeps
    <3> QED BY <2>2, <3>1, <3>2 DEF TypeOK, Register
  <2> QED BY <1>4, <2>1, <2>2 DEF SignUp
<1>5. ASSUME NEW id \in ScreenIds, FacebookTapped(id)
      PROVE  TypeInv'
  BY <1>5 DEF FacebookTapped, TypeOK, RootIsWelcome, cloud
<1>6. ASSUME NEW id \in ScreenIds, NEW p \in FbProfiles, GraphAnswered(id, p)
      PROVE  TypeInv'
  <2>1. graph' \in [ScreenIds -> 0..MaxGraph] /\ dialog' = dialog /\ known' = known
    BY <1>6, SentinelsAreNoValues DEF GraphAnswered, TypeOK
  <2>2. CASE /\ \/ Register(FbAccount(p)) /\ SignIn("Login", id, p.name)
                \/ /\ known[id][p.email] # Absent
                   /\ SignIn("Login", id, known[id][p.email].name)
                   /\ UNCHANGED cloud
             /\ late' = (late \/ ~IsTop("Login", id))
             /\ UNCHANGED alert
    <3>1. p.name \in Names /\ FbAccount(p) \in Accounts /\ p.email \in Emails
      BY AccountFacts
    <3>2. known[id][p.email] # Absent => known[id][p.email].name \in Names
      BY <3>1, AccountFacts DEF TypeOK
    <3>3. /\ stack' \in Seq(Screens) /\ stack' # <<>> /\ RootIsWelcome'
          /\ username' \in Names
          /\ alert \in Alerts(Len(stack'))
      BY <2>2, <3>1, <3>2, SignInKeeps
    <3>4. /\ server' \subseteq Accounts /\ outbox' \subseteq Accounts
          /\ UNCHANGED withdrawn
      BY <2>2, <3>1 DEF Register, TypeOK, cloud
    <3>5. late' \in BOOLEAN
      BY <2>2 DEF TypeOK
    <3> QED BY <2>1, <2>2, <3>3, <3>4, <3>5 DEF TypeOK
  <2>3. CASE /\ alert' \in {alert, Message("notFacebook")}
             /\ UNCHANGED <<stack, username, cloud, late>>
    <3>1. alert' \in Alerts(Len(stack'))
      BY <1>0, <2>3, AlertFacts DEF TypeOK
    <3>2. RootIsWelcome'
      BY <2>3 DEF RootIsWelcome
    <3> QED BY <2>1, <2>3, <3>1, <3>2 DEF TypeOK, cloud
  <2> QED BY <1>6, <2>2, <2>3 DEF GraphAnswered
<1>7. ASSUME NEW id \in ScreenIds, GraphFailed(id)
      PROVE  TypeInv'
  <2>1. graph' \in [ScreenIds -> 0..MaxGraph]
    BY <1>7, SentinelsAreNoValues DEF GraphFailed, TypeOK
  <2> QED BY <1>7, <2>1 DEF GraphFailed, TypeOK, RootIsWelcome, phone, cloud
<1>8. ASSUME FacebookGranted
      PROVE  TypeInv'
  <2>1. graph' \in [ScreenIds -> 0..MaxGraph]
    BY <1>8, SentinelsAreNoValues DEF FacebookGranted, TypeOK
  <2> QED BY <1>8, <2>1 DEF FacebookGranted, TypeOK, RootIsWelcome, cloud
<1>9. ASSUME FacebookRefused
      PROVE  TypeInv'
  BY <1>9 DEF FacebookRefused, TypeOK, RootIsWelcome, cloud
<1>10. ASSUME NEW id \in ScreenIds, Snapshot(id)
       PROVE  TypeInv'
  <2>1. PICK list \in [Emails -> server \cup outbox \cup {Absent}] :
            known' = [known EXCEPT ![id] = list]
    BY <1>10 DEF Snapshot
  <2>2. list \in [Emails -> Accounts \cup {Absent}]
    BY <2>1 DEF TypeOK
  <2>3. known' \in [ScreenIds -> [Emails -> Accounts \cup {Absent}]]
    BY <2>1, <2>2 DEF TypeOK
  <2> QED BY <1>10, <2>3 DEF Snapshot, TypeOK, RootIsWelcome, phone, cloud
<1>11. ASSUME NEW a \in outbox, WriteReachesServer(a)
       PROVE  TypeInv'
  BY <1>11 DEF WriteReachesServer, TypeOK, RootIsWelcome, phone
<1>12. ASSUME NEW a \in OtherAccounts, OtherPhoneRegisters(a)
       PROVE  TypeInv'
  <2>1. a \in Accounts
    BY DEF Accounts
  <2> QED BY <1>12, <2>1 DEF OtherPhoneRegisters, TypeOK, RootIsWelcome, phone
<1>13. ASSUME Back
       PROVE  TypeInv'
  <2>1. Len(stack) > 1 /\ stack' = Popped(stack)
    BY <1>0, <1>13, ScreenFacts DEF Back, Pop, Top, RootIsWelcome
  <2>2. /\ stack' \in Seq(Screens) /\ stack' # <<>>
        /\ Len(stack') = Len(stack) - 1
        /\ \A i \in 1..(Len(stack) - 1) : stack'[i] = stack[i]
    BY <2>1, PopFacts DEF TypeOK
  <2>3. RootIsWelcome'
    BY <1>0, <2>1, <2>2, CutKeeps
  <2>4. alert' \in Alerts(Len(stack'))
    BY <1>0, <1>13, <2>2, AlertFacts DEF Back, UserCanTap
  <2> QED BY <1>13, <2>2, <2>3, <2>4 DEF Back, TypeOK, cloud
<1>14. ASSUME OpenButtons \/ OpenPlay \/ TapTile
       PROVE  TypeInv'
  BY <1>14, OpenKeeps DEF OpenButtons, OpenPlay, TapTile
<1>15. ASSUME NEW i \in 1..Len(stack), SpeechFinished(i)
       PROVE  TypeInv'
  <2>1. /\ Len(stack) > 1
        /\ stack' \in Seq(Screens) /\ stack' # <<>>
        /\ Len(stack') = Len(stack) - 1
        /\ \A j \in 1..(Len(stack) - 1) :
             stack'[j] = IF j = i THEN Speak("over") ELSE stack[j]
    BY <1>15, SpeechPops
  <2>2. \A j \in 1..Len(stack') : stack'[j].kind = stack[j].kind
                                  /\ (stack'[j] = Welcome <=> stack[j] = Welcome)
    <3>1. stack[i] = Speak("speaking")
      BY <1>15 DEF SpeechFinished
    <3>2. Speak("speaking").kind = Speak("over").kind /\ Welcome \notin {Speak("speaking"), Speak("over")}
      BY DEF Speak, Welcome
    <3> QED BY <1>0, <2>1, <3>1, <3>2
  <2>3. RootIsWelcome'
    BY <1>0, <2>1, <2>2 DEF RootIsWelcome
  <2>4. alert' \in Alerts(Len(stack'))
    <3>1. CASE alert.kind = "logout" /\ alert.at = Len(stack)
      BY <1>0, <1>15, <2>1, <3>1, AlertFacts DEF SpeechFinished
    <3>2. CASE ~(alert.kind = "logout" /\ alert.at = Len(stack))
      <4>1. alert' = alert
        BY <1>15, <3>2 DEF SpeechFinished
      <4>2. alert.kind = "logout" => alert.at \in 0..Len(stack')
        BY <1>0, <2>1, <3>2, AlertFacts DEF TypeOK
      <4> QED BY <1>0, <2>1, <4>1, <4>2, AlertShrink DEF TypeOK
    <3> QED BY <3>1, <3>2
  <2> QED BY <1>15, <2>1, <2>3, <2>4 DEF SpeechFinished, TypeOK, cloud
<1>16. ASSUME LogoutTapped
       PROVE  TypeInv'
  <2>1. AskLogout(Len(stack)) \in Alerts(Len(stack))
    BY <1>0, AlertFacts
  <2> QED BY <1>16, <2>1, SayKeeps DEF LogoutTapped
<1>17. ASSUME LogoutConfirmed
       PROVE  TypeInv'
  <2>1. /\ stack' \in Seq(Screens) /\ stack' # <<>> /\ RootIsWelcome' /\ late' \in BOOLEAN
    <3>1. CASE stack' = SubSeq(stack, 1, AtWelcome(stack)) /\ late' = FALSE
      <4>1. stack' = SubSeq(stack, 1, 1)
        BY <3>1, WelcomeIsFound
      <4>2. /\ stack' \in Seq(Screens) /\ stack' # <<>>
            /\ Len(stack') = 1
            /\ \A i \in 1..1 : stack'[i] = stack[i]
        BY <1>0, <4>1, CutFacts DEF TypeOK
      <4>3. RootIsWelcome'
        BY <1>0, <4>2, CutKeeps
      <4> QED BY <3>1, <4>2, <4>3
    <3>2. CASE UNCHANGED <<stack, late>>
      BY <3>2 DEF TypeOK, RootIsWelcome
    <3> QED BY <1>17, <3>1, <3>2 DEF LogoutConfirmed
  <2>2. alert' \in Alerts(Len(stack'))
    BY <1>17, <2>1, AlertFacts, EmptySeq DEF LogoutConfirmed
  <2> QED BY <1>17, <2>1, <2>2 DEF LogoutConfirmed, TypeOK, cloud
<1>18. ASSUME AlertDismissed
       PROVE  TypeInv'
  BY <1>0, <1>18, AlertFacts, SayKeeps DEF AlertDismissed
<1>19. ASSUME SceneReconnects
       PROVE  TypeInv'
  BY <1>19, LaunchKeeps DEF SceneReconnects, TypeOK, cloud
<1>20. ASSUME Relaunch
       PROVE  TypeInv'
  <2>1. /\ graph' \in [ScreenIds -> 0..MaxGraph]
        /\ known' \in [ScreenIds -> [Emails -> Accounts \cup {Absent}]]
        /\ withdrawn' \in [ScreenIds -> SUBSET Accounts]
    BY <1>20, FreshFacts DEF Relaunch
  <2> QED BY <1>20, <2>1, LaunchKeeps DEF Relaunch, TypeOK
<1>21. ASSUME NEW a \in LostAccounts, WriteRefused(a) \/ AccountDeleted(a)
       PROVE  TypeInv'
  <2>1. a \in Accounts /\ Withdraw(a) /\ server' \subseteq server /\ outbox' \subseteq outbox
    BY <1>21 DEF WriteRefused, AccountDeleted, TypeOK
  <2>2. withdrawn' \in [ScreenIds -> SUBSET Accounts]
    BY <2>1 DEF Withdraw, TypeOK
  <2> QED BY <2>1, <2>2 DEF Withdraw, TypeOK, RootIsWelcome, phone
<1>22. CASE UNCHANGED vars
  BY <1>22 DEF vars, TypeOK, RootIsWelcome
<1> QED BY <1>1, <1>2, <1>3, <1>4, <1>5, <1>6, <1>7, <1>8, <1>9, <1>10, <1>11, <1>12,
           <1>13, <1>14, <1>15, <1>16, <1>17, <1>18, <1>19, <1>20, <1>21, <1>22
        DEF Next, AccountStep, FacebookStep, DatabaseStep, SpeechStep

LEMMA TypeInvHolds == Spec => []TypeInv
<1> QED BY TypeInit, TypeStep, PTL DEF Spec

\* The types of module Session hold in every reachable state.
THEOREM TypeCorrect == Spec => []TypeOK
BY TypeInvHolds, PTL DEF TypeInv

\* Welcome is at the bottom of the stack and nowhere else, and account screens
\* only directly above it, whatever answers, speeches and relaunches interleave.
THEOREM WelcomeStaysAtRoot == Spec => []RootIsWelcome
BY TypeInvHolds, PTL DEF TypeInv

-----------------------------------------------------------------------------
(* The session and the screens agree: the safety properties, from one      *)
(* inductive invariant.                                                    *)

SafeInv ==
    /\ Nested
    /\ SignedInShowsHome
    /\ HomeNeedsSession
    /\ GreetsStoredUser
    /\ LogoutAsksTop

\* On a calm phone an account screen on top covers Welcome alone.
LEMMA AccountScreenOnTop ==
    ASSUME TypeInv, SafeInv, ~late, Top.kind \in {"Login", "SignUp"}
    PROVE  Len(stack) = 2 /\ ~HomeOnStack
<1>1. Len(stack) \in Nat \ {0} /\ Len(stack) \in 1..Len(stack)
  BY TopFacts DEF TypeInv, TypeOK
<1>2. Len(stack) = 2
  BY <1>1 DEF Top, TypeInv, RootIsWelcome
<1>3. stack[1].kind = "Welcome" /\ stack[2].kind \in {"Login", "SignUp"}
  BY <1>1, <1>2, ScreenFacts DEF Top, TypeInv, RootIsWelcome
<1> QED BY <1>2, <1>3 DEF HomeOnStack

\* On a calm phone nothing covers a Speak screen.
LEMMA SpeakOnTop ==
    ASSUME TypeInv, SafeInv, ~late, NEW i \in 1..Len(stack), stack[i].kind = "Speak"
    PROVE  i = Len(stack)
<1>1. Len(stack) \in Nat \ {0}
  BY TopFacts DEF TypeInv, TypeOK
<1>2. SUFFICES ASSUME i # Len(stack) PROVE FALSE
  OBVIOUS
<1>3. i \in 1..(Len(stack) - 1)
  BY <1>1, <1>2
<1> QED BY <1>3 DEF SafeInv, Nested, Follows

\* A step that moves no screen, stores no name and does not ask for a logout.
LEMMA QuietStep ==
    ASSUME SafeInv, UNCHANGED <<stack, username, late>>,
           alert' = alert \/ alert'.kind # "logout"
    PROVE  SafeInv'
BY DEF SafeInv, Nested, SignedInShowsHome, HomeNeedsSession, GreetsStoredUser,
       LogoutAsksTop, HomeOnStack, OnTop, Top

\* A push of a screen other than Home, allowed by the storyboard, under no alert.
LEMMA PushStep ==
    ASSUME TypeInv, SafeInv, ~late, NEW screen \in Screens, Push(screen),
           screen # Welcome, screen.kind \in {"Login", "SignUp"} => Len(stack) = 1,
           Follows(Top.kind, screen.kind), screen.kind # "Home",
           screen # Speak("over"), alert = NoAlert, UNCHANGED <<username, alert, late>>
    PROVE  SafeInv'
<1>1. Len(stack) \in Nat \ {0}
  BY TopFacts DEF TypeInv, TypeOK
<1>2. /\ Len(stack') = Len(stack) + 1
      /\ \A i \in 1..Len(stack) : stack'[i] = stack[i]
      /\ stack'[Len(stack) + 1] = screen
  BY PushKeeps DEF TypeInv
<1>3. Nested'
  <2>1. ASSUME NEW i \in 1..(Len(stack') - 1)
        PROVE  Follows(stack'[i].kind, stack'[i + 1].kind)
    <3>1. CASE i = Len(stack)
      BY <1>1, <1>2, <3>1 DEF Top
    <3>2. CASE i # Len(stack)
      <4>1. i \in 1..(Len(stack) - 1) /\ i \in 1..Len(stack) /\ i + 1 \in 1..Len(stack)
        BY <1>1, <1>2, <3>2
      <4> QED BY <1>2, <4>1 DEF SafeInv, Nested
    <3> QED BY <3>1, <3>2
  <2>2. ASSUME NEW i \in 1..Len(stack')
        PROVE  stack'[i] # Speak("over")
    BY <1>1, <1>2 DEF SafeInv, Nested
  <2> QED BY <2>1, <2>2 DEF Nested
<1>4. HomeOnStack' <=> HomeOnStack
  BY <1>1, <1>2 DEF HomeOnStack
<1>5. GreetsStoredUser'
  BY <1>1, <1>2 DEF SafeInv, GreetsStoredUser
<1>6. LogoutAsksTop'
  BY DEF LogoutAsksTop, NoAlert
<1> QED BY <1>3, <1>4, <1>5, <1>6 DEF SafeInv, SignedInShowsHome, HomeNeedsSession

\* Signing in from the account screen on top.
LEMMA SignInStep ==
    ASSUME TypeInv, SafeInv, ~late, NEW kind \in {"Login", "SignUp"},
           NEW id \in ScreenIds, NEW name \in Names,
           IsTop(kind, id), SignIn(kind, id, name), UNCHANGED alert
    PROVE  SafeInv'
<1>1. Len(stack) = 2 /\ Top.kind = kind /\ stack[2].kind = kind
  BY AccountScreenOnTop, ScreenFacts DEF IsTop, Top
<1>2. stack[1].kind = "Welcome"
  BY <1>1, ScreenFacts DEF TypeInv, RootIsWelcome
<1>3. OnStack(kind, id)
  BY <1>1 DEF OnStack, IsTop, Top
<1>4. Push(Home(name)) /\ username' = name
  BY <1>3 DEF SignIn
<1>5. /\ Home(name) \in Screens /\ Home(name) # Welcome /\ Home(name).kind = "Home"
      /\ Home(name).greeting = name
  BY ScreenFacts
<1>6. /\ Len(stack') = 3
      /\ stack'[1] = stack[1] /\ stack'[2] = stack[2] /\ stack'[3] = Home(name)
  <2>1. /\ Len(stack') = Len(stack) + 1
        /\ \A i \in 1..Len(stack) : stack'[i] = stack[i]
        /\ stack'[Len(stack) + 1] = Home(name)
    BY <1>4, <1>5, PushKeeps DEF TypeInv
  <2> QED BY <1>1, <2>1
<1>7. Nested'
  <2>1. \A i \in 1..3 : stack'[i] # Speak("over")
    BY <1>1, <1>2, <1>5, <1>6, ScreenFacts
  <2> QED BY <1>1, <1>2, <1>5, <1>6, <2>1 DEF Nested, Follows
<1>8. HomeOnStack' /\ username' # NoName
  BY <1>4, <1>5, <1>6, SentinelsAreNoValues DEF HomeOnStack
<1>9. GreetsStoredUser'
  BY <1>1, <1>2, <1>4, <1>5, <1>6 DEF GreetsStoredUser
<1>10. LogoutAsksTop'
  BY <1>1 DEF SafeInv, LogoutAsksTop, OnTop
<1> QED BY <1>7, <1>8, <1>9, <1>10 DEF SafeInv, SignedInShowsHome, HomeNeedsSession

\* Popping a top screen that is not Home.
LEMMA PopStep ==
    ASSUME TypeInv, SafeInv, ~late, Len(stack) > 1, Top.kind # "Home",
           Len(stack') = Len(stack) - 1,
           \A i \in 1..(Len(stack) - 1) : stack'[i] = stack[i],
           alert' = alert, UNCHANGED <<username, late>>
    PROVE  SafeInv'
<1>1. Len(stack) \in Nat \ {0}
  BY TopFacts DEF TypeInv, TypeOK
<1>2. Nested'
  <2>1. ASSUME NEW i \in 1..(Len(stack') - 1)
        PROVE  Follows(stack'[i].kind, stack'[i + 1].kind)
    <3>1. i \in 1..(Len(stack) - 1) /\ i + 1 \in 1..(Len(stack) - 1)
      BY <1>1
    <3> QED BY <3>1 DEF SafeInv, Nested
  <2>2. ASSUME NEW i \in 1..Len(stack')
        PROVE  stack'[i] # Speak("over")
    BY <1>1 DEF SafeInv, Nested
  <2> QED BY <2>1, <2>2 DEF Nested
<1>3. HomeOnStack' <=> HomeOnStack
  BY <1>1 DEF HomeOnStack, Top
<1>4. GreetsStoredUser'
  BY <1>1 DEF SafeInv, GreetsStoredUser
<1>5. LogoutAsksTop'
  BY DEF SafeInv, LogoutAsksTop, OnTop
<1> QED BY <1>2, <1>3, <1>4, <1>5 DEF SafeInv, SignedInShowsHome, HomeNeedsSession

\* A new scene shows what the stored name asks for.
LEMMA LaunchStep ==
    ASSUME stack' = LaunchStack, alert' = NoAlert, username' = username
    PROVE  SafeInv'
<1>1. LogoutAsksTop'
  BY DEF LogoutAsksTop, NoAlert
<1>2. CASE username \in {NoName, Blank} /\ LaunchStack = <<Welcome>>
  <2>1. Len(stack') = 1 /\ stack'[1].kind = "Welcome" /\ stack'[1] # Speak("over")
    BY <1>2, ScreenFacts
  <2>2. Nested' /\ GreetsStoredUser' /\ ~HomeOnStack'
    BY <2>1 DEF Nested, GreetsStoredUser, HomeOnStack
  <2> QED BY <1>1, <1>2, <2>2 DEF SafeInv, SignedInShowsHome, HomeNeedsSession
<1>3. CASE username \notin {NoName, Blank} /\ LaunchStack = <<Welcome, Home(Blank)>>
  <2>1. /\ Len(stack') = 2
        /\ stack'[1].kind = "Welcome" /\ stack'[2].kind = "Home"
        /\ stack'[2].greeting = Blank
        /\ stack'[1] # Speak("over") /\ stack'[2] # Speak("over")
    BY <1>3, ScreenFacts
  <2>2. Nested'
    BY <2>1 DEF Nested, Follows
  <2>3. GreetsStoredUser' /\ HomeOnStack'
    BY <2>1 DEF GreetsStoredUser, HomeOnStack
  <2> QED BY <1>1, <1>3, <2>2, <2>3 DEF SafeInv, SignedInShowsHome, HomeNeedsSession
<1> QED BY <1>2, <1>3, LaunchFacts

LEMMA SafeInit == Init => SafeInv
<1> SUFFICES ASSUME Init PROVE SafeInv
  OBVIOUS
<1>1. /\ Len(stack) = 1 /\ stack[1].kind = "Welcome" /\ stack[1] # Speak("over")
      /\ username = NoName /\ alert.kind = "none"
  BY ScreenFacts DEF Init, NoAlert
<1>2. Nested /\ ~HomeOnStack /\ GreetsStoredUser
  BY <1>1 DEF Nested, HomeOnStack, GreetsStoredUser
<1> QED BY <1>1, <1>2 DEF SafeInv, SignedInShowsHome, HomeNeedsSession, LogoutAsksTop

\* One step of the phone keeps the session and the screens in agreement.
LEMMA SafeStep == TypeInv /\ SafeInv /\ [Next]_vars => SafeInv'
<1> SUFFICES ASSUME TypeInv, SafeInv, [Next]_vars, ~late' PROVE SafeInv'
  BY DEF SafeInv, Nested, SignedInShowsHome, HomeNeedsSession, GreetsStoredUser,
         LogoutAsksTop
<1>0. Len(stack) \in Nat \ {0} /\ Top \in Screens
  BY TopFacts DEF TypeInv, TypeOK
<1>1. ASSUME NEW id \in ScreenIds, NEW kind \in {"Login", "SignUp"},
             OpenAccountScreen(kind, id)
      PROVE  SafeInv'
  <2>1. Top = Welcome
    BY <1>0, <1>1, WelcomeKind DEF OpenAccountScreen, OnTop
  <2>2. Len(stack) \in 1..Len(stack) /\ stack[Len(stack)] = Welcome
    BY <1>0, <2>1 DEF Top
  <2>3. Len(stack) = 1
    <3>1. \A i \in 1..Len(stack) : stack[i] = Welcome => i = 1
      BY DEF TypeInv, RootIsWelcome
    <3> QED BY <2>2, <3>1
  <2>4. /\ AccountScreen(kind, id) \in Screens
        /\ AccountScreen(kind, id) \notin {Welcome, Speak("over")}
        /\ AccountScreen(kind, id).kind = kind
        /\ Follows(Top.kind, kind)
    BY <2>1, ScreenFacts DEF Follows
  <2>5. Push(AccountScreen(kind, id)) /\ alert = NoAlert
        /\ UNCHANGED <<username, alert, late>>
    BY <1>1 DEF OpenAccountScreen, UserCanTap
  <2> QED BY <2>3, <2>4, <2>5, PushStep
<1>2. ASSUME NEW id, NEW kind, FormRejected(kind, id)
      PROVE  SafeInv'
  BY <1>2, QuietStep DEF FormRejected, Say, Message
<1>3. ASSUME NEW id \in ScreenIds, NEW e \in Emails, NEW p \in Passwords, LogIn(id, e, p)
      PROVE  SafeInv'
  <2>1. CASE Say(Unknown(e)) \/ Say(Message("password"))
    BY <2>1, QuietStep DEF Say, Unknown, Message
  <2>2. CASE /\ known[id][e] # Absent
             /\ SignIn("Login", id, known[id][e].name)
             /\ UNCHANGED <<alert, dialog, graph, known, cloud, late>>
    <3>1. known[id][e].name \in Names
      BY <2>2, AccountFacts DEF TypeInv, TypeOK
    <3>2. IsTop("Login", id)
      BY <1>3 DEF LogIn
    <3> QED BY <2>2, <3>1, <3>2, SignInStep
  <2> QED BY <1>3, <2>1, <2>2 DEF LogIn
<1>4. ASSUME NEW id \in ScreenIds, NEW a \in FormAccounts, SignUp(id, a)
      PROVE  SafeInv'
  <2>1. CASE Say(Message("taken"))
    BY <2>1, QuietStep DEF Say, Message
  <2>2. CASE /\ SignIn("SignUp", id, a.name)
             /\ UNCHANGED <<alert, dialog, graph, known, late>>
    <3>1. a.name \in Names
      BY AccountFacts DEF Accounts
    <3>2. IsTop("SignUp", id)
      BY <1>4 DEF SignUp
    <3> QED BY <2>2, <3>1, <3>2, SignInStep
  <2> QED BY <1>4, <2>1, <2>2 DEF SignUp
<1>5. ASSUME NEW id \in ScreenIds, NEW p \in FbProfiles, GraphAnswered(id, p)
      PROVE  SafeInv'
  <2>1. CASE /\ \/ SignIn("Login", id, p.name)
                \/ /\ known[id][p.email] # Absent
                   /\ SignIn("Login", id, known[id][p.email].name)
             /\ late' = (late \/ ~IsTop("Login", id))
             /\ UNCHANGED alert
    <3>1. ~late /\ IsTop("Login", id)
      BY <2>1
    <3>2. p.name \in Names /\ p.email \in Emails
      BY AccountFacts
    <3>3. known[id][p.email] # Absent => known[id][p.email].name \in Names
      BY <3>2, AccountFacts DEF TypeInv, TypeOK
    <3> QED BY <2>1, <3>1, <3>2, <3>3, SignInStep
  <2>2. CASE /\ alert' \in {alert, Message("notFacebook")}
             /\ UNCHANGED <<stack, username, cloud, late>>
    BY <2>2, QuietStep DEF Message
  <2> QED BY <1>5, <2>1, <2>2 DEF GraphAnswered
<1>6. ASSUME NEW id \in ScreenIds, FacebookTapped(id) \/ GraphFailed(id) \/ Snapshot(id)
      PROVE  SafeInv'
  BY <1>6, QuietStep DEF FacebookTapped, GraphFailed, Snapshot, phone
<1>7. ASSUME FacebookGranted \/ FacebookRefused
      PROVE  SafeInv'
  BY <1>7, QuietStep DEF FacebookGranted, FacebookRefused
<1>8. ASSUME NEW a, \/ WriteReachesServer(a) \/ OtherPhoneRegisters(a)
                    \/ WriteRefused(a) \/ AccountDeleted(a)
      PROVE  SafeInv'
  BY <1>8, QuietStep
     DEF WriteReachesServer, OtherPhoneRegisters, WriteRefused, AccountDeleted, Withdraw, phone
<1>9. ASSUME Back
      PROVE  SafeInv'
  <2>1. Len(stack) > 1 /\ stack' = Popped(stack)
    BY <1>0, <1>9, ScreenFacts DEF Back, Pop, Top, TypeInv, RootIsWelcome
  <2>2. /\ Len(stack') = Len(stack) - 1
        /\ \A i \in 1..(Len(stack) - 1) : stack'[i] = stack[i]
    BY <2>1, PopFacts DEF TypeInv, TypeOK
  <2> QED BY <1>9, <2>1, <2>2, PopStep DEF Back
<1>10. ASSUME OpenButtons \/ OpenPlay \/ TapTile
       PROVE  SafeInv'
  <2>1. PICK below \in {"Home", "Buttons"},
             screen \in {Buttons, Play, Speak("speaking")} :
            Open(below, screen) /\ Follows(below, screen.kind)
    BY <1>10, ScreenFacts DEF OpenButtons, OpenPlay, TapTile, Follows
  <2>2. /\ screen \in Screens /\ screen \notin {Welcome, Speak("over")}
        /\ screen.kind \in {"Buttons", "Play", "Speak"}
    BY ScreenFacts
  <2>3. /\ Push(screen) /\ Top.kind = below /\ alert = NoAlert
        /\ UNCHANGED <<username, alert, late>>
    BY <2>1 DEF Open, OnTop, UserCanTap
  <2> QED BY <2>1, <2>2, <2>3, PushStep
<1>11. ASSUME NEW i \in 1..Len(stack), SpeechFinished(i)
       PROVE  SafeInv'
  <2>1. stack[i].kind = "Speak" /\ ~late /\ UNCHANGED <<username, late>>
    BY <1>11, ScreenFacts DEF SpeechFinished
  <2>2. i = Len(stack) /\ Top.kind = "Speak"
    BY <2>1, SpeakOnTop DEF Top
  <2>3. /\ Len(stack) > 1
        /\ Len(stack') = Len(stack) - 1
        /\ \A j \in 1..(Len(stack) - 1) : stack'[j] = stack[j]
    BY <1>0, <1>11, <2>2, SpeechPops DEF TypeInv
  <2>4. alert' = alert
    BY <1>11, <2>1, <2>2 DEF SpeechFinished, SafeInv, LogoutAsksTop, OnTop
  <2> QED BY <2>1, <2>2, <2>3, <2>4, PopStep
<1>12. ASSUME LogoutTapped
       PROVE  SafeInv'
  <2>1. /\ UNCHANGED <<stack, username, late>>
        /\ OnTop("Home") /\ alert'.at = Len(stack)
    BY <1>12 DEF LogoutTapped, Say, AskLogout
  <2>2. LogoutAsksTop'
    BY <2>1 DEF LogoutAsksTop, OnTop, Top
  <2> QED BY <2>1, <2>2 DEF SafeInv, Nested, SignedInShowsHome, HomeNeedsSession,
                            GreetsStoredUser, HomeOnStack
<1>13. ASSUME LogoutConfirmed
       PROVE  SafeInv'
  <2>1. alert.kind = "logout" /\ alert'.kind = "none" /\ username' = NoName
    BY <1>13 DEF LogoutConfirmed, NoAlert
  <2>2. CASE stack' = SubSeq(stack, 1, AtWelcome(stack))
    <3>1. /\ Len(stack') = 1 /\ stack'[1] = stack[1]
      <4>1. stack' = SubSeq(stack, 1, 1)
        BY <2>2, WelcomeIsFound DEF TypeInv
      <4>2. stack \in Seq(Screens) /\ 1 \in 1..Len(stack)
        BY <1>0 DEF TypeInv, TypeOK
      <4> QED BY <4>1, <4>2, CutFacts
    <3>2. stack[1].kind = "Welcome" /\ stack[1] # Speak("over")
      BY <1>0, ScreenFacts DEF TypeInv, RootIsWelcome
    <3>3. Nested' /\ ~HomeOnStack' /\ GreetsStoredUser'
      BY <3>1, <3>2 DEF Nested, HomeOnStack, GreetsStoredUser
    <3> QED BY <2>1, <3>3 DEF SafeInv, SignedInShowsHome, HomeNeedsSession, LogoutAsksTop
  <2>3. CASE alert.at = 0 /\ UNCHANGED <<stack, late>>
    BY <1>0, <2>1, <2>3 DEF SafeInv, LogoutAsksTop
  <2> QED BY <1>13, <2>2, <2>3 DEF LogoutConfirmed
<1>14. ASSUME AlertDismissed
       PROVE  SafeInv'
  BY <1>14, QuietStep DEF AlertDismissed, Say, NoAlert
<1>15. ASSUME SceneReconnects \/ Relaunch
       PROVE  SafeInv'
  BY <1>15, LaunchStep DEF SceneReconnects, Relaunch
<1>16. CASE UNCHANGED vars
  BY <1>16, QuietStep DEF vars
<1> QED BY <1>1, <1>2, <1>3, <1>4, <1>5, <1>6, <1>7, <1>8, <1>9, <1>10, <1>11, <1>12,
           <1>13, <1>14, <1>15, <1>16
        DEF Next, AccountStep, FacebookStep, DatabaseStep, SpeechStep

LEMMA SafeInvHolds == Spec => [](TypeInv /\ SafeInv)
<1> QED BY TypeInit, TypeStep, SafeInit, SafeStep, PTL DEF Spec

-----------------------------------------------------------------------------
(* The safety properties.                                                  *)

\* The stack is a path of the storyboard, and a Speak screen on it speaks,
\* until Facebook answers behind another screen.
THEOREM StackIsNested == Spec => []Nested
BY SafeInvHolds, PTL DEF SafeInv

\* Nobody whose name is stored is left without a Home.
THEOREM SessionIsShown == Spec => []SignedInShowsHome
BY SafeInvHolds, PTL DEF SafeInv

\* Nobody sees Home, or a screen above it, without a stored session.
THEOREM HomeIsProtected == Spec => []HomeNeedsSession
BY SafeInvHolds, PTL DEF SafeInv

\* Home greets the stored user or nobody.
THEOREM GreetingIsRight == Spec => []GreetsStoredUser
BY SafeInvHolds, PTL DEF SafeInv

\* The Home that asks about a logout is on top while it asks.
THEOREM LogoutIsAskedOnTop == Spec => []LogoutAsksTop
BY SafeInvHolds, PTL DEF SafeInv

\* A step that replaces one stored user by another is a sign-in behind another
\* screen.
LEMMA SwitchStep ==
    TypeInv /\ SafeInv /\ [Next]_vars
        => [{username, username'} \cap {NoName, Blank} = {} /\ ~late'
                => username' = username]_vars
<1> SUFFICES ASSUME TypeInv, SafeInv, [Next]_vars, ~late',
                    {username, username'} \cap {NoName, Blank} = {}
             PROVE  username' = username
  OBVIOUS
<1>1. ASSUME NEW id, NEW kind \in {"Login", "SignUp"}, IsTop(kind, id), ~late
      PROVE  FALSE
  <2>1. ~HomeOnStack
    BY <1>1, AccountScreenOnTop, ScreenFacts DEF IsTop, AccountScreen
  <2> QED BY <1>1, <2>1 DEF SafeInv, SignedInShowsHome
<1>2. ASSUME NEW id \in ScreenIds, AccountStep(id)
      PROVE  username' = username
  <2>1. CASE \E kind \in {"Login", "SignUp"} :
                OpenAccountScreen(kind, id) \/ FormRejected(kind, id)
    BY <2>1 DEF OpenAccountScreen, FormRejected, Say
  <2>2. CASE \E e \in Emails, p \in Passwords : LogIn(id, e, p)
    BY <1>1, <2>2 DEF LogIn, Say
  <2>3. CASE \E a \in FormAccounts : SignUp(id, a)
    BY <1>1, <2>3 DEF SignUp, Say
  <2> QED BY <1>2, <2>1, <2>2, <2>3 DEF AccountStep
<1>3. ASSUME NEW id \in ScreenIds, FacebookStep(id)
      PROVE  username' = username
  BY <1>1, <1>3 DEF FacebookStep, FacebookTapped, GraphFailed, GraphAnswered
<1>4. CASE LogoutConfirmed
  BY <1>4 DEF LogoutConfirmed
<1>5. CASE \/ FacebookGranted \/ FacebookRefused \/ DatabaseStep
           \/ Back \/ OpenButtons \/ OpenPlay \/ TapTile \/ SpeechStep
           \/ LogoutTapped \/ AlertDismissed \/ SceneReconnects \/ Relaunch
           \/ UNCHANGED vars
  BY <1>5 DEF FacebookGranted, FacebookRefused, DatabaseStep, Snapshot,
              WriteReachesServer, OtherPhoneRegisters, WriteRefused, AccountDeleted,
              Withdraw, Back, OpenButtons, OpenPlay,
              TapTile, Open, SpeechStep, SpeechFinished, LogoutTapped,
              AlertDismissed, Say, SceneReconnects, Relaunch, vars
<1> QED BY <1>2, <1>3, <1>4, <1>5 DEF Next

\* The stored user is never replaced by another one without a logout between.
THEOREM NoUserIsReplaced == Spec => NoSilentSwitch
BY SafeInvHolds, SwitchStep, PTL DEF Spec, NoSilentSwitch

\* Only a confirmed logout forgets the user, and it ends at Welcome.
LEMMA LogoutStep ==
    TypeInv /\ SafeInv /\ [Next]_vars
        => [username # NoName /\ username' = NoName /\ ~late
                => stack' = <<Welcome>>]_vars
<1> SUFFICES ASSUME TypeInv, SafeInv, [Next]_vars,
                    username # NoName, username' = NoName, ~late
             PROVE  stack' = <<Welcome>>
  OBVIOUS
<1>1. ASSUME NEW kind, NEW id, NEW name \in Names, SignIn(kind, id, name)
      PROVE  FALSE
  BY <1>1, SentinelsAreNoValues DEF SignIn
<1>2. ASSUME NEW id \in ScreenIds, AccountStep(id)
      PROVE  FALSE
  <2>1. CASE \E kind \in {"Login", "SignUp"} :
                OpenAccountScreen(kind, id) \/ FormRejected(kind, id)
    BY <2>1 DEF OpenAccountScreen, FormRejected, Say
  <2>2. ASSUME NEW e \in Emails, NEW p \in Passwords, LogIn(id, e, p)
        PROVE  FALSE
    <3>1. known[id][e] # Absent => known[id][e].name \in Names
      BY AccountFacts DEF TypeInv, TypeOK
    <3> QED BY <1>1, <2>2, <3>1 DEF LogIn, Say
  <2>3. ASSUME NEW a \in FormAccounts, SignUp(id, a)
        PROVE  FALSE
    <3>1. a.name \in Names
      BY AccountFacts DEF Accounts
    <3> QED BY <1>1, <2>3, <3>1 DEF SignUp, Say
  <2> QED BY <1>2, <2>1, <2>2, <2>3 DEF AccountStep
<1>3. ASSUME NEW id \in ScreenIds, FacebookStep(id)
      PROVE  FALSE
  <2>1. ASSUME NEW p \in FbProfiles, GraphAnswered(id, p)
        PROVE  FALSE
    <3>1. p.name \in Names /\ p.email \in Emails
      BY AccountFacts
    <3>2. known[id][p.email] # Absent => known[id][p.email].name \in Names
      BY <3>1, AccountFacts DEF TypeInv, TypeOK
    <3> QED BY <1>1, <2>1, <3>1, <3>2 DEF GraphAnswered
  <2> QED BY <1>3, <2>1 DEF FacebookStep, FacebookTapped, GraphFailed
<1>4. CASE LogoutConfirmed
  <2>1. alert.at = Len(stack) /\ Len(stack) \in Nat \ {0}
    BY <1>4, TopFacts DEF LogoutConfirmed, SafeInv, LogoutAsksTop, TypeInv, TypeOK
  <2>2. stack' = SubSeq(stack, 1, 1)
    BY <1>4, <2>1, WelcomeIsFound DEF LogoutConfirmed, TypeInv
  <2>3. stack \in Seq(Screens) /\ 1 \in 1..Len(stack) /\ stack[1] = Welcome
    BY <2>1 DEF TypeInv, TypeOK, RootIsWelcome
  <2>4. /\ stack' \in Seq(Screens) /\ Len(stack') = 1 /\ stack'[1] = Welcome
    BY <2>2, <2>3, CutFacts
  <2> QED BY <2>4
<1>5. CASE \/ FacebookGranted \/ FacebookRefused \/ DatabaseStep
           \/ Back \/ OpenButtons \/ OpenPlay \/ TapTile \/ SpeechStep
           \/ LogoutTapped \/ AlertDismissed \/ SceneReconnects \/ Relaunch
           \/ UNCHANGED vars
  BY <1>5 DEF FacebookGranted, FacebookRefused, DatabaseStep, Snapshot,
              WriteReachesServer, OtherPhoneRegisters, WriteRefused, AccountDeleted,
              Withdraw, Back, OpenButtons, OpenPlay,
              TapTile, Open, SpeechStep, SpeechFinished, LogoutTapped,
              AlertDismissed, Say, SceneReconnects, Relaunch, vars
<1> QED BY <1>2, <1>3, <1>4, <1>5 DEF Next

\* A logout leads back to Welcome and to nothing else.
THEOREM LogoutLeadsToWelcome == Spec => LogoutReturnsToWelcome
BY SafeInvHolds, LogoutStep, PTL DEF Spec, LogoutReturnsToWelcome

-----------------------------------------------------------------------------
(* A phone implements SignedIn.                                            *)

\* Pushing a screen other than Home, or popping one, changes no Home.
LEMMA PushLeavesHome ==
    ASSUME TypeInv, NEW screen, Push(screen), screen \in Screens, screen.kind # "Home"
    PROVE  HomeOnStack' <=> HomeOnStack
<1>1. /\ Len(stack) \in Nat /\ Len(stack') = Len(stack) + 1
      /\ \A i \in 1..Len(stack) : stack'[i] = stack[i]
      /\ stack'[Len(stack) + 1] = screen
  BY PushFacts, TopFacts DEF TypeInv, TypeOK, Push
<1> QED BY <1>1 DEF HomeOnStack

LEMMA PopLeavesHome ==
    ASSUME TypeInv, Top.kind # "Home", Len(stack') = Len(stack) - 1,
           \A i \in 1..(Len(stack) - 1) : stack'[i] = stack[i]
    PROVE  HomeOnStack' <=> HomeOnStack
<1>1. Len(stack) \in Nat \ {0}
  BY TopFacts DEF TypeInv, TypeOK
<1> QED BY <1>1 DEF HomeOnStack, Top

\* A sign-in on the account screen on top is the way in.
LEMMA SignInIsWayIn ==
    ASSUME TypeInv, SafeInv, ~late, ~late', NEW kind \in {"Login", "SignUp"},
           NEW id \in ScreenIds, NEW name \in Names,
           IsTop(kind, id), SignIn(kind, id, name)
    PROVE  Abstract!WayIn(name)
<1>1. Top.kind = kind
  BY ScreenFacts DEF IsTop
<1>2. Len(stack) = 2 /\ ~HomeOnStack
  BY <1>1, AccountScreenOnTop
<1>3. OnStack(kind, id)
  BY <1>2 DEF OnStack, IsTop, Top
<1>4. Home(name) \in Screens /\ Home(name).kind = "Home"
  BY ScreenFacts
<1>5. Push(Home(name)) /\ username' = name
  BY <1>3 DEF SignIn
<1>6. Len(stack') = 3 /\ stack'[3] = Home(name)
  <2>1. stack \in Seq(Screens) /\ stack' = Append(stack, Home(name))
    BY <1>5 DEF TypeInv, TypeOK, Push
  <2>2. Len(stack') = Len(stack) + 1 /\ stack'[Len(stack) + 1] = Home(name)
    BY <1>4, <2>1, PushFacts
  <2> QED BY <1>2, <2>2
<1>7. HomeOnStack'
  BY <1>4, <1>6 DEF HomeOnStack
<1> QED BY <1>2, <1>5, <1>7 DEF Abstract!WayIn, Place

\* A new scene is a restart.
LEMMA LaunchIsRestart ==
    ASSUME stack' = LaunchStack, username' = username, ~late'
    PROVE  Abstract!Restart
<1>1. CASE username \in {NoName, Blank} /\ LaunchStack = <<Welcome>>
  <2>1. Len(stack') = 1 /\ stack'[1].kind = "Welcome"
    BY <1>1, ScreenFacts
  <2> QED BY <1>1, <2>1 DEF Abstract!Restart, Abstract!Home, Place, HomeOnStack
<1>2. CASE username \notin {NoName, Blank} /\ LaunchStack = <<Welcome, Home(Blank)>>
  <2>1. Len(stack') = 2 /\ stack'[2].kind = "Home"
    BY <1>2, ScreenFacts
  <2> QED BY <1>2, <2>1 DEF Abstract!Restart, Abstract!Home, Place, HomeOnStack
<1> QED BY <1>1, <1>2, LaunchFacts

\* On a calm phone a step other than these leaves the stored name and Home.
LEMMA QuietIsStutter ==
    ASSUME TypeInv, SafeInv, ~late, ~late',
           \/ \E id \in ScreenIds, kind \in {"Login", "SignUp"} :
                 OpenAccountScreen(kind, id) \/ FormRejected(kind, id)
           \/ Back \/ OpenButtons \/ OpenPlay \/ TapTile \/ SpeechStep
           \/ DatabaseStep \/ FacebookGranted \/ FacebookRefused
           \/ \E id \in ScreenIds : FacebookTapped(id) \/ GraphFailed(id)
           \/ LogoutTapped \/ AlertDismissed \/ UNCHANGED vars
    PROVE  UNCHANGED <<username, Place>>
<1>0. Len(stack) \in Nat \ {0} /\ Top \in Screens
  BY TopFacts DEF TypeInv, TypeOK
<1>1. SUFFICES UNCHANGED username /\ (HomeOnStack' <=> HomeOnStack)
  BY DEF Place
<1>2. ASSUME NEW id \in ScreenIds, NEW kind \in {"Login", "SignUp"},
             OpenAccountScreen(kind, id)
      PROVE  UNCHANGED username /\ (HomeOnStack' <=> HomeOnStack)
  <2>1. /\ AccountScreen(kind, id) \in Screens
        /\ AccountScreen(kind, id).kind # "Home"
    BY ScreenFacts
  <2> QED BY <1>2, <2>1, PushLeavesHome DEF OpenAccountScreen
<1>3. ASSUME UNCHANGED stack, UNCHANGED username
      PROVE  UNCHANGED username /\ (HomeOnStack' <=> HomeOnStack)
  BY <1>3 DEF HomeOnStack
<1>4. CASE Back
  <2>1. Len(stack) > 1 /\ stack' = Popped(stack) /\ Top.kind # "Home"
    BY <1>0, <1>4, ScreenFacts DEF Back, Pop, Top, TypeInv, RootIsWelcome
  <2>2. /\ Len(stack') = Len(stack) - 1
        /\ \A i \in 1..(Len(stack) - 1) : stack'[i] = stack[i]
    BY <2>1, PopFacts DEF TypeInv, TypeOK
  <2> QED BY <1>4, <2>1, <2>2, PopLeavesHome DEF Back
<1>5. CASE OpenButtons \/ OpenPlay \/ TapTile
  <2>1. PICK screen \in {Buttons, Play, Speak("speaking")} :
          Push(screen) /\ UNCHANGED username
    BY <1>5 DEF OpenButtons, OpenPlay, TapTile, Open
  <2>2. screen \in Screens /\ screen.kind # "Home"
    BY ScreenFacts
  <2> QED BY <2>1, <2>2, PushLeavesHome
<1>6. CASE SpeechStep
  <2>1. PICK i \in 1..Len(stack) : SpeechFinished(i)
    BY <1>6 DEF SpeechStep
  <2>2. stack[i].kind = "Speak"
    BY <2>1, ScreenFacts DEF SpeechFinished
  <2>3. i = Len(stack) /\ Top.kind = "Speak"
    BY <2>2, SpeakOnTop DEF Top
  <2>4. /\ Len(stack') = Len(stack) - 1
        /\ \A j \in 1..(Len(stack) - 1) : stack'[j] = stack[j]
    BY <1>0, <2>1, <2>3, SpeechPops DEF TypeInv
  <2>5. UNCHANGED username
    BY <2>1 DEF SpeechFinished
  <2> QED BY <2>3, <2>4, <2>5, PopLeavesHome
<1>7. CASE \/ \E id \in ScreenIds, kind \in {"Login", "SignUp"} : FormRejected(kind, id)
           \/ DatabaseStep \/ FacebookGranted \/ FacebookRefused
           \/ \E id \in ScreenIds : FacebookTapped(id) \/ GraphFailed(id)
           \/ LogoutTapped \/ AlertDismissed \/ UNCHANGED vars
  BY <1>3, <1>7 DEF FormRejected, Say, DatabaseStep, Snapshot, WriteReachesServer,
       OtherPhoneRegisters, WriteRefused, AccountDeleted, Withdraw, FacebookGranted,
       FacebookRefused, FacebookTapped, GraphFailed, LogoutTapped, AlertDismissed, phone,
       vars
<1> QED BY <1>2, <1>4, <1>5, <1>6, <1>7

\* A confirmed logout that leaves the phone calm is the way out.
LEMMA LogoutIsWayOut ==
    ASSUME TypeInv, SafeInv, SafeInv', ~late', LogoutConfirmed
    PROVE  Abstract!WayOut
<1>1. username' = NoName /\ ~HomeOnStack'
  BY DEF LogoutConfirmed, SafeInv, HomeNeedsSession
<1>2. CASE late
  BY <1>1, <1>2 DEF Abstract!WayOut, Place
<1>3. CASE ~late
  <2>1. OnTop("Home") /\ Len(stack) \in 1..Len(stack)
    BY <1>3, TopFacts DEF LogoutConfirmed, SafeInv, LogoutAsksTop, TypeInv, TypeOK
  <2>2. HomeOnStack
    BY <2>1 DEF OnTop, Top, HomeOnStack
  <2> QED BY <1>1, <1>3, <2>2 DEF Abstract!WayOut, Place
<1> QED BY <1>2, <1>3

\* Every step of the phone is a step of the session, or none.
LEMMA SessionStep ==
    TypeInv /\ SafeInv /\ TypeInv' /\ SafeInv' /\ [Next]_vars
        => [Abstract!Next]_<<username, Place>>
<1> SUFFICES ASSUME TypeInv, SafeInv, TypeInv', SafeInv', [Next]_vars
             PROVE  Abstract!Next \/ UNCHANGED <<username, Place>>
  OBVIOUS
<1>1. ASSUME NEW name \in Names, Abstract!WayIn(name) \/ Abstract!LateAnswer(name)
      PROVE  Abstract!Next
  BY <1>1 DEF Abstract!Next
<1>2. CASE late /\ late'
  <2>1. username' \in Names \cup {Blank, NoName}
    BY DEF TypeInv, TypeOK
  <2> QED BY <1>2, <2>1 DEF Abstract!Next, Abstract!Wander, Place
<1>3. ASSUME NEW id \in ScreenIds, AccountStep(id), ~late, ~late'
      PROVE  Abstract!Next \/ UNCHANGED <<username, Place>>
  <2>1. ASSUME NEW e \in Emails, NEW p \in Passwords, LogIn(id, e, p)
        PROVE  Abstract!Next \/ UNCHANGED <<username, Place>>
    <3>1. CASE UNCHANGED <<stack, username, late>>
      BY <3>1 DEF Place, HomeOnStack
    <3>2. CASE known[id][e] # Absent /\ SignIn("Login", id, known[id][e].name)
      <4>1. known[id][e].name \in Names /\ IsTop("Login", id)
        BY <2>1, <3>2, AccountFacts DEF LogIn, TypeInv, TypeOK
      <4> QED BY <1>1, <1>3, <3>2, <4>1, SignInIsWayIn
    <3> QED BY <2>1, <3>1, <3>2 DEF LogIn, Say
  <2>2. ASSUME NEW a \in FormAccounts, SignUp(id, a)
        PROVE  Abstract!Next \/ UNCHANGED <<username, Place>>
    <3>1. CASE UNCHANGED <<stack, username, late>>
      BY <3>1 DEF Place, HomeOnStack
    <3>2. CASE SignIn("SignUp", id, a.name)
      <4>1. a.name \in Names /\ IsTop("SignUp", id)
        BY <2>2, AccountFacts DEF SignUp, Accounts
      <4> QED BY <1>1, <1>3, <3>2, <4>1, SignInIsWayIn
    <3> QED BY <2>2, <3>1, <3>2 DEF SignUp, Say
  <2> QED BY <1>3, <2>1, <2>2, QuietIsStutter DEF AccountStep
<1>4. ASSUME NEW id \in ScreenIds, NEW p \in FbProfiles, GraphAnswered(id, p), ~late
      PROVE  Abstract!Next \/ UNCHANGED <<username, Place>>
  <2>1. CASE UNCHANGED <<stack, username, late>>
    BY <2>1 DEF Place, HomeOnStack
  <2>2. ASSUME NEW name \in Names, SignIn("Login", id, name),
               late' = (late \/ ~IsTop("Login", id))
        PROVE  Abstract!Next
    <3>1. CASE late'
      <4>1. username' = name /\ Place' = "astray"
        BY <2>2, <3>1 DEF SignIn, Place
      <4> QED BY <1>1, <4>1 DEF Abstract!LateAnswer
    <3>2. CASE ~late'
      BY <1>1, <1>4, <2>2, <3>2, SignInIsWayIn
    <3> QED BY <3>1, <3>2
  <2>3. p.name \in Names /\ p.email \in Emails
    BY AccountFacts
  <2>4. known[id][p.email] # Absent => known[id][p.email].name \in Names
    BY <2>3, AccountFacts DEF TypeInv, TypeOK
  <2> QED BY <1>4, <2>1, <2>2, <2>3, <2>4 DEF GraphAnswered
<1>5. CASE LogoutConfirmed /\ ~late'
  BY <1>5, LogoutIsWayOut DEF Abstract!Next
<1>6. CASE SceneReconnects \/ Relaunch
  BY <1>6, LaunchIsRestart DEF SceneReconnects, Relaunch, Abstract!Next
<1>7. ASSUME late # late'
      PROVE  \/ LogoutConfirmed \/ SceneReconnects \/ Relaunch
             \/ \E id \in ScreenIds, p \in FbProfiles : GraphAnswered(id, p)
  BY <1>7 DEF Next, AccountStep, OpenAccountScreen, FormRejected, LogIn, SignUp, Say,
       FacebookStep, FacebookTapped, GraphFailed, FacebookGranted, FacebookRefused,
       DatabaseStep, Snapshot, WriteReachesServer, OtherPhoneRegisters,
       WriteRefused, AccountDeleted, Withdraw, Back,
       OpenButtons, OpenPlay, TapTile, Open, SpeechStep, SpeechFinished, LogoutTapped,
       AlertDismissed, vars
<1>8. late \in BOOLEAN /\ late' \in BOOLEAN
  BY DEF TypeInv, TypeOK
<1>9. CASE late /\ ~late'
  <2>1. ASSUME NEW id, NEW p, GraphAnswered(id, p) PROVE FALSE
    BY <1>9, <2>1 DEF GraphAnswered
  <2> QED BY <1>5, <1>6, <1>7, <1>8, <1>9, <2>1
<1>10. CASE ~late /\ late'
  <2>1. LogoutConfirmed => FALSE
    BY <1>10 DEF LogoutConfirmed
  <2> QED BY <1>4, <1>6, <1>7, <1>8, <1>10, <2>1
<1>11. CASE ~late /\ ~late'
  BY <1>3, <1>4, <1>5, <1>6, <1>11, QuietIsStutter DEF Next, FacebookStep
<1> QED BY <1>2, <1>8, <1>9, <1>10, <1>11

LEMMA SessionStart == Init => Abstract!Init
<1> SUFFICES ASSUME Init PROVE Abstract!Init
  OBVIOUS
<1>1. Len(stack) = 1 /\ stack[1].kind = "Welcome" /\ username = NoName /\ late = FALSE
  BY ScreenFacts DEF Init
<1> QED BY <1>1 DEF Abstract!Init, Place, HomeOnStack

\* The phone implements the session: one way in, one way out, and a restart
\* that finds the place again, for any accounts and any number of screens.
THEOREM PhoneImplementsSession == Spec => ImplementsSignedIn
<1>1. Spec => [](TypeInv /\ SafeInv)
  BY SafeInvHolds
<1>2. TypeInv /\ SafeInv /\ TypeInv' /\ SafeInv' /\ [Next]_vars
        => [Abstract!Next]_(Abstract!session)
  BY SessionStep DEF Abstract!session
<1> QED BY <1>1, <1>2, SessionStart, PTL DEF Spec, ImplementsSignedIn, Abstract!Spec

-----------------------------------------------------------------------------
(* The lists of accounts lag behind the database, through refusals and     *)
(* deletions, but never invent: a name without an account can only come    *)
(* from a list that held the account when it was lost.                     *)

\* The accounts that a list may hold.
Traceable(id) == server \cup outbox \cup withdrawn[id]

\* A step that touches no list and loses no account.
LEMMA ListsStay ==
    ASSUME KnownWasRegistered, known' = known,
           \A id \in ScreenIds : Traceable(id) \subseteq Traceable(id)'
    PROVE  KnownWasRegistered'
BY DEF KnownWasRegistered, Traceable

\* A step that starts one list anew and loses no account.
LEMMA FreshListIsTraceable ==
    ASSUME TypeInv, KnownWasRegistered, NEW id \in ScreenIds,
           known' = [known EXCEPT ![id] = NothingKnown],
           withdrawn' = [withdrawn EXCEPT ![id] = {}],
           UNCHANGED <<server, outbox>>
    PROVE  KnownWasRegistered'
<1> SUFFICES ASSUME NEW i \in ScreenIds, NEW e \in Emails, known'[i][e] # Absent
             PROVE  /\ known'[i][e] \in server' \cup outbox' \cup withdrawn'[i]
                    /\ known'[i][e].email = e
  BY DEF KnownWasRegistered
<1>1. NothingKnown[e] = Absent
  BY DEF NothingKnown
<1>2. known'[i] = IF i = id THEN NothingKnown ELSE known[i]
  BY DEF TypeInv, TypeOK
<1>3. i # id
  BY <1>1, <1>2
<1>4. known'[i] = known[i] /\ withdrawn'[i] = withdrawn[i]
  BY <1>2, <1>3 DEF TypeInv, TypeOK
<1> QED BY <1>4 DEF KnownWasRegistered

\* An account that is refused or deleted is withdrawn from the lists that hold it.
LEMMA LossIsTraced ==
    ASSUME KnownWasRegistered, NEW account, Withdraw(account),
           server \cup outbox \subseteq server' \cup outbox' \cup {account}
    PROVE  KnownWasRegistered'
<1> SUFFICES ASSUME NEW id \in ScreenIds, NEW e \in Emails, known[id][e] # Absent
             PROVE  /\ known[id][e] \in server' \cup outbox' \cup withdrawn'[id]
                    /\ known[id][e].email = e
  BY DEF KnownWasRegistered, Withdraw
<1>1. /\ known[id][e] \in server \cup outbox \cup withdrawn[id]
      /\ known[id][e].email = e
  BY DEF KnownWasRegistered
<1>2. withdrawn'[id] = IF Holds(id, account) THEN withdrawn[id] \cup {account}
                       ELSE withdrawn[id]
  BY DEF Withdraw
<1>3. CASE known[id][e] = account
  BY <1>1, <1>2, <1>3 DEF Holds
<1>4. CASE known[id][e] # account
  BY <1>1, <1>2, <1>4
<1> QED BY <1>3, <1>4

LEMMA RegisteredInit == Init => KnownWasRegistered
BY DEF Init, KnownWasRegistered, NothingKnown

\* One step keeps every list within the accounts that are, will be or were stored.
LEMMA RegisteredStep == TypeInv /\ KnownWasRegistered /\ [Next]_vars => KnownWasRegistered'
<1> SUFFICES ASSUME TypeInv, KnownWasRegistered, [Next]_vars PROVE KnownWasRegistered'
  OBVIOUS
<1>1. ASSUME NEW id \in ScreenIds, AccountStep(id)
      PROVE  KnownWasRegistered'
  <2>1. ASSUME NEW kind \in {"Login", "SignUp"}, OpenAccountScreen(kind, id)
        PROVE  KnownWasRegistered'
    BY <2>1, FreshListIsTraceable DEF OpenAccountScreen
  <2>2. ASSUME NEW kind, FormRejected(kind, id)
        PROVE  KnownWasRegistered'
    BY <2>2, ListsStay DEF FormRejected, Say, cloud, Traceable
  <2>3. ASSUME NEW e, NEW p, LogIn(id, e, p)
        PROVE  KnownWasRegistered'
    BY <2>3, ListsStay DEF LogIn, Say, cloud, Traceable
  <2>4. ASSUME NEW a, SignUp(id, a)
        PROVE  KnownWasRegistered'
    BY <2>4, ListsStay DEF SignUp, Say, Register, cloud, Traceable
  <2> QED BY <1>1, <2>1, <2>2, <2>3, <2>4 DEF AccountStep
<1>2. ASSUME NEW id \in ScreenIds, FacebookStep(id)
      PROVE  KnownWasRegistered'
  BY <1>2, ListsStay
     DEF FacebookStep, FacebookTapped, GraphAnswered, GraphFailed, Register, cloud, Traceable
<1>3. ASSUME NEW id \in ScreenIds, Snapshot(id)
      PROVE  KnownWasRegistered'
  <2>1. PICK list \in [Emails -> server \cup outbox \cup {Absent}] :
            /\ \A e \in Emails : list[e] \in FirstAfterSnapshot(id, e)
            /\ known' = [known EXCEPT ![id] = list]
    BY <1>3 DEF Snapshot
  <2> SUFFICES ASSUME NEW i \in ScreenIds, NEW e \in Emails, known'[i][e] # Absent
               PROVE  /\ known'[i][e] \in server \cup outbox \cup withdrawn[i]
                      /\ known'[i][e].email = e
    BY <1>3 DEF KnownWasRegistered, Snapshot, cloud
  <2>2. known'[i] = IF i = id THEN list ELSE known[i]
    BY <2>1 DEF TypeInv, TypeOK
  <2>3. list[e] # Absent => /\ list[e] \in server \cup outbox \cup withdrawn[id]
                            /\ list[e].email = e
    BY <2>1 DEF FirstAfterSnapshot, KnownWasRegistered
  <2> QED BY <2>2, <2>3 DEF KnownWasRegistered
<1>4. ASSUME NEW a \in outbox, WriteReachesServer(a)
      PROVE  KnownWasRegistered'
  BY <1>4, ListsStay DEF WriteReachesServer, Traceable
<1>5. ASSUME NEW a, OtherPhoneRegisters(a)
      PROVE  KnownWasRegistered'
  BY <1>5, ListsStay DEF OtherPhoneRegisters, Traceable
<1>6. ASSUME NEW a \in LostAccounts, WriteRefused(a) \/ AccountDeleted(a)
      PROVE  KnownWasRegistered'
  BY <1>6, LossIsTraced DEF WriteRefused, AccountDeleted
<1>7. CASE Relaunch
  BY <1>7 DEF Relaunch, KnownWasRegistered, NothingKnown
<1>8. CASE \/ FacebookGranted \/ FacebookRefused
           \/ Back \/ OpenButtons \/ OpenPlay \/ TapTile \/ SpeechStep
           \/ LogoutTapped \/ LogoutConfirmed \/ AlertDismissed \/ SceneReconnects
           \/ UNCHANGED vars
  <2>1. known' = known /\ UNCHANGED cloud
    BY <1>8 DEF FacebookGranted, FacebookRefused, Back, OpenButtons, OpenPlay,
                TapTile, Open, SpeechStep, SpeechFinished, LogoutTapped,
                LogoutConfirmed, AlertDismissed, Say, SceneReconnects, vars, cloud
  <2> QED BY <2>1, ListsStay DEF cloud, Traceable
<1> QED BY <1>1, <1>2, <1>3, <1>4, <1>5, <1>6, <1>7, <1>8 DEF Next, DatabaseStep

LEMMA RegisteredHolds == Spec => [](TypeInv /\ KnownWasRegistered)
<1> QED BY TypeInit, TypeStep, RegisteredInit, RegisteredStep, PTL DEF Spec

\* What a list finds is an account of the database, one on its way there, or
\* one that was refused or deleted while the list held it.
THEOREM ListsNeverInvent == Spec => []KnownWasRegistered
BY RegisteredHolds, PTL

\* The accounts whose names may be stored next.
Nameable == server' \cup outbox'
                \cup UNION {withdrawn[id] : id \in {i \in ScreenIds : ~Free(i)}}

\* An account found in the list of a screen in use has a name that may be stored.
LEMMA FoundIsNameable ==
    ASSUME KnownWasRegistered, NEW id \in ScreenIds, NEW e \in Emails,
           known[id][e] # Absent, ~Free(id), UNCHANGED cloud
    PROVE  known[id][e] \in Nameable
<1>1. known[id][e] \in server \cup outbox \cup withdrawn[id]
  BY DEF KnownWasRegistered
<1> QED BY <1>1 DEF cloud, Nameable

\* A step that stores a name knows an account with it.
LEMMA StoreStep ==
    TypeInv /\ KnownWasRegistered /\ [Next]_vars
        => [username' \notin {username, NoName}
                => \E a \in Nameable : a.name = username']_vars
<1> SUFFICES ASSUME TypeInv, KnownWasRegistered, [Next]_vars,
                    username' \notin {username, NoName}
             PROVE  \E a \in Nameable : a.name = username'
  OBVIOUS
<1>1. ASSUME NEW id \in ScreenIds, AccountStep(id)
      PROVE  \E a \in Nameable : a.name = username'
  <2>1. CASE \E kind \in {"Login", "SignUp"} :
                OpenAccountScreen(kind, id) \/ FormRejected(kind, id)
    BY <2>1 DEF OpenAccountScreen, FormRejected, Say
  <2>2. ASSUME NEW e \in Emails, NEW p \in Passwords, LogIn(id, e, p)
        PROVE  \E a \in Nameable : a.name = username'
    <3>1. /\ known[id][e] # Absent /\ username' = known[id][e].name
          /\ UNCHANGED cloud
      BY <2>2 DEF LogIn, Say, SignIn
    <3>2. Len(stack) \in 1..Len(stack) /\ IsTop("Login", id)
      BY <2>2, TopFacts DEF LogIn, TypeInv, TypeOK
    <3>3. ~Free(id)
      BY <3>2 DEF IsTop, Top, OnStack, Free
    <3> QED BY <3>1, <3>3, FoundIsNameable
  <2>3. ASSUME NEW a \in FormAccounts, SignUp(id, a)
        PROVE  \E b \in Nameable : b.name = username'
    BY <2>3 DEF SignUp, Say, SignIn, Register, Nameable
  <2> QED BY <1>1, <2>1, <2>2, <2>3 DEF AccountStep
<1>2. ASSUME NEW id \in ScreenIds, FacebookStep(id)
      PROVE  \E a \in Nameable : a.name = username'
  <2>1. ASSUME NEW p \in FbProfiles, GraphAnswered(id, p)
        PROVE  \E a \in Nameable : a.name = username'
    <3>1. CASE Register(FbAccount(p)) /\ SignIn("Login", id, p.name)
      <4>1. FbAccount(p) \in outbox' /\ FbAccount(p).name = p.name /\ username' = p.name
        BY <3>1 DEF Register, SignIn, FbAccount
      <4> QED BY <4>1 DEF Nameable
    <3>2. CASE /\ known[id][p.email] # Absent
               /\ SignIn("Login", id, known[id][p.email].name)
               /\ UNCHANGED cloud
      <4>1. p.email \in Emails
        BY AccountFacts
      <4>2. ~Free(id)
        BY <2>1 DEF GraphAnswered, Free, TypeInv, TypeOK
      <4>3. known[id][p.email] \in Nameable
        BY <3>2, <4>1, <4>2, FoundIsNameable
      <4> QED BY <3>2, <4>3 DEF SignIn
    <3> QED BY <2>1, <3>1, <3>2 DEF GraphAnswered
  <2> QED BY <1>2, <2>1 DEF FacebookStep, FacebookTapped, GraphFailed
<1>3. CASE \/ FacebookGranted \/ FacebookRefused \/ DatabaseStep
           \/ Back \/ OpenButtons \/ OpenPlay \/ TapTile \/ SpeechStep
           \/ LogoutTapped \/ LogoutConfirmed \/ AlertDismissed
           \/ SceneReconnects \/ Relaunch \/ UNCHANGED vars
  BY <1>3 DEF FacebookGranted, FacebookRefused, DatabaseStep, Snapshot,
              WriteReachesServer, OtherPhoneRegisters, WriteRefused, AccountDeleted,
              Withdraw, Back, OpenButtons, OpenPlay, TapTile, Open, SpeechStep,
              SpeechFinished, LogoutTapped, LogoutConfirmed, AlertDismissed, Say,
              SceneReconnects, Relaunch, vars
<1> QED BY <1>1, <1>2, <1>3 DEF Next

\* However old the list a user was looked up in, the stored name belongs to an
\* account, or to one that list held when it was refused or deleted.
THEOREM EveryStoredNameHadAccount == Spec => StoredNameHadAccount
BY RegisteredHolds, StoreStep, PTL DEF Spec, StoredNameHadAccount, Nameable

=============================================================================
