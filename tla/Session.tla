------------------------------ MODULE Session ------------------------------
(***************************************************************************)
(* One phone running ChildLearning: who is signed in and which screens are *)
(* stacked on it.                                                          *)
(*                                                                         *)
(* The view controllers of the app never talk to each other.  They push    *)
(* and pop one UINavigationController, and they share one UserDefaults     *)
(* key, "username".  Four sources of events interleave on the main queue:  *)
(* the user, Firebase (the list of accounts), Facebook (dialogs and graph  *)
(* requests) and the speech synthesizer, whose delegate pops the screen.   *)
(* This module has one action per handler.                                 *)
(*                                                                         *)
(* Abstractions.  What a Login or SignUp screen does with its array        *)
(* `users' is only to look up the first element with a given email, and    *)
(* the array only ever grows at its end: it is modelled by that lookup,    *)
(* known[id][email].  A screen object that left the stack lives on in the  *)
(* closures that captured it; once no graph request of it is pending       *)
(* nothing it does can be observed, and its identity may be reused.        *)
(***************************************************************************)
EXTENDS Naturals, Sequences

CONSTANTS
    ScreenIds,      \* identities of Login and SignUp screen objects
    FormAccounts,   \* what users type into the sign-up form
    OtherAccounts,  \* what other phones register
    LostAccounts,   \* bound: accounts the database may refuse or lose
    FbProfiles,     \* [email, name] as Facebook's graph API answers
    Facebook,       \* the password stored for an account made from Facebook
    Blank,          \* the empty string
    NoName,         \* UserDefaults holds no "username"
    NoId,           \* no screen object
    Absent,         \* no account with this email in a list
    MaxGraph        \* bound: graph requests of one screen pending at a time

FbAccount(p) == [name |-> p.name, email |-> p.email, password |-> Facebook]

Accounts == FormAccounts \cup OtherAccounts \cup {FbAccount(p) : p \in FbProfiles}
Emails == {a.email : a \in Accounts}
Names == {a.name : a \in Accounts}
Passwords == {a.password : a \in Accounts}

(* The forms refuse empty fields, and the constants for "nothing here" are *)
(* no values of the program.                                               *)
ASSUME FormsAreFilled ==
    \A a \in FormAccounts :
        /\ a = [name |-> a.name, email |-> a.email, password |-> a.password]
        /\ Blank \notin {a.name, a.email, a.password}
ASSUME SentinelsAreNoValues ==
    /\ NoName \notin Names \cup {Blank}
    /\ Absent \notin Accounts
    /\ NoId \notin ScreenIds
    /\ MaxGraph \in Nat

VARIABLES
    stack,      \* viewControllers of the navigation controller, bottom first
    username,   \* UserDefaults "username"
    alert,      \* the UIAlertController being presented
    dialog,     \* the Login whose Facebook dialog is being presented
    graph,      \* graph[id]: GraphRequests of this Login not yet answered
    known,      \* known[id][email]: first such account in its list `users'
    server,     \* accounts in the Firebase database
    outbox,     \* accounts written by this process, not yet on the server
    late,       \* history: Facebook signed a user in behind another screen
    withdrawn   \* history, withdrawn[id]: accounts of this list that the database
                \* refused or lost after the list got them

phone == <<stack, alert, dialog>>
cloud == <<server, outbox, withdrawn>>
vars == <<stack, username, alert, dialog, graph, known, server, outbox, late, withdrawn>>

-----------------------------------------------------------------------------
(* Screens, alerts and the navigation controller.                          *)

Welcome == [kind |-> "Welcome"]
Buttons == [kind |-> "Buttons"]
Play == [kind |-> "Play"]
AccountScreen(kind, id) == [kind |-> kind, id |-> id]
Home(greeting) == [kind |-> "Home", greeting |-> greeting]
Speak(speech) == [kind |-> "Speak", speech |-> speech]

Screens ==
    {Welcome, Buttons, Play}
        \cup [kind : {"Login", "SignUp"}, id : ScreenIds]
        \cup [kind : {"Home"}, greeting : Names \cup {Blank}]
        \cup [kind : {"Speak"}, speech : {"speaking", "over"}]

NoAlert == [kind |-> "none"]
Message(kind) == [kind |-> kind]
Unknown(email) == [kind |-> "unknown", email |-> email]
AskLogout(position) == [kind |-> "logout", at |-> position]

Alerts(depth) ==
    [kind : {"none", "form", "password", "taken", "notFacebook"}]
        \cup [kind : {"unknown"}, email : Emails]
        \cup [kind : {"logout"}, at : 0..depth]

Top == stack[Len(stack)]
OnTop(kind) == Top.kind = kind
IsTop(kind, id) == Top = AccountScreen(kind, id)
OnStack(kind, id) == \E i \in 1..Len(stack) : stack[i] = AccountScreen(kind, id)

Push(screen) == stack' = Append(stack, screen)
Popped(s) == SubSeq(s, 1, Len(s) - 1)

\* popViewController does nothing on a stack of one screen.
Pop == stack' = IF Len(stack) > 1 THEN Popped(stack) ELSE stack

\* Mutant: alerts let taps through to the screen below.
UserCanTapThroughAlert == dialog = NoId

\* An alert or the Facebook dialog keeps the user from everything below it.
UserCanTap == alert = NoAlert /\ dialog = NoId

\* Mutants: the scene starts with Home alone, or always at Welcome.
LaunchAtHome == IF username \in {NoName, Blank} THEN <<Welcome>> ELSE <<Home(Blank)>>
LaunchAtWelcome == <<Welcome>>

\* What the scene shows when it connects.
LaunchStack ==
    IF username \in {NoName, Blank} THEN <<Welcome>> ELSE <<Welcome, Home(Blank)>>

NothingKnown == [e \in Emails |-> Absent]
NothingWithdrawn == [id \in ScreenIds |-> {}]

Init ==
    /\ stack = <<Welcome>>
    /\ username = NoName
    /\ alert = NoAlert
    /\ dialog = NoId
    /\ graph = [id \in ScreenIds |-> 0]
    /\ known = [id \in ScreenIds |-> NothingKnown]
    /\ server = {}
    /\ outbox = {}
    /\ late = FALSE
    /\ withdrawn = NothingWithdrawn

-----------------------------------------------------------------------------
(* The account screens: Welcome, Login and SignUp.                         *)

Free(id) ==
    /\ graph[id] = 0
    /\ \A kind \in {"Login", "SignUp"} : ~OnStack(kind, id)

\* Mutant: the screen appears with the list it had when it was last open.
OpenAccountScreenKeepsList(kind, id) ==
    /\ UserCanTap /\ OnTop("Welcome") /\ Free(id)
    /\ Push(AccountScreen(kind, id))
    /\ withdrawn' = [withdrawn EXCEPT ![id] = {}]
    /\ UNCHANGED <<username, alert, dialog, graph, known, server, outbox, late>>

OpenAccountScreen(kind, id) ==
    /\ UserCanTap /\ OnTop("Welcome") /\ Free(id)
    /\ Push(AccountScreen(kind, id))
    /\ known' = [known EXCEPT ![id] = NothingKnown]
    /\ withdrawn' = [withdrawn EXCEPT ![id] = {}]
    /\ UNCHANGED <<username, alert, dialog, graph, server, outbox, late>>

Back ==
    /\ UserCanTap
    /\ Top.kind \in {"Login", "SignUp", "Buttons", "Play"}
    /\ Pop
    /\ UNCHANGED <<username, alert, dialog, graph, known, cloud, late>>

Say(message) ==
    /\ alert' = message
    /\ UNCHANGED <<stack, username, dialog, graph, known, cloud, late>>

\* A tap on Login or Sign up with an empty field or a malformed email.
FormRejected(kind, id) ==
    /\ UserCanTap /\ IsTop(kind, id)
    /\ Say(Message("form"))

\* Mutants: the name is not stored, or stored only when there is none yet.
SignInUnsaved(kind, id, name) ==
    /\ UNCHANGED username
    /\ IF OnStack(kind, id) THEN Push(Home(name)) ELSE stack' = stack
SignInKeepsOldName(kind, id, name) ==
    /\ username' = IF username = NoName THEN name ELSE username
    /\ IF OnStack(kind, id) THEN Push(Home(name)) ELSE stack' = stack

\* Greets the user, remembers the name, pushes Home on the Login or SignUp's
\* own navigation controller: there is none once the screen was popped.
SignIn(kind, id, name) ==
    /\ username' = name
    /\ IF OnStack(kind, id) THEN Push(Home(name)) ELSE stack' = stack

\* Mutant: Home is shown and nothing is written.
RegisterNowhere(account) == UNCHANGED cloud

Register(account) ==
    /\ outbox' = outbox \cup {account}
    /\ UNCHANGED <<server, withdrawn>>

LogIn(id, email, password) ==
    LET account == known[id][email] IN
    /\ UserCanTap /\ IsTop("Login", id)
    /\ email # Blank /\ password # Blank
    /\ \/ account = Absent /\ Say(Unknown(email))
       \/ account # Absent /\ account.password # password /\ Say(Message("password"))
       \/ /\ account # Absent /\ account.password = password
          /\ SignIn("Login", id, account.name)
          /\ UNCHANGED <<alert, dialog, graph, known, cloud, late>>

SignUp(id, account) ==
    /\ UserCanTap /\ IsTop("SignUp", id)
    /\ \/ known[id][account.email] # Absent /\ Say(Message("taken"))
       \/ /\ known[id][account.email] = Absent
          /\ Register(account)
          /\ SignIn("SignUp", id, account.name)
          /\ UNCHANGED <<alert, dialog, graph, known, late>>

-----------------------------------------------------------------------------
(* Signing in with Facebook.                                               *)

FacebookTapped(id) ==
    /\ UserCanTap /\ IsTop("Login", id)
    /\ dialog' = id
    /\ UNCHANGED <<stack, username, alert, graph, known, cloud, late>>

\* The email was granted: the graph request starts, and keeps its token
\* through the logOut that follows.
FacebookGranted ==
    /\ dialog # NoId /\ graph[dialog] < MaxGraph
    /\ graph' = [graph EXCEPT ![dialog] = @ + 1]
    /\ dialog' = NoId
    /\ UNCHANGED <<stack, username, alert, known, cloud, late>>

FacebookRefused ==
    /\ dialog # NoId
    /\ dialog' = NoId
    /\ UNCHANGED <<stack, username, alert, graph, known, cloud, late>>

\* signupObserverFirebase of the Login screen, wherever that screen is by now.
GraphAnswered(id, profile) ==
    LET account == known[id][profile.email] IN
    /\ graph[id] > 0
    /\ graph' = [graph EXCEPT ![id] = @ - 1]
    /\ \/ /\ account = Absent
          /\ Register(FbAccount(profile))
          /\ SignIn("Login", id, profile.name)
          /\ late' = (late \/ ~IsTop("Login", id))
          /\ UNCHANGED alert
       \/ /\ account # Absent /\ account.password = Facebook
          /\ SignIn("Login", id, account.name)
          /\ late' = (late \/ ~IsTop("Login", id))
          /\ UNCHANGED <<alert, cloud>>
       \/ /\ account # Absent /\ account.password # Facebook
          /\ alert' = IF UserCanTap /\ IsTop("Login", id)
                      THEN Message("notFacebook") ELSE alert
          /\ UNCHANGED <<stack, username, cloud, late>>
    /\ UNCHANGED <<dialog, known>>

GraphFailed(id) ==
    /\ graph[id] > 0
    /\ graph' = [graph EXCEPT ![id] = @ - 1]
    /\ UNCHANGED <<phone, username, known, cloud, late>>

-----------------------------------------------------------------------------
(* The Firebase database.                                                  *)

\* The account a list finds under this email once a snapshot is appended.
FirstAfterSnapshot(id, email) ==
    LET found == {a \in server \cup outbox : a.email = email} IN
    IF known[id][email] # Absent THEN {known[id][email]}
    ELSE IF found = {} THEN {Absent} ELSE found

Snapshot(id) ==
    /\ ~Free(id)
    /\ \E list \in [Emails -> server \cup outbox \cup {Absent}] :
        /\ \A e \in Emails : list[e] \in FirstAfterSnapshot(id, e)
        /\ known' = [known EXCEPT ![id] = list]
    /\ UNCHANGED <<phone, username, graph, cloud, late>>

WriteReachesServer(account) ==
    /\ account \in outbox
    /\ server' = server \cup {account}
    /\ outbox' = outbox \ {account}
    /\ UNCHANGED <<phone, username, graph, known, late, withdrawn>>

OtherPhoneRegisters(account) ==
    /\ server' = server \cup {account}
    /\ UNCHANGED <<phone, username, graph, known, outbox, late, withdrawn>>

\* The lists only grow: an account that is gone stays in those that hold it.
Holds(id, account) == known[id][account.email] = account

Withdraw(account) ==
    /\ withdrawn' = [id \in ScreenIds |->
                        IF Holds(id, account) THEN withdrawn[id] \cup {account}
                        ELSE withdrawn[id]]
    /\ UNCHANGED <<phone, username, graph, known, late>>

\* The database refuses a write; setValue was given no completion to tell.
WriteRefused(account) ==
    /\ account \in outbox
    /\ outbox' = outbox \ {account}
    /\ UNCHANGED server
    /\ Withdraw(account)

\* An account is removed from the database: it counts as gone when this
\* phone's client hears of it.  The app itself removes none.
AccountDeleted(account) ==
    /\ account \in server
    /\ server' = server \ {account}
    /\ UNCHANGED outbox
    /\ Withdraw(account)

-----------------------------------------------------------------------------
(* The learning screens.                                                   *)

Open(below, screen) ==
    /\ UserCanTap /\ OnTop(below)
    /\ Push(screen)
    /\ UNCHANGED <<username, alert, dialog, graph, known, cloud, late>>

OpenButtons == Open("Home", Buttons)
OpenPlay == Open("Buttons", Play)
TapTile == Open("Buttons", Speak("speaking"))

\* Mutants: the alert still trusts a Home that was popped; nothing is popped.
SpeechFinishedKeepsAsker(i) ==
    /\ i \in 1..Len(stack) /\ stack[i] = Speak("speaking")
    /\ stack' = Popped([stack EXCEPT ![i] = Speak("over")])
    /\ UNCHANGED <<username, alert, dialog, graph, known, cloud, late>>
SpeechFinishedStays(i) ==
    /\ i \in 1..Len(stack) /\ stack[i] = Speak("speaking")
    /\ stack' = [stack EXCEPT ![i] = Speak("over")]
    /\ UNCHANGED <<username, alert, dialog, graph, known, cloud, late>>

\* didFinish of a Speak screen's synthesizer pops whatever is on top.
SpeechFinished(i) ==
    /\ i \in 1..Len(stack) /\ stack[i] = Speak("speaking")
    /\ stack' = Popped([stack EXCEPT ![i] = Speak("over")])
    /\ alert' = IF alert.kind = "logout" /\ alert.at = Len(stack)
                THEN AskLogout(0) ELSE alert
    /\ UNCHANGED <<username, dialog, graph, known, cloud, late>>

-----------------------------------------------------------------------------
(* Signing out, alerts, and the process.                                   *)

LogoutTapped ==
    /\ UserCanTap /\ OnTop("Home")
    /\ Say(AskLogout(Len(stack)))

\* Mutant: popViewController instead of popToViewController.
AtOneBelow(s) == Len(s) - 1

AtWelcome(s) == CHOOSE i \in 1..Len(s) :
                    s[i] = Welcome /\ \A j \in 1..(i - 1) : s[j] # Welcome

\* "Yes": the Home that asked pops its navigation controller to Welcome; it
\* has none when it was itself popped meanwhile.
LogoutConfirmed ==
    /\ alert.kind = "logout"
    /\ username' = NoName
    /\ alert' = NoAlert
    /\ \/ alert.at > 0 /\ stack' = SubSeq(stack, 1, AtWelcome(stack)) /\ late' = FALSE
       \/ alert.at = 0 /\ UNCHANGED <<stack, late>>
    /\ UNCHANGED <<dialog, graph, known, cloud>>

\* "No", or the "OK" of any other alert.
AlertDismissed ==
    /\ alert # NoAlert
    /\ Say(NoAlert)

\* The system rebuilds the scene of the running process.
SceneReconnects ==
    /\ stack' = LaunchStack
    /\ alert' = NoAlert
    /\ dialog' = NoId
    /\ late' = FALSE
    /\ UNCHANGED <<username, graph, known, cloud>>

\* The process dies and is launched again; Firebase keeps no copy on the phone
\* of what it has not sent.
Relaunch ==
    /\ stack' = LaunchStack
    /\ alert' = NoAlert
    /\ dialog' = NoId
    /\ graph' = [id \in ScreenIds |-> 0]
    /\ known' = [id \in ScreenIds |-> NothingKnown]
    /\ outbox' = {}
    /\ withdrawn' = NothingWithdrawn
    /\ late' = FALSE
    /\ UNCHANGED <<username, server>>

-----------------------------------------------------------------------------
AccountStep(id) ==
    \/ \E kind \in {"Login", "SignUp"} : OpenAccountScreen(kind, id) \/ FormRejected(kind, id)
    \/ \E e \in Emails, p \in Passwords : LogIn(id, e, p)
    \/ \E a \in FormAccounts : SignUp(id, a)

FacebookStep(id) ==
    \/ FacebookTapped(id)
    \/ \E p \in FbProfiles : GraphAnswered(id, p)
    \/ GraphFailed(id)

DatabaseStep ==
    \/ \E id \in ScreenIds : Snapshot(id)
    \/ \E a \in outbox : WriteReachesServer(a)
    \/ \E a \in OtherAccounts : OtherPhoneRegisters(a)
    \/ \E a \in LostAccounts : WriteRefused(a) \/ AccountDeleted(a)

SpeechStep == \E i \in 1..Len(stack) : SpeechFinished(i)

Next ==
    \/ \E id \in ScreenIds : AccountStep(id) \/ FacebookStep(id)
    \/ FacebookGranted \/ FacebookRefused
    \/ DatabaseStep
    \/ Back \/ OpenButtons \/ OpenPlay \/ TapTile \/ SpeechStep
    \/ LogoutTapped \/ LogoutConfirmed \/ AlertDismissed
    \/ SceneReconnects \/ Relaunch

\* An utterance, once started, comes to its end; nothing else is assumed.
Spec == Init /\ [][Next]_vars /\ WF_vars(SpeechStep)

-----------------------------------------------------------------------------
(* Correctness.                                                            *)

\* Every variable holds a value of its kind, and the logout alert remembers
\* a screen that exists.
TypeOK ==
    /\ stack \in Seq(Screens) /\ stack # <<>>
    /\ username \in Names \cup {Blank, NoName}
    /\ alert \in Alerts(Len(stack))
    /\ dialog \in ScreenIds \cup {NoId}
    /\ graph \in [ScreenIds -> 0..MaxGraph]
    /\ known \in [ScreenIds -> [Emails -> Accounts \cup {Absent}]]
    /\ server \subseteq Accounts /\ outbox \subseteq Accounts
    /\ late \in BOOLEAN
    /\ withdrawn \in [ScreenIds -> SUBSET Accounts]

\* However pushes, pops, answers and relaunches interleave, Welcome is at the
\* bottom and nowhere else, and an account screen sits only directly on it:
\* logout always finds the one Welcome it pops to, and no list of accounts is
\* opened above a signed-in user.
RootIsWelcome ==
    \A i \in 1..Len(stack) :
        /\ stack[i] = Welcome <=> i = 1
        /\ stack[i].kind \in {"Login", "SignUp"} => i = 2

(* What follows holds as long as no answer of Facebook was acted on by a   *)
(* Login that is not the screen on top (history variable late): the code   *)
(* does not ask where its screen is by then.  Signing out to Welcome, a    *)
(* new scene or a new process makes it true again.                         *)

Follows(lower, upper) ==
    \/ lower = "Welcome" /\ upper \in {"Login", "SignUp", "Home"}
    \/ lower \in {"Login", "SignUp"} /\ upper = "Home"
    \/ lower = "Home" /\ upper = "Buttons"
    \/ lower = "Buttons" /\ upper \in {"Play", "Speak"}

\* The stack is a path of the storyboard: in particular there is one Home, and
\* a Speak screen, which has no way out but the end of its own speech, is on
\* top and speaking.
Nested ==
    ~late =>
        /\ \A i \in 1..(Len(stack) - 1) : Follows(stack[i].kind, stack[i + 1].kind)
        /\ \A i \in 1..Len(stack) : stack[i] # Speak("over")

HomeOnStack == \E i \in 1..Len(stack) : stack[i].kind = "Home"

\* A stored, non-empty user name and a Home on the stack go together: nobody
\* is shown the learning screens without a session, and nobody with one is
\* left at the Welcome screen.  (An empty name keeps Home only until launch.)
SignedInShowsHome == ~late /\ username \notin {NoName, Blank} => HomeOnStack
HomeNeedsSession == ~late /\ HomeOnStack => username # NoName

\* Home greets the user whose name is stored, or, after a launch, nobody.
GreetsStoredUser ==
    ~late => \A i \in 1..Len(stack) :
                stack[i].kind = "Home" => stack[i].greeting \in {username, Blank}

\* While the logout question is up, the Home that asked is the screen on top.
LogoutAsksTop ==
    ~late /\ alert.kind = "logout" => OnTop("Home") /\ alert.at = Len(stack)

\* A list of accounts holds only accounts that the database holds, that this
\* process is about to write, or that were one of these when the list got them
\* and were refused or deleted since: it lags, it never invents.
KnownWasRegistered ==
    \A id \in ScreenIds, e \in Emails :
        known[id][e] # Absent =>
            /\ known[id][e] \in server \cup outbox \cup withdrawn[id]
            /\ known[id][e].email = e

\* The stored user is never replaced by another one without a logout between.
NoSilentSwitch ==
    [][{username, username'} \cap {NoName, Blank} = {} /\ ~late'
        => username' = username]_vars

\* Confirming a logout leads back to Welcome and to nothing else.
LogoutReturnsToWelcome ==
    [][username # NoName /\ username' = NoName /\ ~late => stack' = <<Welcome>>]_vars

\* A name without an account is only ever stored from a list that held the
\* account when it was refused or deleted, by the screen of that list, still
\* open or awaiting its graph answer: no other screen can bring it back.
StoredNameHadAccount ==
    [][username' \notin {username, NoName}
        => \E a \in server' \cup outbox'
                   \cup UNION {withdrawn[id] : id \in {i \in ScreenIds : ~Free(i)}} :
               a.name = username']_vars

\* "Email not registered" is said only of an email that no account on the
\* server has.  (Not so: see the run unknown_email.)
UnknownMeansUnregistered ==
    [][\A e \in Emails :
        alert = NoAlert /\ alert' = Unknown(e) => \A a \in server : a.email # e]_vars

\* A Speak screen on top gives way: its speech ends and pops it.
SpeakIsLeft == OnTop("Speak") /\ ~late ~> ~OnTop("Speak") \/ late

-----------------------------------------------------------------------------
(* The abstract specification that a phone implements.                     *)

Place == IF late THEN "astray" ELSE IF HomeOnStack THEN "inside" ELSE "outside"

Abstract == INSTANCE SignedIn WITH Nobody <- NoName, user <- username, place <- Place

\* The stack, the stored name, the alerts and the pending answers together make
\* up a session: one way in, which stores the name, one way out, which removes
\* it and leads to Welcome, and a restart that finds the place again.
ImplementsSignedIn == Abstract!Spec

=============================================================================
