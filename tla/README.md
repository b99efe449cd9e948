# ChildLearning: a verification project

ChildLearning is an iOS app that teaches small children letters, numbers and
words: a child taps a tile and hears it, or plays a game in which a voice asks
"Where is ..." and the child looks for the tile. The program proper is the
Swift code in `ChildLearning/ChildLearning/` (1 250 lines). Everything under
`Pods/` is vendored, and three parts of it decide what this app does when
things come late or go wrong: the Realtime Database client, through which every
account is read and written; the login flow of the Facebook SDK; and SDWebImage,
which fills the tiles with pictures. These three are modelled along the paths
the app takes through them. File names below are relative to
`ChildLearning/ChildLearning/`, or to `Pods/` where a pod is meant.

This directory holds TLA+ models of that code, TLC configurations that check
them on small instances, and TLAPS proofs that carry the most important
properties to every value of the constants.

    tlc -workers 2 -config MCSession.cfg MCSession      # a run
    tlapm SessionProofs.tla                             # the proofs of a module

## 1. The system

| Part | State it keeps | Operations |
|---|---|---|
| Navigation (`SceneDelegate`, every view controller) | the stack of one `UINavigationController`; the modal alert; `UserDefaults["username"]` | push, pop, pop to Welcome, rebuild of the scene |
| Welcome (`ViewController`) | none | open SignUp, open Login |
| Login (`LoginViewController`) | its own array `users`, fed by a Firebase observer; pending Facebook dialog and graph requests | log in by lookup, Facebook sign-in, which may register |
| SignUp (`SignUpViewController`) | its own array `users` | register, unless the email is in the array |
| Home (`HomeViewController`) | the greeting | open a Buttons screen, log out after a question |
| Content (`AppDelegate`) | `arrAlphabets`, `arrNumber`, `words`, filled once per process | three fetches; three chained answers for each word |
| Buttons (`ButtonsViewController`) | a copy of one list | cells, tap a tile, open Play |
| Speak (`SpeakViewController`) | a synthesizer | speaks on load; the end of the speech pops the screen |
| Play (`PlayViewController`) | a copy of one list, the round, a synthesizer, an audio player | draw a round, judge a tap, applaud, next round |
| Alerts (`Alert`) | none | present one message |
| Database client (`FPersistentConnection`, `FConnection`, `FIRRetryHelper`, `FRepo`, `FSyncTree`, `FWriteTree`) | the connection and its retry, listens, unanswered writes, the views the app is shown | connect, send again, answer, interrupt, resume, purge |
| Facebook sign-in (`FBSDKLoginManager`, `FBSDKBridgeAPI`, `FBSDKAccessToken`, the piggyback of the graph requests) | a manager per tap; one session, one expected challenge, one current token | dialog, URL callbacks, exchange, reauthentication, renewal |
| Pictures (SDWebImage) | loads of image views, a disk queue, downloads, memory and disk cache, a blacklist | show, give up, query, download, answer, evict |

How they interact. The screens never call each other: they push and pop one
navigation controller and share one `UserDefaults` key. The content lists are
global variables of the app delegate which Buttons and Play copy when they load,
and which the cells of Buttons read again later. Everything else arrives by
callback, all on the main queue, one handler at a time, in an order the app does
not control: Firebase snapshots and acknowledgements, the answers of Firestore
and Storage, the Facebook dialog and graph requests, the end of a speech, the
end of a sound.

The database client runs on a queue of its own and hands its events to the main
queue in order; the pictures come over a disk queue and the queues of their
downloads; the Facebook SDK shares a session, a challenge and a token among login
managers that do not know of each other.

What is hard, therefore, is never inside one handler. It is the order of
handlers (an answer for a screen or a cell that is used otherwise by now, a
finish notice of an earlier round, a renewal that ends after a logout), state
read at two times (a list and its copy, a list of accounts and the database, a
blacklist before and after a download), requests that are repeated because a
connection was lost, and the death of the process between a local write and a
remote one. `PROJECT.json` lists these hazards, each at its line, with the
properties that cover it.

What makes each part correct:

- *Navigation*: the stack is always a path of the storyboard, with Welcome at
  its root; who is stored, who is greeted and whether Home is shown agree;
  nobody replaces a signed-in user without a logout.
- *Account screens*: a list lags behind the database but never invents an
  account; a name is stored only if an account has it, or had it when the list
  that found it heard of it.
- *Content and Buttons*: the picture seen is the word heard; every document
  becomes one word whatever fails.
- *Speak*: the screen, which has no button out, gives way.
- *Play*: every round is earned, can be won, and is asked for aloud.
- *Database client*: it is never stranded without a connection attempt; no write
  is lost, reported twice or reordered; what was shown is not taken back; views
  converge to the server.
- *Facebook*: the app asks about the person who signed in in *this* dialog; nobody
  stays logged in behind the app's back; every login ends.
- *Pictures*: a reused cell never shows the picture of another word; every load
  ends.

## 2. The modules

| Module | Models | Checked by | Proved in |
|---|---|---|---|
| `Session` | navigation, sessions, account screens, Speak's pop, crashes | `MCSession`, three runs | `SessionProofs` |
| `Content` | fetches and the Buttons screen | `MCContent`, one run | `ContentProofs`, over `NaturalSets` |
| `PlayGame` | the game of the Play screen | `MCPlayGame`, three runs | `PlayGameProofs`, over `NaturalSets` |
| `SignedIn` | what a phone promises: a session (abstract) | refined by `Session` in `session_two_logins` | `SessionProofs` |
| `Connection` | one phone's connection to the database, and the server as far as the client relies on it | through `Database` | `DatabaseProofs` |
| `Database` | composes `Connection` with the tree of writes and views | `MCDatabase`, two runs | `DatabaseProofs`, `DatabaseViewProofs` |
| `OwnWrites` | what the client promises of the app's own writes (abstract) | refined by `Database` in `database` | `DatabaseViewProofs` |
| `FacebookLogin` | login managers, bridge, challenge and token | `MCFacebookLogin`, one run | `FacebookProofs` |
| `ImageCells` | pictures on reused image views | directly, two runs | `ImageCellsProofs` |

`PROJECT.json` ("map") gives the lines behind every definition.

### Session

`stack` is `viewControllers`, bottom first; a Login or SignUp object is a record
with an identity from `ScreenIds`, since several may be alive: one on the stack,
others popped but kept by the closure of a pending request. `known[id][email]`
stands for the array `users` of screen `id`: the code only ever appends whole
snapshots to it and only looks up the *first* element with an email, so that
lookup is all that can be observed. `server` is the set of accounts in the
database, `outbox` the `setValue` calls of this process that have not reached
it; an observer of this process sees both, as Firebase applies local writes at
once. The database may refuse such a write (`WriteRefused`). `setValue` is called
without a completion (`SignUpViewController.swift:70`, `LoginViewController.swift:114`),
so nobody is told: the client takes the write back, but an array that heard
of the account keeps it, as nothing is ever removed from `users`. The same holds for an
account that somebody deletes from the database (`AccountDeleted`; the app deletes
none). `withdrawn[id]` is a history variable: the accounts refused or deleted while
list `id` held them. It moves when this process hears of the loss, which
is when the code could first know.

One action is one handler with all it does. `LogIn` is `loginClicked` followed by
`fetchLogin`, `SignUp` is `signUpcClicked` with `signupObserverFirebase`,
`GraphAnswered` is the closure of `getFBUserData` down to `fetchFbLogin`. `SignIn`
is the block these three share: store the name, and push Home *on the navigation
controller of that screen*, which is nil once the screen was popped.
`SpeechFinished(i)` is the delegate of the i-th screen: it pops whatever is on top.
`LogoutConfirmed` is `logout`, called by an alert that remembers the Home which
presented it. `Relaunch` is the death of the process at any moment with a new
launch, `SceneReconnects` a new scene in the running process: both build
`LaunchStack`.

`late` is a history variable and the one thing the code does not have. It turns
true when a Facebook answer signs a user in although its Login screen is not
the one on top. The code does not look (`LoginViewController.swift:165`), and then
nearly anything can be on the stack: Home on Home, Home of one user under another
name. Six of the properties are therefore stated under `~late`: they say that
this is the *only* way to lose them, through every other interleaving, and that
a logout, a launch or a new scene restores them. `TypeOK`, `RootIsWelcome`,
`KnownWasRegistered` and `StoredNameHadAccount` do not need it. The last two do
not promise that the account still exists, which the code does not ensure: a login
from such a list stores a name that no account has. They say that a list holds,
and a login or sign-up stores, only what exists, is about to be written, or was
withdrawn from under a list that is still in use.

### Content

`query`, `chain[d]` and `words` follow `fetchWords`: a collection, then for each
document that refers to another a chain of a reference and a download URL, the
chains racing each other, and a word appended at the end of each, with an empty
picture if anything failed. Letters and numbers arrive in one answer and are
assigned sorted; the collation of a locale is an order on numbers here, and the
sort is modelled by what it returns. `screen` is the Buttons screen with its
copy, `cells` what UIKit has been given for each row; `ShowCell` may happen at any
time and again, as cells scroll in and out of view. The guard of `ShowCell` is a
row of the *copy*, the value is read from `appDelegate.words`, as in the code.

### PlayGame

An item is a title and a picture. `showData` (letters, numbers) and `showWordData`
are one operator: a letter is its own picture, and `Askable` is where the two
differ. `Rounds[c]` is the set of everything the random drawing can end with.
`clap` is the current player and `notices` the finish notices on their way: a
player that ended has queued its notice and can be replaced before the notice is
delivered. `TextToSpeech` is the shared routine, which speaks only when the voice
is idle, pauses it when it speaks, resumes it when paused. `fate` keeps the two ends
of a drawing from a list that is too short: out of an empty list the index is out
of range (`crashed`), out of fewer than four pictures the loop does not end
(`hung`). `correct`, `advances` and `rushed` are history variables.

### SignedIn

The abstract specification: a name and a place, `outside`, `inside` or `astray`.
One way in stores a name, one way out removes it, a restart finds the place the
stored name says. `Session` implements it with `place` computed from the stack
(is there a Home?) and from `late`. "Astray" is the price of the late Facebook
answer; `SignedIn` says what may happen then and that only a logout or a restart
leads out of it.

### Connection and Database

`Connection` is `FPersistentConnection` with its two helpers, one action per
handler of its serial queue. `connectionState` is its own state, `realtime` that
of the `FConnection` it opened. A write stays in `outstandingPuts` until it is
answered and is sent again by `RestoreState` on every new connection, listens
first. An answered write waits in `putsToAck` while a listen is unanswered, because
the data that listen will bring may lack it. `completed` collects the callbacks
that were called, `applied` what the server did; both are history. This build
links no FirebaseAuth, so the token provider answers nil at once and the two
states in between are never seen.

The server is external and is modelled only as far as the client's code relies on
it: writes are applied in the order of their requests, and a watcher is told of
a write before the writer is answered. Requests of different locations may be
served in any order.

`Database` joins each of those handlers with what `FRepo` does in the same handler:
`allWrites` is `FWriteTree`, `serverCache` what the server last said of a
location, `complete` the views that may be shown, and `Shown` the one laid over
the other. A write that is acknowledged but not in the tree asserts in the code;
`crashed` is that outcome. It is reached in one way only (`CrashNeedsPurge`), a
purge while answered writes wait: `FRepo.m:508` empties the tree before the
connection reports them. This app never purges.

### OwnWrites

The abstract specification of both: what an app may rely on that writes and
observes, with no connection, wire, tree or cache in it. Writes are numbered;
each waits until it has its one answer, which is "ok" after the server committed
it, "denied" when its rules refuse it, or "canceled" by a purge. They are committed
in the order of issue, except those refused or canceled. A view that opens shows
every write that waits or succeeded, and an open one never loses such a write.
`Database` implements it with `answers` the callbacks that were called, `stored`
this phone's part of what the server applied, `open` the complete views and
`shown[q]` the app's own writes among what `Shown(q)` has.

### FacebookLogin

An attempt is a tap with its manager. `LoginTapped` makes the manager, stores the
expected challenge and opens the session, which cancels one that is still there.
`TokenReturned` and `NonceReturned` are the URL callback; `NonceExchanged` and
`Validated` the answers of the two requests a manager may make. `CompleteAuthentication`
is `completeAuthentication:expectChallenge:` down to the app's block, `TellApp`, which asks
the graph and logs out in one go (`LoginViewController.swift:113-131`). Every request
of the SDK may take a stale token along to renew it: `refreshing` remembers which,
and `Refresh` is the comparison with the token that is current when the answer is there.
`overlapped`, `foreign` and `graph` are histories.

The app forwards every URL it is opened with to the bridge
(`SceneDelegate.swift:33`, `AppDelegate`), whoever opened it. If it is not for the
login (`OtherURLOpened`), the bridge cancels the session and tells its manager. If it is
(`LoginURLOpened`: an `fb<appid>://authorize` URL from another app), the session is
canceled without a word and the URL goes to the manager that is pending, which works
on it like on an answer of its own: `ForeignAnswer` if it has all in it, `ForeignNonce` if a
request comes first. Such a URL answers no dialog, so it does not show the
challenge that is expected (`ChallengePasses`), and a lone attempt may end with a bad
challenge. The pending manager may have told its end already, because closing the
dialog leaves it pending: then the app is told nothing more, but its request
(`stray`) still clears the expected challenge when it is answered (`StrayExchanged`),
whosever that is by then. `foreign` remembers the attempts that waited while
such a URL was worked on.

### ImageCells

`loads[l]` is a combined operation: the view it is for and its URL, or over.
`io` is the serial disk queue, `main` the blocks posted to the main queue,
`downloads[d]` a download operation with the loads that wait for it, and
`URLOperations` the table that lets loads join one. A view asked for another
picture gives up its load, and what is already on one of the queues comes all the
same. `Deliver` posts the answer for the loads of that moment, `Done` drops the
loads, `Completion` unregisters the URL: three steps on two queues, with room for
another load between any two.

## 3. The runs

| Run | Instance | What it shows |
|---|---|---|
| `session` | 1 account screen, 2 accounts with one email, 2 Facebook profiles (one sharing no email), 2 requests per screen; a form account and a Facebook account that may be refused or deleted | all eleven properties of navigation, session and accounts |
| `session_two_logins` | 2 account screens, 1 account, profiles without email and without name, 1 request per screen | the phone implements `SignedIn` with an answer pending for one screen while another is used; Speak gives way |
| `unknown_email` | 1 account, no Facebook | *violation*: a registered email is called unregistered |
| `content` | 4 documents, 3 with a picture reference, 2 with one title | all orders and failures of the answers against all moments of opening the screen |
| `play_game` | letters, 5 words, 5 words of which 2 have no picture, 3 letters, no letters; 4 tiles; 3 correct taps | rounds are earned, winnable and asked for |
| `shared_picture` | 5 words of which 2 have no picture | *violation*: the right row is beyond the tiles |
| `clap_over` | 4 letters | *violation*: a clap plays on into the next round |
| `database` | 1 location, 2 writes of this phone, 1 of another; rules that refuse nothing, either write or the reading; 2 listens, 1 removal or revocation, 1 lost connection, 1 interruption or kill, purges | nothing is lost, doubled, reordered or taken back; the app reads its own writes (`OwnWrites`); writes are answered and views converge |
| `db_report` | 1 write, 1 listen that is removed, 1 lost connection | *violation*: a committed write is never reported |
| `facebook` | 3 taps, 2 people, 1 relaunch, any number of URLs from elsewhere | the right person is asked for, nobody stays logged in, a challenge fails only by interference, logins end |
| `images` | 2 views, 2 pictures, 3 loads and 2 downloads alive at a time, 3 requests of the app | no picture of another word, every load ends |
| `lost_picture` | 2 views, 1 picture | *violation*: a load joins a download too late and is never answered |

Why the bounds are enough for the interesting cases:

- *One or two screen objects.* Identities are reused once a screen can no
  longer be observed. One screen already allows: a request pending while the
  screen is popped, covered by Home, or reopened after a logout. Two allow a
  pending answer of one Login against another Login, SignUp or session. A third
  adds nothing that acts on the stack differently from the second.
- *Two accounts with one email, three profiles.* Enough for a wrong password, a
  password account found by Facebook, a Facebook account found by a form, two
  names behind one email, and the empty email that profiles share. With two
  names a wrong greeting and a silent switch are visible.
- *LostAccounts* bounds which accounts the database may refuse or lose: one that
  the form enters and one that a Facebook login makes, the other phone's account staying,
  in `session` and `unknown_email`. `session_two_logins` loses none, as what it checks does not depend on
  which accounts there are.
- *MaxGraph* (1 or 2) bounds the requests of one screen that wait at a time: two
  let a second answer find the sign-in of the first already done.
- *Stacks* are not bounded by a constant, and the state space is finite all the
  same: deeper stacks than the five screens of the storyboard need a late answer,
  of which at most *MaxGraph* wait for each screen.
- *Four word documents.* Any two chains can be in any order with a third before,
  between or after them, and the fourth has no chain.
- *Four tiles* is the constant in the code. Five items make a draw leave one out;
  three and none are the boundary cases. *MaxTaps* = 3: a clap replaced, a notice
  queued behind it, and a round won in between.

- *Database*. One location is what this app observes. Two writes can be reordered,
  and one can be answered while the other waits. Two listens let a location be
  observed again while the answer to the first observation is still on the way.
  One lost connection at any moment puts every request and every answer at risk,
  the same requests being sent again afterwards; a second one was tried for the
  safety properties on smaller instances and showed nothing new. Larger bounds than
  these (611 556 states) are what the proofs are for.
- *Facebook*. Two taps overlap; the third comes when one of them ended in a token
  that stays (email refused), which is what reauthentication and renewal need. Two
  people make a wrong person visible.
- *Images*. Two views share a picture or want different ones, and a third request
  makes a view change its mind. Three loads let two be current and one be given up
  but still mentioned. *Loads* and *Downloads* bound those alive at a time, since
  identities are used again.

No symmetry is declared: most runs check liveness, where it would be unsound, and the
others are small enough without it. `session` (1 362 816 states) is the
largest, and all end within three minutes.

Deadlock is checked in the runs of `Session`, `Content` and `PlayGame`, where a user can
always do something. It is off in those of `Database`, `FacebookLogin` and `ImageCells`:
there everything asked for can be answered and the system is idle until the app asks
again, which the bounds forbid. That nothing stops *earlier* is what the liveness
properties say.

### Fairness

- `WF_vars(SpeechStep)` in `Session`: an utterance that was started comes to its
  end. iOS calls `didFinish` for each, and the Speak screen has no control that
  pauses it. Nothing is assumed of the user, Firebase or Facebook.
- `WF_vars(ChainStep(d))` for each document in `Content`: a request that was made is
  answered, with a result *or an error*, as Firestore and Storage promise. No
  collection is assumed to answer: `EveryWordArrives` begins once it did.
- `PlayGame` has none: a game may be left at any moment.
- `Database`: a scheduled retry fires (it is a `dispatch_after`); a socket is
  opened and served or fails (both sides have timeouts); what is on the wire
  arrives or the socket is lost. That the app ever resumes an interrupted
  client is not assumed, so `WritesAreAnswered` and `ViewsConverge` except it.
- `FacebookLogin`: a user ends a dialog that is shown, in one of four ways; a
  request is answered or fails, as `NSURLSession` has a timeout. A dialog that
  vanished is nobody's duty, so `EveryLoginEnds` excepts its attempt.
- `ImageCells`: the two queues run what they hold, and every download moves on,
  at the latest by its timeout (`downloadTimeout`, 15 seconds). Whether a
  download succeeds is left open. `EveryLoadEnds` excepts only a load that joined
  too late, which is the run `lost_picture`.

### The five disagreements

1. `unknown_email`. `fetchLogin` answers "Email not registered" for every email its
   array lacks, and the array is empty until the first snapshot. Sign up, let the
   account reach the server, log out, open Login, tap.
2. `shared_picture`. The right row is an index into the list of *titles* collected
   for the tiles, compared with a row of *tiles*. A picture shared by two words
   (every word without a picture has the empty one) makes the first list longer.
   The round may then be unwinnable, or a wrong tile be applauded.
3. `clap_over`. The finish handler starts the next round whichever player finished,
   and stops nothing, although its comment says it does.
4. `db_report`. A disconnect resets the count of unanswered listens but not the reports
   that wait for it (`FPersistentConnection.m:402`). A write is committed and answered
   while a listen is not, the listen is given up, the connection is lost: with
   no listen left to answer, nothing delivers the report, although
   `FIRDatabaseReference.h:99-101` says the block is called once the write has been
   committed.
5. `lost_picture`. The answer of a download is posted for the loads of that moment
   (`SDWebImageDownloaderOperation.m:553`), and a load that joins before the operation is
   marked as finished is dropped with the others, uncalled, although
   `SDWebImageDownloader.h:253` says its block is called once the download is completed.

## 4. The proofs

All are for *every* value of the constants that satisfies the assumptions, which
are few: forms are filled, the sentinels are no values of the program, word
documents and database locations are finite sets, the size of a round is positive.
The bounds of the counters are parameters too: what is proved holds for any of them.

**Session.** `SessionProofs` has three parts. `TypeInv` of the first is `TypeOK` with `RootIsWelcome`: a logout
keeps the stack well typed only because there is a Welcome to pop to.
`TypeCorrect` and `WelcomeStaysAtRoot` follow. The lemmas about pushing, popping and `LaunchStack` carry the sequence reasoning, so
that the step for an action is short.

The second proves the properties under `~late`. None is inductive
alone, and they support each other in a circle: that the end of a speech pops a
*Speak* screen and not Home needs the stack to be nested with no finished Speak on
it; that a login cannot replace a user needs Home to be above every account
screen whenever a name is stored; that a logout leads to Welcome needs the alert
to point at the Home on top, which needs taps to be shut out while an alert is
up. The inductive invariant is their conjunction over `TypeInv`; the action
properties (`NoUserIsReplaced`, `LogoutLeadsToWelcome`) then follow from one step.

The third proves that lists never invent (`ListsNeverInvent`: `KnownWasRegistered` is
inductive over the types, because `Relaunch` drops lists and unsent writes
together, and because a refusal or a deletion is noted for every list that
holds the account) and from it that a name, when stored, has or had an account
(`EveryStoredNameHadAccount`): what a form or a graph answer finds is in the list
of a screen that is still there.

`PhoneImplementsSession` is the refinement: `TypeInv` and the safety invariant make every
initial state of `Session` one of `SignedIn` and every step a step or a stutter. A way in
needs that nobody is inside (no account screen is on top of a Home), a way out
that popping to Welcome removes every Home, and a restart that `LaunchStack` has a
Home exactly for a stored name.

**Content.** `TilesArePrefix` is inductive because words are only appended;
`CellMatchesTile` needs it: a cell is filled from the shared list, the tile is in the
copy, and the prefix makes them the same word. `OneWordForEachDocument` counts: a chain
that ends adds its document to those finished with a word, and that word to the
list, once each. It needs that there are no chains and no words before the
collection has answered, or that answer would forget finished chains.

`ContentTyped` needs a fact about data. The model says that `sort` returns *a* list in
ascending order with the elements of the old one, by `CHOOSE`, which means
nothing unless there is one. `SortedSorts` proves that there is: an order of the
places with the numbers ascending exists for any list, by induction on its length (take
the place of the greatest number away, order the others, put it last), and an
order of the places keeps every count.

**PlayGame.** `RoundsEarned` is a counting invariant: a tap pays for a clap, a clap
becomes at most one notice, a notice at most one round; it is inductive with the
types of the counters. `QuestionIsCurrent` is inductive by itself.

`RoundCanBeWon` is about the two loops of `PlayViewController` that collect the titles
of the tiles, one inside the other. In the model each is a recursive function, and the
lemmas say, by induction on the prefix already searched, that the inner one returns
items with the picture looked for, and exactly one if pictures are distinct
(`OnlyTitle`), and hence that the outer one returns a title for each tile, at the tile's
row (`AskableMatches`). That is why the row is right while pictures differ, and it is
the step that fails for a shared picture (run `shared_picture`). `PlayTyped` uses
the same lemmas: an index is only drawn from a list that has one.

**Inductions.** The library states induction for a predicate given as an operator,
which cannot be instantiated with the installed provers. `NaturalSets` states it for
a set of numbers, and proves it from the pigeonhole principle of the library's
facts about finite sets. From it follow that recursion defines a function
(`FunctionByRecursion`) and that what each step of one keeps, all its values have
(`ValuesBySteps`).

**Database.** `DatabaseUsesConnection` proves that every behaviour of the composition is
one of `Connection`, so that the invariants are proved there once.
`NeverStranded` is inductive with the types. `NoCallbackLost` rests on `Placed`: the
writes issued are distributed over the three places without overlap, kept as
sequences without duplicates. `DoneIsCommitted` rests on `BackedInv`: an "ok" on the wire or in
a waiting report is of a write the server has, and stays so over lost connections
because the server never forgets. `WritesKeepTheirOrder` rests on `OrderInv`: the
unanswered writes are sorted; a write on the wire has every earlier one before it
on the wire or settled (applied, refused, or canceled by a purge); and on an open
connection every unanswered write is on the wire or settled. The last part is
what makes a resend harmless: `RestoreState` sends a sorted sequence, so a write
whose first request was lost is again in front of its successors. `ListensAreCounted`
counts messages: by `ListensInv` the counter is the listens requested plus the answers on the
wire, and a client without a connection has nothing on the wire. `ManyAppended`
and its siblings say what a message sent or received does to such a count;
`RestoreState` starts from an empty wire, so it adds one for each view.

**Views.** `DatabaseViewProofs` proves `WritesStayShown`. An acknowledgement takes a
write out of the tree of pending writes, so each complete view must have it from
the server at that moment, or it would flicker. The heart of the invariant is `Heard`:
if the client was told that `p` is stored, by a message on the wire or by a report
that waits, then a listened location `q` knows `p` (`KnowsWrite`): it is in
the cache, or a message before shows it, or the listen to `q` was revoked before,
or the listen to `q` is asked for or not yet answered. In the last two cases the count of
unanswered listens is above zero (`ListensInv`), so nothing is acknowledged. It is inductive
only with four other parts:

- `ListenBringsData`: the answer to a listen comes right after its data, which has
  every write the client was told of before. So the answer that ends the wait
  finds the write in the cache.
- `DataGrows`: what the server says of a location only grows, on the wire and in the
  cache, so data never takes a write away.
- `ServedOrDue`: a location the app listens to is being watched, or its listen
  is on the way to the server, or its refusal is on the way back. This is why a write
  applied now is pushed to it. It needs `UnlistenFirst` (a location given up and observed again has its
  unlisten in front of the new listen, so serving the unlisten does no harm) and
  `NumbersUsed` (a late answer cannot be mistaken for that of the new listen).
- `PendingWrites`: a write of the tree waits for its answer or for the listens. So
  a purge reports each as canceled, or meets one that was answered (`crashed`).

TLC checked the invariant on the `database` instance before it was proved. `ListeningInv`
(the part about the connection alone) is proved of `Connection`, and carried over by
`DatabaseUsesConnection`. The proof shows what the acknowledgement delay
(`putsToAck`) is for: without it (`ReportAtOnce`), `KnowsWrite` would have to do without
its last two cases, and a write would vanish until a listen's data came.

**Own writes.** The second half of `DatabaseViewProofs` shows that `Database` implements
`OwnWrites` (`DatabaseKeepsPromise`), from four more invariants:

- `TreeIsWaiting`: the tree of writes is exactly what the connection has not
  reported, the unanswered writes and the reports held back. For "at least"
  it needs `Apart`, that no write is in two places or reported twice, which follows from
  `EachWriteOnce` by the pigeonhole principle (a sequence as long as the set of
  its elements repeats nothing). `CrashNeedsPurge` follows: what is
  acknowledged is in the tree.
- `DataIsFresh`: data that comes after the answer to a write, or while the report of
  it waits or was made, has the write. The server pushes what it has, and it has what
  it confirmed.
- `DoneIsShown`: a complete view has every write reported as done, in the cache. A
  report meets a view that has it (`ReportedIsKnown`, from `Heard` of the views), and
  data for a view that opens later is fresh.
- `SentIssued` with `CommitsAllowed`: the server only commits what was issued and is
  not refused.

`OwnWritesAreRead` is `TreeIsWaiting`, `Placed` and `DoneIsShown` together. In the
refinement each handler has one lemma (`MapIssue`, `MapCommit`, `MapAnswer`, `MapRefresh`,
`MapPurge`, `MapClose`); `Serve` is a commit when a write is served for the first time and a
stutter when it is served again after a lost connection, as the order of issue
allows it by `IssueOrder`. `OwnWrites` is safety only: that every write is
answered in the end is `WritesAreAnswered`, which TLC checks.

**Facebook.** `IInv` of `FacebookProofs` has one part for each thing the managers share:
the bridge has one session and one opener, of the same attempt; a pending request
knows its answer; graph requests and the kept token belong to attempts that are
done; and a waiting attempt owns the expected challenge, or remembers an overlap, or
remembers a login URL from elsewhere (`ChallengesShared`). The last needs that as long as a
finished manager still has a request under way, every waiting attempt remembers
that, since the answer will clear the challenge; and that a pending opener is in
its dialog or done, so that such a URL meets no attempt in between. Most handlers act on one attempt only, so `Moves(a)` states once what such
a handler may do, and the invariant is proved for `Moves` and for the few others.

**Pictures.** A late answer can show a wrong picture only through a load that is still
live for its view, or by answering loads of another address. `IInv` of `ImageCellsProofs`
excludes both: a live load is its view's current one and of the address it wants,
and what a download or a posted answer mentions is of its address, or over.
`PicturesAreWanted` and `ImagesTyped` follow, for any number of views, pictures and
downloads.

Every invariant and every action property of the runs is a theorem. Only
model-checked is what holds under fairness, which is out of the prover's reach:
`SpeakIsLeft`, `EveryWordArrives`, `WritesAreAnswered`, `ViewsConverge`,
`EveryLoginEnds`, `EveryLoadEnds`.

## 5. Not modelled

In the app:

- Email validation is a pure regular expression; whether an email passes is a
  choice of the user (`FormRejected`).
- Layout, colours, titles: no property is about them. The storyboard was read to
  know which buttons exist; that of Speak connects none, so
  `SpeakViewController.backClicked` is dead, as is `playerDidFinishPlaying`, which waits
  for a notification that an `AVAudioPlayer` does not post.
- Animation time: a push or pop takes effect at once.
- The test targets are empty templates.
- Several phones: `OtherPhoneRegisters` and `OtherPhoneWrites` add accounts and
  writes, but no other phone has a state of its own yet.

In the three pods that are modelled, what this app never reaches:

- Database: transactions, `onDisconnect` writes, merges, single reads, filtered
  queries, persistence on disk, authentication. Delays and back-off are left out: only
  whether a retry is scheduled matters here.
- Facebook: the native app and Safari controller flows (the app takes the default,
  an authentication session), permissions beyond the email, launching *by* a
  callback URL, profiles, events. In the flow that is left a genuine answer comes
  only through the session of its dialog, so a login URL that is opened from outside
  is never one, and never shows the expected challenge: that is assumed. The limit of one renewal per hour is left open,
  which only allows more renewals than there are. Worth knowing, and in the model:
  the token of someone who refused the email is kept, and a different person who
  signs in next is told there is a mismatch; nothing in the docs says otherwise.
- Pictures: transformers, prefetching, progressive decoding, synchronous queries,
  options. Two sentences of SDWebImage's README were not made properties: that a URL "won't be
  downloaded several times" (`README.md:32`) does not survive a download that
  was cancelled while queued and whose completion block unregisters a newer one,
  and that bogus URLs "won't be retried again and again" (`:33`) does not say how
  soon; both interleavings are in the model.

The rest of `Pods/` is most of the repository by lines (BoringSSL, gRPC, abseil, leveldb,
nanopb, Firestore's core in C++, Firebase Core, Storage, GTMSessionFetcher,
IQKeyboardManager). It is third-party infrastructure: protocol stacks, cryptography,
storage engines, tables. The app is told one answer or one error by it, which is how
`Content` models it (external definitions), and nothing else it does decides what this
app does. A model of those parts would be a project about those libraries, and
this one makes no claim about them; the share of all C, C++ and Objective-C lines that the
definitions here stand for is accordingly small, and the Swift code of the app,
which they do stand for, is not among those lines.

## 6. Plan

Done: `Session`, `Content`, `PlayGame`, `SignedIn`, `Connection`, `Database`, `OwnWrites`,
`FacebookLogin`, `ImageCells`, and their proofs as listed in section 4. Left:

1. `Accounts`: several phones and one database, each phone a `Database`, with duplicate
   sign-ups for one email, and a refinement mapping that shows `known` of `Session`
   to be what a lookup in the array `users` returns.
2. Two locations in the `database` instance, once its bounds allow it.
3. `App`, which composes `Session`, `Content` and `PlayGame`: the list a Play screen
   copies is the one `Content` has at that moment, and a Play screen that was popped
   does nothing more.
