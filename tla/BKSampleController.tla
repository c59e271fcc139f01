------------------------- MODULE BKSampleController -------------------------
(***************************************************************************)
(* The sample application (BKAchievementViewController.m, AppDelegate.m)   *)
(* as a client of BadgeKeeper: one screen with a login field and four      *)
(* buttons.  A click disables them and makes a request; the block called   *)
(* with the answer, on the session's queue, waits with dispatch_sync until *)
(* the main queue has shown the answer and enabled them again.             *)
(***************************************************************************)
EXTENDS BadgeKeeper

CONSTANT Key (* the key the sample posts and increments                    *)

ASSUME SampleAssumption == Key \in Keys /\ Projects # {}

VARIABLES
  login,    (* loginTextField.text, Nil when it is empty                  *)
  enabled,  (* the field and the buttons are enabled                      *)
  main,     (* what the main thread does next                             *)
  button,   (* the button of the click that is being handled              *)
  waiting,  (* the task whose block waits in dispatch_sync, or NoTask     *)
  shown     (* responseTextView: the task whose answer it shows, or NoTask *)

viewVars == <<login, enabled, main, button, waiting, shown>>
sampleVars == <<vars, viewVars>>

Buttons == {"post", "increment", "getUser", "getProject"}

SampleInit ==
  /\ Init
  /\ login = Nil
  /\ enabled = TRUE
  /\ main = "launch"
  /\ button = "none"
  /\ waiting = NoTask
  /\ shown = NoTask

-----------------------------------------------------------------------------
(* The main thread. *)

(* application:didFinishLaunchingWithOptions: *)
DidFinishLaunching ==
  /\ main = "launch"
  /\ \E p \in Projects : SetProjectId(p)
  /\ main' = "loop"
  /\ UNCHANGED <<login, enabled, button, waiting, shown>>

(* What the user can touch.                                                 *)
FieldEnabled == enabled

ButtonsAlwaysEnabled == TRUE (* Mutant: setLoading: leaves the buttons alone. *)

ButtonsEnabled == enabled

TypeLogin(text) ==
  /\ main = "loop"
  /\ FieldEnabled
  /\ login' = text
  /\ UNCHANGED <<vars, enabled, main, button, waiting, shown>>

(* isLoginValid: three of the buttons need a user.                          *)
IsLoginValid(b) == b = "getProject" \/ login # Nil

FirstStep(b) == IF b = "getProject" THEN "send" ELSE "setUserId"

(* Bound: a click that there is a task and a pair for.                      *)
CanClick(b) ==
  /\ \E t \in Tasks : task[t] = "new"
  /\ b \in Kinds => Len(pair) < MaxPairs

(* A click on a button with a valid login: setLoading:YES, the text is      *)
(* cleared, then the calls of the library.  Without one only an alert shows.*)
Click(b) ==
  /\ main = "loop"
  /\ ButtonsEnabled
  /\ CanClick(b)
  /\ IsLoginValid(b)
  /\ enabled' = FALSE
  /\ shown' = NoTask
  /\ button' = b
  /\ main' = FirstStep(b)
  /\ UNCHANGED <<vars, login, waiting>>

SetActiveUser ==
  /\ main = "setUserId"
  /\ SetUserId(login)
  /\ main' = IF button \in Kinds THEN "prepare" ELSE "send"
  /\ UNCHANGED <<login, enabled, button, waiting, shown>>

PrepareKey ==
  /\ main = "prepare"
  /\ PrepareValue(button, Key)
  /\ main' = "send"
  /\ UNCHANGED <<login, enabled, button, waiting, shown>>

MakeRequest(t) ==
  /\ main = "send"
  /\ \/ button \in Kinds /\ SendPreparedValues(button, t)
     \/ button = "getUser" /\ GetUserAchievements(t)
     \/ button = "getProject" /\ GetProjectAchievements(t)
  /\ main' = "loop"
  /\ button' = "none"
  /\ UNCHANGED <<login, enabled, waiting, shown>>

(* The main queue runs the block between two events.                        *)
RunMainBlock ==
  /\ main = "loop"
  /\ waiting # NoTask
  /\ shown' = waiting
  /\ enabled' = TRUE
  /\ waiting' = NoTask
  /\ UNCHANGED <<vars, login, main, button>>

-----------------------------------------------------------------------------
(* The session's queue: while a block waits in dispatch_sync, the queue     *)
(* runs nothing else.                                                       *)

(* Every way a request ends calls one of the sample's blocks, and every one *)
(* of these ends in dispatch_sync.                                          *)
BlockCalled(t) == callback'[t] # callback[t]

(* Mutant: the failure block does not come back to the main queue. *)
OnlySuccessWaits(t) == IF callback'[t] = <<"success">> THEN t ELSE NoTask

DispatchSync(t) == t

SessionQueue(t) ==
  /\ waiting = NoTask
  /\ Handler(t)
  /\ waiting' = IF BlockCalled(t) THEN DispatchSync(t) ELSE NoTask
  /\ UNCHANGED <<login, enabled, main, button, shown>>

-----------------------------------------------------------------------------

MainThread ==
  \/ DidFinishLaunching
  \/ SetActiveUser
  \/ PrepareKey
  \/ \E t \in Tasks : MakeRequest(t)
  \/ RunMainBlock

UserActs ==
  \/ \E text \in Users \cup {Nil} : TypeLogin(text)
  \/ \E b \in Buttons : Click(b)

SampleNext ==
  \/ UserActs
  \/ MainThread
  \/ \E t \in Tasks : SessionQueue(t)
  \/ (\E t \in Tasks : ServerAnswers(t)) /\ UNCHANGED viewVars

SampleSpec == SampleInit /\ [][SampleNext]_sampleVars

(* The main run loop gets to its work and the session completes its tasks;  *)
(* nothing is assumed of the user or the server.                            *)
SampleFairSpec ==
  /\ SampleSpec
  /\ WF_sampleVars(MainThread)
  /\ \A t \in Tasks : WF_sampleVars(SessionQueue(t))

-----------------------------------------------------------------------------
(* Properties. *)

InFlight == {t \in Tasks : task[t] \in {"resumed", "handling"}}

(* The flag and the requests agree: the buttons are disabled exactly while  *)
(* a click is being handled, its request is under way, or its answer waits  *)
(* to be shown, and there is never more than one of these                   *)
(* (BKAchievementViewController.m:65-67, 83, 158-175, 190-193).             *)
BusyIsOne ==
  /\ \A s, t \in InFlight : s = t
  /\ enabled <=> main \in {"launch", "loop"} /\ InFlight = {} /\ waiting = NoTask
  /\ button # "none" => InFlight = {} /\ waiting = NoTask
  /\ waiting # NoTask => InFlight = {}

(* The request under way, and the answer shown once it is done, are for the *)
(* login that is still in the field: it cannot be edited in between.        *)
ForTheLoginShown ==
  \A t \in InFlight \cup ({waiting} \ {NoTask}) :
    packet[t].kind # "getProject" => packet[t].user = login

(* What is shown is the answer to the latest request.                       *)
ShowsTheLatest == shown # NoTask => \A t \in Tasks : t > shown => task[t] = "new"

(* One request at a time keeps the order of the posts: if every post of the *)
(* sample was a success, the server set the values in the order of the      *)
(* clicks.  The library alone does not promise that.                        *)
PostsInOrder ==
  (\A t \in Tasks : packet[t].kind = "post" => callback[t] \in {<<>>, <<"success">>})
    => \A m, n \in DOMAIN applied :
         /\ m < n
         /\ packet[applied[m]].kind = "post" /\ packet[applied[n]].kind = "post"
         => applied[m] < applied[n]

(* All of it: the screen follows one request at a time.                     *)
ScreenFollows == BusyIsOne /\ ForTheLoginShown /\ ShowsTheLatest /\ PostsInOrder

(* No click disables the screen for good: the block that waits for the main *)
(* queue is never waited for by the main thread                             *)
(* (BKAchievementViewController.m:190, 209, 237, 246).                      *)
EnabledAgainEventually == ~enabled ~> enabled

=============================================================================
