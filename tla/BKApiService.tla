---------------------------- MODULE BKApiService ----------------------------
(***************************************************************************)
(* The network layer: +[BKApiService sendRequest:onSuccess:onFailure:].    *)
(* Every request becomes one NSURLSession data task.  The session was made *)
(* with sessionWithConfiguration:, so the completion handlers of all tasks *)
(* run on one serial queue, never on the thread that called sendRequest.   *)
(* Tasks are otherwise independent: they reach the server, and complete,   *)
(* in any order.                                                           *)
(*                                                                         *)
(* NSURLSession and the BadgeKeeper server are outside the repository:     *)
(* they are modelled from what the completion handler distinguishes.       *)
(***************************************************************************)
EXTENDS Naturals, Sequences

CONSTANTS
  MaxTasks,    (* bound: how many data tasks are created in a behaviour   *)
  RewardNames, (* names of the rewards the server can grant               *)
  Results      (* the reward lists a "Result" document can carry          *)

ASSUME ServiceAssumption ==
  /\ MaxTasks \in Nat
  /\ Results \subseteq Seq(RewardNames)
  /\ <<>> \in Results

VARIABLES
  task,    (* life of each data task                                      *)
  reply,   (* what the server answered to it, if it reached the server    *)
  applied, (* the tasks the server carried out, in the order it did so    *)
  running, (* the task whose completion handler is executing, or NoTask   *)
  called   (* the caller's blocks the handler called, in order            *)

serviceVars == <<task, reply, applied, running, called>>

Tasks == 1 .. MaxTasks
NoTask == 0

(* "new": not created.  "resumed": handed to the session.  "handling": its  *)
(* handler is inside the success block.  "done": its handler returned.      *)
(* "dead": the process ended before its handler did.                        *)
TaskStates == {"new", "resumed", "handling", "done", "dead"}

(* The blocks of sendRequest: success(json), or failure with the code of    *)
(* a transport error or of an unparsable body.                              *)
INTERNAL_SERVER_ERROR == "INTERNAL_SERVER_ERROR"
PARSING_JSON_ERROR == "PARSING_JSON_ERROR"
ServiceBlocks == {"json", INTERNAL_SERVER_ERROR, PARSING_JSON_ERROR}

(* A document has an "Error" (rejected) or a "Result" (accepted).           *)
NoReply == [status |-> "none", rewards |-> <<>>]
Rejection == [status |-> "rejected", rewards |-> <<>>]
Acceptance(rs) == [status |-> "accepted", rewards |-> rs]
Replies == {NoReply, Rejection} \cup {Acceptance(rs) : rs \in Results}

ServiceTypeOK ==
  /\ task \in [Tasks -> TaskStates]
  /\ reply \in [Tasks -> Replies]
  /\ applied \in Seq(Tasks)
  /\ running \in Tasks \cup {NoTask}
  /\ called \in [Tasks -> Seq(ServiceBlocks)]

ServiceInit ==
  /\ task = [t \in Tasks |-> "new"]
  /\ reply = [t \in Tasks |-> NoReply]
  /\ applied = <<>>
  /\ running = NoTask
  /\ called = [t \in Tasks |-> <<>>]

-----------------------------------------------------------------------------
(* The caller's thread. *)

(* A request is turned into a data task and resumed; tasks are numbered in  *)
(* the order of their creation.                                             *)
SendRequest(t) ==
  /\ task[t] = "new"
  /\ \A s \in Tasks : s < t => task[s] # "new"
  /\ task' = [task EXCEPT ![t] = "resumed"]
  /\ UNCHANGED <<reply, applied, running, called>>

-----------------------------------------------------------------------------
(* The server.  A task that was resumed can reach it at any later time, also *)
(* after the client has given up on it or died; a task reaches it once.      *)

Reaches(t) == task[t] # "new" /\ reply[t] = NoReply

ServerAccepts(t, rs) ==
  /\ Reaches(t)
  /\ reply' = [reply EXCEPT ![t] = Acceptance(rs)]
  /\ applied' = Append(applied, t)
  /\ UNCHANGED <<task, running, called>>

ServerRejects(t) ==
  /\ Reaches(t)
  /\ reply' = [reply EXCEPT ![t] = Rejection]
  /\ UNCHANGED <<task, applied, running, called>>

-----------------------------------------------------------------------------
(* The session's serial queue: the completion handler. *)

(* The state of a task whose handler called failure. *)
GoesOn == "resumed" (* Mutant: the branch does not end the handler. *)

Ended == "done"

(* The handler leaves through failure(code, ...): the branch `if (error)` or *)
(* the branch `if (jsonError)`.  Neither says whether the server was reached.*)
HandlerFails(t, code) ==
  /\ running = NoTask
  /\ task[t] = "resumed"
  /\ called' = [called EXCEPT ![t] = Append(@, code)]
  /\ task' = [task EXCEPT ![t] = Ended]
  /\ UNCHANGED <<reply, applied, running>>

(* Mutant: the failure block gets the error's own domain, not a code. *)
HandlerTransportErrorRaw(t) == HandlerFails(t, "NSURLErrorDomain")

HandlerTransportError(t) == HandlerFails(t, INTERNAL_SERVER_ERROR)

HandlerParsingError(t) == HandlerFails(t, PARSING_JSON_ERROR)

(* NSJSONSerialization made a document of what came back. *)
HasDocument(t) == reply[t] # NoReply

CallSuccess(t) ==
  /\ task[t] = "resumed"
  /\ called' = [called EXCEPT ![t] = Append(@, "json")]
  /\ task' = [task EXCEPT ![t] = "handling"]
  /\ running' = t
  /\ UNCHANGED <<reply, applied>>

(* The handler has a document and calls success(json), which runs on the    *)
(* queue until HandlerReturns.                                              *)
HandlerCallsSuccess(t) == running = NoTask /\ HasDocument(t) /\ CallSuccess(t)

(* What the serial queue runs after a handler returned. *)
NextHandler == NoTask

HandlerReturns(t) ==
  /\ running = t
  /\ task' = [task EXCEPT ![t] = "done"]
  /\ running' = NextHandler
  /\ UNCHANGED <<reply, applied, called>>

-----------------------------------------------------------------------------
(* The process ends: its tasks and handlers go, what the server did stays. *)

ServiceCrash ==
  /\ task' = [t \in Tasks |->
                IF task[t] \in {"resumed", "handling"} THEN "dead" ELSE task[t]]
  /\ running' = NoTask
  /\ UNCHANGED <<reply, applied, called>>

ServerStep(t) == ServerRejects(t) \/ \E rs \in Results : ServerAccepts(t, rs)

HandlerStep(t) ==
  \/ HandlerTransportError(t)
  \/ HandlerParsingError(t)
  \/ HandlerCallsSuccess(t)
  \/ HandlerReturns(t)

ServiceNext ==
  \/ ServiceCrash
  \/ \E t \in Tasks : SendRequest(t) \/ ServerStep(t) \/ HandlerStep(t)

ServiceSpec == ServiceInit /\ [][ServiceNext]_serviceVars

-----------------------------------------------------------------------------
(* Properties. *)

(* Exactly one of the two blocks is called for a request, once, whatever    *)
(* happens: sendRequest's handler (BKApiService.m:63-84) has no path that   *)
(* calls both or none.  A task the process did not outlive may have had its *)
(* success block begun.                                                     *)
OneBlockPerTask ==
  \A t \in Tasks :
    CASE task[t] \in {"new", "resumed"} -> called[t] = <<>>
      [] task[t] \in {"handling", "done"} -> Len(called[t]) = 1
      [] OTHER -> called[t] \in {<<>>, <<"json">>}

(* Handlers never overlap: while one is inside the caller's success block   *)
(* no other is, and a later handler finds the earlier one finished.         *)
HandlersSerial ==
  \A t \in Tasks : task[t] = "handling" <=> running = t

(* The server carries a request out at most once, and only requests that    *)
(* were sent; the client's success block means the server was reached, and  *)
(* a failure block says nothing about it (BKApiService.m:64-68).            *)
AnswersAreReal ==
  /\ \A i, j \in DOMAIN applied : applied[i] = applied[j] => i = j
  /\ \A t \in Tasks :
       /\ (\E i \in DOMAIN applied : applied[i] = t) <=> reply[t].status = "accepted"
       /\ reply[t] # NoReply => task[t] # "new"
       /\ called[t] = <<"json">> => reply[t] # NoReply

(* All of it: what the caller of the service relies on.                     *)
ServiceSound == OneBlockPerTask /\ HandlersSerial /\ AnswersAreReal

=============================================================================
