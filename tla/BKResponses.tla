----------------------------- MODULE BKResponses -----------------------------
(***************************************************************************)
(* What becomes of one answer of the server: the completion handler of     *)
(* BKApiService.m, the parsers of Packets/Responses and Objects/Models,    *)
(* and the loop of BadgeKeeper.m that saves the rewards.                   *)
(*                                                                         *)
(* The document is any JSON value.  The parsers send Objective-C messages  *)
(* to what they find in it: a message to nil is answered with nil, one     *)
(* that an object does not understand raises.  Nothing catches an          *)
(* exception on the session's queue, so the process ends with it.          *)
(***************************************************************************)
EXTENDS Naturals, Sequences, FiniteSets

CONSTANT Answers (* bodies of answers: JSON values, and NotJSON            *)

VARIABLES
  asked,    (* the request that is answered                                *)
  answer,    (* the body of the answer                                      *)
  stage,   (* how far its handler is                                      *)
  pending, (* the parsed rewards that are not saved yet                   *)
  rows,    (* the names of the rewards that were committed                *)
  writing, (* this thread's realm is in a write transaction               *)
  told     (* what the application's blocks were told                     *)

answerVars == <<asked, answer, stage, pending, rows, writing, told>>

(* JSON values: NSNull, NSString, NSNumber, NSArray, NSDictionary; and nil, *)
(* which a dictionary gives for a key it does not have.                     *)
Nil == [type |-> "nil"]
Null == [type |-> "null"]
String(s) == [type |-> "string", is |-> s]
Number == [type |-> "number"]
List(items) == [type |-> "list", items |-> items]
Dict(fields) == [type |-> "dict", fields |-> fields]
NotJSON == [type |-> "garbage"]

(* v[key]: keyed subscripts are for dictionaries, and nil.                  *)
Subscriptable(v) == v.type \in {"nil", "dict"}

Field(v, key) ==
  IF v.type = "dict" /\ key \in DOMAIN v.fields THEN v.fields[key] ELSE Nil

(* for (... in v): an array gives its items, a dictionary its keys.         *)
Enumerable(v) == v.type \in {"nil", "list", "dict"}

Items(v) ==
  CASE v.type = "list" -> v.items
    [] v.type = "dict" -> [i \in 1 .. Cardinality(DOMAIN v.fields) |-> String("key")]
    [] OTHER -> <<>>

(* intValue, boolValue and doubleValue: numbers and strings have them.      *)
Numeric(v) == v.type \in {"nil", "number", "string"}

(* The check that a field is there and not null.                            *)
Present(v) == v \notin {Nil, Null}

(* What JSON means by an array and a dictionary, where the rewards are.     *)
WellFormed(v) ==
  /\ v.type = "list" => v.items = [i \in 1 .. Len(v.items) |-> v.items[i]] /\ Len(v.items) \in Nat
  /\ v.type = "dict" => IsFiniteSet(DOMAIN v.fields)

ASSUME AnswersAssumption ==
  \A a \in Answers :
    LET result == Field(a, "Result")
    IN  /\ WellFormed(result)
        /\ \A i \in DOMAIN Items(result) : WellFormed(Field(Items(result)[i], "Rewards"))

-----------------------------------------------------------------------------
(* The initWithJSON: methods. *)

EachItem(v, Parses(_)) ==
  Enumerable(v) /\ \A i \in DOMAIN Items(v) : Parses(Items(v)[i])

RewardParses(item) == Subscriptable(item) /\ Numeric(Field(item, "Value"))

AchievementParses(item) == Subscriptable(item)

UserAchievementParses(item) ==
  AchievementParses(item) /\ Numeric(Field(item, "IsUnlocked"))

UnlockedAchievementParses(item) ==
  UserAchievementParses(item) /\ EachItem(Field(item, "Rewards"), RewardParses)

ProjectParses(result) ==
  Subscriptable(result) /\ EachItem(Field(result, "Achievements"), AchievementParses)

ErrorParses(error) == Subscriptable(error) /\ Numeric(Field(error, "Code"))

(* The packet of each request, given its "Result".                          *)
ResultParses(result) ==
  Present(result) =>
    CASE asked \in {"post", "increment"} -> EachItem(result, UnlockedAchievementParses)
      [] asked = "getUser" -> EachItem(result, UserAchievementParses)
      [] asked = "getProject" -> ProjectParses(result)

(* The rewards of a result, achievement after achievement.                  *)
RewardsOf(result) ==
  LET Of(i) == Items(Field(Items(result)[i], "Rewards"))
      upTo[n \in 0 .. Len(Items(result))] == IF n = 0 THEN <<>> ELSE upTo[n - 1] \o Of(n)
  IN upTo[Len(Items(result))]

-----------------------------------------------------------------------------

AnswerInit ==
  /\ asked \in {"post", "increment", "getUser", "getProject"}
  /\ answer \in Answers
  /\ stage = "received"
  /\ pending = <<>>
  /\ rows = <<>>
  /\ writing = FALSE
  /\ told = "nothing"

Tell(what) == told' = what /\ stage' = "over"

(* NSJSONSerialization, with fragments allowed: every JSON value is a       *)
(* document.                                                                *)
ParsingError ==
  /\ stage = "received"
  /\ answer = NotJSON
  /\ Tell("PARSING_JSON_ERROR")
  /\ UNCHANGED <<asked, answer, pending, rows, writing>>

Document ==
  /\ stage = "received"
  /\ answer # NotJSON
  /\ stage' = "document"
  /\ UNCHANGED <<asked, answer, pending, rows, writing, told>>

Error == Field(answer, "Error")
Result == Field(answer, "Result")

(* response.error is made for an "Error" that is there and not null.        *)
NeverFails == FALSE (* Mutant: response.error is not looked at. *)

HasError == Present(Error)

(* BKApiResponse and BKApiResponseError.                                    *)
ResponseParses == Subscriptable(answer) /\ (HasError => ErrorParses(Error))

ApiError ==
  /\ stage = "document"
  /\ ResponseParses
  /\ HasError
  /\ Tell("ApiError")
  /\ UNCHANGED <<asked, answer, pending, rows, writing>>

(* What the internal callback of the request takes from its own packet.     *)
FirstOnly(result) == (* Mutant: the loop over the achievements stops early. *)
  IF Items(result) = <<>> THEN <<>> ELSE Items(Field(Items(result)[1], "Rewards"))

Granted(result) == RewardsOf(result)

ResponseParsed ==
  /\ stage = "document"
  /\ ResponseParses
  /\ ~HasError
  /\ ResultParses(Result)
  /\ stage' = "saving"
  /\ pending' = IF asked \in {"post", "increment"} /\ Present(Result)
                THEN Granted(Result) ELSE <<>>
  /\ UNCHANGED <<asked, answer, rows, writing, told>>

DocumentRaises ==
  /\ stage = "document"
  /\ ~(ResponseParses /\ (HasError \/ ResultParses(Result)))
  /\ stage' = "raised"
  /\ UNCHANGED <<asked, answer, pending, rows, writing, told>>

(* saveRewardValueForName:withValue:forUser: *)
BeginWriteTransaction ==
  /\ stage = "saving"
  /\ ~writing
  /\ pending # <<>>
  /\ writing' = TRUE
  /\ UNCHANGED <<asked, answer, stage, pending, rows, told>>

Name == Field(Head(pending), "Name")

(* addObject: takes a string, or nil or NSNull for a property that is not   *)
(* required; anything else is sent the messages of a string.                *)
Required(name) == name.type = "string" (* Mutant: it is a required property. *)

Storable(name) == name.type \in {"nil", "null", "string"}

RLMCoerceToNil(value) == IF value = Null THEN Nil ELSE value

CommitWriteTransaction ==
  /\ writing
  /\ Storable(Name)
  /\ rows' = Append(rows, RLMCoerceToNil(Name))
  /\ pending' = Tail(pending)
  /\ writing' = FALSE
  /\ UNCHANGED <<asked, answer, stage, told>>

AddObjectRaises ==
  /\ writing
  /\ stage = "saving"
  /\ ~Storable(Name)
  /\ stage' = "raised"
  /\ UNCHANGED <<asked, answer, pending, rows, writing, told>>

Success ==
  /\ stage = "saving"
  /\ pending = <<>>
  /\ Tell("success")
  /\ UNCHANGED <<asked, answer, pending, rows, writing>>

(* The handler RLMInstallUncaughtExceptionHandler set runs before the       *)
(* process ends: it cancels the write transaction of the raising thread.    *)
Cancelled == FALSE

UncaughtException ==
  /\ stage = "raised"
  /\ stage' = "dead"
  /\ writing' = Cancelled
  /\ UNCHANGED <<asked, answer, pending, rows, told>>

AnswerNext ==
  \/ ParsingError
  \/ Document
  \/ ApiError
  \/ ResponseParsed
  \/ DocumentRaises
  \/ BeginWriteTransaction
  \/ CommitWriteTransaction
  \/ AddObjectRaises
  \/ Success
  \/ UncaughtException

AnswerSpec == AnswerInit /\ [][AnswerNext]_answerVars

-----------------------------------------------------------------------------
(* Properties. *)

Over == stage \in {"over", "dead"}

(* What the server granted, whether or not it can be parsed.                *)
Promised ==
  IF asked \in {"post", "increment"} /\ EachItem(Result, Subscriptable)
  THEN RewardsOf(Result) ELSE <<>>

(* The rewards that are stored are the first ones the answer grants, in its *)
(* order, each with its name or none, and all of them when the application  *)
(* is told of success: an exception never leaves a gap                      *)
(* (BadgeKeeper.m:157-165, 213-225).                                        *)
StoredIsPrefix ==
  /\ Len(rows) <= Len(Promised)
  /\ \A i \in DOMAIN rows :
       LET name == Field(Promised[i], "Name")
       IN rows[i] = IF name \in {Nil, Null} THEN Nil ELSE name
  /\ told = "success" => Len(rows) = Len(Promised)

(* An answer that raises while it is parsed has stored nothing yet: the     *)
(* whole document is parsed before the first reward is saved, so rewards    *)
(* are lost halfway only by a name that is neither a string nor null        *)
(* (BadgeKeeper.m:157-160).                                                 *)
HalfSavedOnlyByName ==
  stage = "dead" /\ rows # <<>> => \E i \in DOMAIN Promised :
    /\ i = Len(rows) + 1
    /\ Field(Promised[i], "Name").type \notin {"nil", "null", "string"}

(* An "Error" that is not null makes the answer a failure: no reward of its *)
(* "Result" is stored and no success is told (BadgeKeeper.m:264-271).       *)
ErrorGrantsNothing ==
  Error \notin {Nil, Null} => rows = <<>> /\ told # "success"

(* A null "Error" or "Result" is as good as none: such an answer is a       *)
(* success without rewards, for every request (BKApiResponse.m:26, and the  *)
(* "Result" checks of the packets).  A null below them is not: it raises    *)
(* where a list or a number is expected (BKProject.m:30,                    *)
(* BKUnlockedAchievement.m:26).                                             *)
NullTopLevelHarmless ==
  /\ answer.type = "dict"
  /\ {Error, Result} \subseteq {Nil, Null}
  /\ Over
  => told = "success"

(* The two keys at the top of the document decide what the application is   *)
(* told, whatever else the document holds: BKApiResponse and the packets    *)
(* look at both with the same eyes.                                         *)
TopLevelDecides == ErrorGrantsNothing /\ NullTopLevelHarmless

=============================================================================
