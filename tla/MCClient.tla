------------------------------ MODULE MCClient ------------------------------
(* What one call of the library goes through on the client: the dictionary   *)
(* of prepared values under several threads, the request that is written,    *)
(* the answer that is read.  The three share no state: a behaviour is of one *)
(* of them, and the others rest.                                             *)
EXTENDS BKRequests, BKResponses, PreparedValues, TLC

(* IDs with and without slashes: the project a/users/get/b and the user c    *)
(* print the path of the project a and the user b/users/get/c.               *)
MCProjectIds == {<<"a">>, <<"users">>, <<"a", "users", "get", "b">>}
MCUserIds == {<<"c">>, <<"get">>, <<"b", "users", "get", "c">>}
MCSegments == {"a", "b", "c", "users", "get", "(null)"}

(* A plain key, and one that ends its node and begins another.               *)
MCKeys == {<<Text("score")>>,
           <<Text("score"), Between, Numeral("1"), NodeEnd, Separator, NodeBegin, Text("level")>>}

(* The documents: rewards with every kind of name and value, achievements   *)
(* with up to two of them, results with up to two achievements.             *)
Fields(key1, v1, key2, v2) ==
  [k \in (IF v1 = Nil THEN {} ELSE {key1}) \cup (IF v2 = Nil THEN {} ELSE {key2}) |->
     IF k = key1 THEN v1 ELSE v2]

UpTo2(S) == {<<>>} \cup {<<a>> : a \in S} \cup {<<a, b>> : a \in S, b \in S}

MCRewards ==
  {Dict(Fields("Name", n, "Value", Number)) : n \in {String("coin"), Null, Number}}
    \cup {Dict(Fields("Name", String("coin"), "Value", v)) : v \in {Nil, Null}}

MCRewardLists == {List(s) : s \in UpTo2(MCRewards)} \cup {Nil, Null, Number, List(<<Null>>)}

MCAchievements ==
  {Dict(Fields("IsUnlocked", Number, "Rewards", r)) : r \in MCRewardLists}
    \cup {Dict(Fields("IsUnlocked", Null, "Rewards", List(<<>>))), Null, String("a"), Dict(<<>>)}

MCProjects == {Dict(Fields("Achievements", a, "Title", Null)) :
                 a \in {Nil, Null, List(<<Dict(<<>>)>>), List(<<Null>>)}}

MCResults == {List(s) : s \in UpTo2(MCAchievements)} \cup MCProjects \cup {Nil, Null, Number}

MCErrors == {Null, Dict(Fields("Code", Number, "Message", Null)), String("a"),
             Dict(Fields("Code", Null, "Message", Null))}

MCAnswers ==
  {Dict(Fields("Error", Nil, "Result", r)) : r \in MCResults}
    \cup {Dict(Fields("Error", e, "Result", r)) :
            e \in MCErrors, r \in {Nil, Null, List(<<Dict(Fields("IsUnlocked", Number,
                   "Rewards", List(<<Dict(Fields("Name", String("coin"), "Value", Number))>>)))>>)}}
    \cup {NotJSON, Null, Number, String("a"), List(<<>>)}

-----------------------------------------------------------------------------

CONSTANTS main, queue

MCThreads == {main, queue}
MCSymmetry == Permutations(MCThreads)

VARIABLE part

NoObjects == object = [p \in Pairs |-> CHOOSE o \in [key : Keys, value : Values] : TRUE]

NoRequest == request = [kind |-> "getProject", project |-> NilId, user |-> NilId] /\ NoObjects

(* Path and body have nothing to do with each other: every list of pairs in   *)
(* the requests of one project and user, and the others with an empty list.   *)
PathOrBody ==
  \/ request.project = <<"a">> /\ request.user = <<"c">>
  \/ pairs = <<>> /\ NoObjects

NoAnswer == asked = "post" /\ answer = NotJSON

NoCalls == kind = "post" /\ userId = CHOOSE u \in Users : TRUE

ClientInit ==
  /\ part \in {"request", "answer", "prepared"}
  /\ (part # "request" => NoRequest) /\ RequestInit /\ PathOrBody
  /\ (part # "answer" => NoAnswer) /\ AnswerInit
  /\ (part # "prepared" => NoCalls) /\ PreparedInit

ClientNext ==
  /\ UNCHANGED part
  /\ \/ part = "request" /\ RequestNext /\ UNCHANGED <<answerVars, preparedVars>>
     \/ part = "answer" /\ AnswerNext /\ UNCHANGED <<requestVars, preparedVars>>
     \/ part = "prepared" /\ PreparedNext /\ UNCHANGED <<requestVars, answerVars>>

ClientSpec == ClientInit /\ [][ClientNext]_<<part, requestVars, answerVars, preparedVars>>

=============================================================================
