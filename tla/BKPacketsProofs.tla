---------------------------- MODULE BKPacketsProofs ----------------------------
(***************************************************************************)
(* The packets, proved for every request and every document.               *)
(*                                                                         *)
(* Requests: when the keys are plain, a body begun is an opening bracket   *)
(* and, for each pair so far, its node of five tokens and a comma, the last*)
(* one excepted; so every node is where the reader looks for it.           *)
(*                                                                         *)
(* Answers: at each step of the reward loop the rows stored are the        *)
(* rewards before the one it is at (Aligned), a transaction that is open   *)
(* holds a row that is not stored yet, and an end of the process in the    *)
(* loop is at a reward whose name the realm does not take.                 *)
(*                                                                         *)
(* What a document grants is put together by a recursive function over its *)
(* list.  That there is such a function, and that it yields a sequence, is *)
(* proved by induction over the length, for a set of numbers in place of a *)
(* predicate.                                                              *)
(***************************************************************************)
EXTENDS BKRequests, BKResponses, InductionLemmas

(* Putting sequences together one after another: there is such a function,  *)
(* and what it gives are sequences.                                         *)
LEMMA JoinedSequences ==
  ASSUME NEW L \in Nat, NEW S, NEW g \in [1 .. L -> Seq(S)]
  PROVE  /\ \E f : f = [n \in 0 .. L |-> IF n = 0 THEN <<>> ELSE f[n - 1] \o g[n]]
         /\ \A f : f = [n \in 0 .. L |-> IF n = 0 THEN <<>> ELSE f[n - 1] \o g[n]]
                     => f \in [0 .. L -> Seq(S)]
<1> DEFINE Joins(f, n) == f[n] = IF n = 0 THEN <<>> ELSE f[n - 1] \o g[n]
           Built(k) == k <= L => \E f \in [0 .. k -> Seq(S)] : \A n \in 0 .. k : Joins(f, n)
<1>1. Built(0)
  <2>1. PICK f : f = [n \in 0 .. 0 |-> <<>>]
    OBVIOUS
  <2>2. f \in [0 .. 0 -> Seq(S)] /\ \A n \in 0 .. 0 : Joins(f, n)
    BY <2>1
  <2> QED
    BY <2>2
<1>2. ASSUME NEW k \in Nat, Built(k) PROVE Built(k + 1)
  <2>1. SUFFICES ASSUME k + 1 <= L
                 PROVE  \E h \in [0 .. (k + 1) -> Seq(S)] : \A n \in 0 .. (k + 1) : Joins(h, n)
    OBVIOUS
  <2>2. PICK f \in [0 .. k -> Seq(S)] : \A n \in 0 .. k : Joins(f, n)
    <3>1. k <= L
      BY <2>1
    <3> HIDE DEF Joins
    <3> QED
      BY <1>2, <3>1
  <2>3. PICK last \in Seq(S) : last = f[k] \o g[k + 1]
    <3>1. k \in 0 .. k /\ k + 1 \in 1 .. L
      BY <2>1
    <3>2. PICK a \in Seq(S), b \in Seq(S) : a = f[k] /\ b = g[k + 1]
      BY <2>2, <3>1
    <3>3. a \o b \in Seq(S)
      OBVIOUS
    <3> QED
      BY <3>2, <3>3
  <2>4. PICK h : h = [n \in 0 .. (k + 1) |-> IF n = k + 1 THEN last ELSE f[n]]
    OBVIOUS
  <2>5. h \in [0 .. (k + 1) -> Seq(S)]
    BY <2>4
  <2>6. Joins(h, k + 1)
    BY <2>3, <2>4
  <2>7. ASSUME NEW n \in 0 .. k PROVE Joins(h, n)
    <3>1. h[n] = f[n] /\ (n # 0 => h[n - 1] = f[n - 1])
      BY <2>4
    <3> QED
      BY <2>2, <3>1
  <2>8. \A n \in 0 .. (k + 1) : n = k + 1 \/ n \in 0 .. k
    OBVIOUS
  <2> HIDE DEF Joins
  <2>9. \A n \in 0 .. (k + 1) : Joins(h, n)
    BY <2>6, <2>7, <2>8
  <2> QED
    BY <2>5, <2>9
<1> HIDE DEF Built
<1>3. Built(L)
  <2>1. PICK K : K = {k \in Nat : Built(k)}
    OBVIOUS
  <2>2. 0 \in K /\ \A k \in Nat : k \in K => k + 1 \in K
    BY <1>1, <1>2, <2>1
  <2>3. \A k \in Nat : k \in K
    BY <2>2, SetInduction
  <2> QED
    BY <2>1, <2>3
<1>4. PICK f \in [0 .. L -> Seq(S)] : \A n \in 0 .. L : Joins(f, n)
  BY <1>3 DEF Built
<1>5. f = [n \in 0 .. L |-> IF n = 0 THEN <<>> ELSE f[n - 1] \o g[n]]
  BY <1>4
<1>6. ASSUME NEW h, h = [n \in 0 .. L |-> IF n = 0 THEN <<>> ELSE h[n - 1] \o g[n]]
      PROVE  h \in [0 .. L -> Seq(S)]
  <2>1. PICK K : K = {k \in Nat : k <= L => h[k] \in Seq(S)}
    OBVIOUS
  <2>2. 0 \in K
    BY <1>6, <2>1
  <2>3. ASSUME NEW k \in Nat, k \in K PROVE k + 1 \in K
    <3>1. SUFFICES ASSUME k + 1 <= L PROVE h[k + 1] \in Seq(S)
      BY <2>1
    <3>2. k <= L /\ k + 1 \in 0 .. L /\ k + 1 \in 1 .. L /\ k + 1 # 0 /\ (k + 1) - 1 = k
      BY <3>1
    <3>3. h[k + 1] = h[k] \o g[k + 1]
      BY <1>6, <3>2
    <3>4. h[k] \in Seq(S) /\ g[k + 1] \in Seq(S)
      BY <2>1, <2>3, <3>2
    <3> QED
      BY ONLY <3>3, <3>4
  <2>4. \A k \in Nat : k \in K
    BY <2>2, <2>3, SetInduction
  <2>5. \A k \in 0 .. L : h[k] \in Seq(S)
    BY <2>1, <2>4
  <2> QED
    BY <1>6, <2>5
<1> QED
  BY <1>5, <1>6

-----------------------------------------------------------------------------
(* Requests. *)

(* Two texts one after the other. *)
LEMMA Joined ==
  ASSUME NEW S, NEW s \in Seq(S), NEW t \in Seq(S)
  PROVE  /\ s \o t \in Seq(S) /\ Len(s \o t) = Len(s) + Len(t)
         /\ \A i \in 1 .. Len(s) : (s \o t)[i] = s[i]
         /\ \A i \in 1 .. Len(t) : (s \o t)[Len(s) + i] = t[i]
  OBVIOUS

(* They are told apart by the length of the first one. *)
LEMMA Halved ==
  ASSUME NEW S, NEW p \in Seq(S), NEW q \in Seq(S), NEW a \in Seq(S), NEW b \in Seq(S)
  PROVE  Len(p) = Len(q) /\ p \o a = q \o b => p = q /\ a = b
<1>1. PICK c \in Seq(S) : /\ c = p \o a /\ Len(c) = Len(p) + Len(a)
                          /\ \A i \in 1 .. Len(p) : c[i] = p[i]
                          /\ \A i \in 1 .. Len(a) : c[Len(p) + i] = a[i]
  <2>1. /\ p \o a \in Seq(S) /\ Len(p \o a) = Len(p) + Len(a)
        /\ \A i \in 1 .. Len(p) : (p \o a)[i] = p[i]
        /\ \A i \in 1 .. Len(a) : (p \o a)[Len(p) + i] = a[i]
    OBVIOUS
  <2> QED
    BY <2>1, Zenon
<1>2. PICK d \in Seq(S) : /\ d = q \o b /\ Len(d) = Len(q) + Len(b)
                          /\ \A i \in 1 .. Len(q) : d[i] = q[i]
                          /\ \A i \in 1 .. Len(b) : d[Len(q) + i] = b[i]
  <2>1. /\ q \o b \in Seq(S) /\ Len(q \o b) = Len(q) + Len(b)
        /\ \A i \in 1 .. Len(q) : (q \o b)[i] = q[i]
        /\ \A i \in 1 .. Len(b) : (q \o b)[Len(q) + i] = b[i]
    OBVIOUS
  <2> QED
    BY <2>1, Zenon
<1>3. SUFFICES ASSUME Len(p) = Len(q), c = d PROVE p = q /\ a = b
  BY <1>1, <1>2
<1>4. p = q
  <2>1. \A i \in 1 .. Len(p) : p[i] = q[i]
    BY <1>1, <1>2, <1>3
  <2> QED
    BY <1>3, <2>1, SeqEqual
<1>5. Len(a) = Len(b)
  BY <1>1, <1>2, <1>3
<1>6. a = b
  <2>1. \A i \in 1 .. Len(a) : a[i] = b[i]
    BY <1>1, <1>2, <1>3, <1>5
  <2> QED
    BY <1>5, <2>1, SeqEqual
<1> QED
  BY <1>4, <1>6

(* What a path is made of. *)
Words == Segments \cup {"users", "post", "increment", "get"}

LEMMA IDsPrint ==
  ASSUME NEW r \in Requests
  PROVE  Printed(r.project) \in Seq(Words) /\ Printed(r.user) \in Seq(Words)
<1>1. ASSUME NEW s \in Seq(Segments) PROVE s \in Seq(Words)
  BY DEF Words
<1>2. /\ r.project \in ProjectIds \cup {NilId}
      /\ r.user \in UserIds \cup {NilId}
  BY DEF Requests
<1>3. <<"(null)">> \in Seq(Words)
  BY RequestsAssumption DEF Words
<1> QED
  BY <1>1, <1>2, <1>3, RequestsAssumption DEF Printed

(* The words behind an ID tell the queries apart when the IDs before them   *)
(* are equally long.                                                        *)
LEMMA ProjectsDiffer ==
  ASSUME NEW p \in Seq(Words), NEW q \in Seq(Words), Len(p) = Len(q),
         NEW v \in Seq(Words), NEW x \in Words
  PROVE  /\ p \o <<"get">> = q \o <<"get">> => p = q
         /\ p \o <<"get">> # q \o <<"users", x>> \o v
<1>1. PICK g \in Seq(Words), t \in Seq(Words) :
        /\ g = <<"get">> /\ Len(g) = 1 /\ g[1] = "get"
        /\ t = <<"users", x>> /\ Len(t) = 2 /\ t[1] = "users"
  <2>1. <<"get">> \in Seq(Words) /\ <<"users", x>> \in Seq(Words)
    BY DEF Words
  <2> QED
    BY <2>1
<1>2. p \o g = q \o g => p = q
  BY Halved
<1>3. PICK b \in Seq(Words) : /\ b = q \o t /\ Len(b) = Len(q) + Len(t)
                              /\ \A i \in 1 .. Len(t) : b[Len(q) + i] = t[i]
  <2>1. /\ q \o t \in Seq(Words) /\ Len(q \o t) = Len(q) + Len(t)
        /\ \A i \in 1 .. Len(t) : (q \o t)[Len(q) + i] = t[i]
    BY Joined
  <2> QED
    BY <2>1, Zenon
<1>4. p \o g # b \o v
  <2>1. (p \o g)[Len(p) + 1] = "get"
    <3>1. \A i \in 1 .. Len(g) : (p \o g)[Len(p) + i] = g[i]
      BY Joined
    <3> QED
      BY <1>1, <3>1
  <2>2. (b \o v)[Len(q) + 1] = "users"
    <3>1. \A i \in 1 .. Len(b) : (b \o v)[i] = b[i]
      BY Joined
    <3>2. Len(q) + 1 \in 1 .. Len(b) /\ b[Len(q) + 1] = "users"
      BY <1>1, <1>3
    <3> QED
      BY <3>1, <3>2
  <2> QED
    BY <2>1, <2>2
<1> QED
  BY <1>1, <1>2, <1>3, <1>4, Zenon

(* Requests that are sent along the same path with the same method are the  *)
(* same, in every state: it is a fact about the paths.                      *)
LEMMA PathsDiffer == request \in Requests => PathsIdentify
<1> SUFFICES ASSUME request \in Requests, NEW r \in Requests,
                    ~PrintsAsNil(r), ~PrintsAsNil(request),
                    Len(Printed(r.project)) = Len(Printed(request.project)),
                    pathURL(r) = pathURL(request), HTTPMethod(r) = HTTPMethod(request)
             PROVE  r = request
  BY DEF PathsIdentify
<1>1. /\ r.kind \in Kinds \cup Queries /\ request.kind \in Kinds \cup Queries
      /\ r = [kind |-> r.kind, project |-> r.project, user |-> r.user]
      /\ request = [kind |-> request.kind, project |-> request.project, user |-> request.user]
  BY DEF Requests, Kinds, Queries
<1>2. r.kind = "getProject" => r.user = NilId
  BY DEF Requests, Kinds
<1>3. request.kind = "getProject" => request.user = NilId
  BY DEF Requests, Kinds
<1>4. /\ Printed(r.project) = Printed(request.project) => r.project = request.project
      /\ Printed(r.user) = Printed(request.user) => r.user = request.user
  BY DEF PrintsAsNil, Printed
<1>5. PICK p \in Seq(Words), q \in Seq(Words), u \in Seq(Words), v \in Seq(Words) :
        /\ p = Printed(r.project) /\ q = Printed(request.project)
        /\ u = Printed(r.user) /\ v = Printed(request.user)
  BY IDsPrint
<1> DEFINE Word(kind) == IF kind = "getUser" THEN "get" ELSE kind
           Path(kind, i, j) == IF kind = "getProject" THEN i \o <<"get">> ELSE i \o <<"users", Word(kind)>> \o j
<1>6. pathURL(r) = Path(r.kind, p, u)
  BY <1>1, <1>5 DEF pathURL, PathOfPost, PathOfIncrement, Kinds, Queries
<1>7. pathURL(request) = Path(request.kind, q, v)
  BY <1>1, <1>5 DEF pathURL, PathOfPost, PathOfIncrement, Kinds, Queries
<1>8. \A kind \in (Kinds \cup Queries) \ {"getProject"} : Word(kind) \in Words
  BY DEF Words, Kinds, Queries
<1> HIDE DEF Word
<1>9. Len(p) = Len(q) /\ Path(r.kind, p, u) = Path(request.kind, q, v)
  BY <1>5, <1>6, <1>7
<1>10. PICK w \in Words, x \in Words :
         /\ r.kind # "getProject" => w = Word(r.kind)
         /\ request.kind # "getProject" => x = Word(request.kind)
  <2>1. "get" \in Words
    BY DEF Words
  <2> QED
    BY <1>1, <1>8, <2>1
<1>11. /\ p = q
       /\ r.kind = "getProject" <=> request.kind = "getProject"
       /\ r.kind # "getProject" => w = x /\ u = v
  <2>1. CASE r.kind = "getProject" /\ request.kind = "getProject"
    <3>1. p \o <<"get">> = q \o <<"get">>
      BY <1>9, <2>1
    <3> QED
      BY <1>9, <2>1, <3>1, ProjectsDiffer
  <2>2. CASE r.kind = "getProject" /\ request.kind # "getProject"
    <3>1. p \o <<"get">> = q \o <<"users", x>> \o v
      BY <1>9, <1>10, <2>2
    <3> QED
      BY <1>9, <3>1, ProjectsDiffer
  <2>3. CASE r.kind # "getProject" /\ request.kind = "getProject"
    <3>1. q \o <<"get">> = p \o <<"users", w>> \o u
      BY <1>9, <1>10, <2>3
    <3> QED
      BY <1>9, <3>1, ProjectsDiffer
  <2>4. CASE r.kind # "getProject" /\ request.kind # "getProject"
    <3>1. PICK s \in Seq(Words), t \in Seq(Words) :
            /\ s = <<"users", w>> /\ t = <<"users", x>> /\ Len(s) = 2 /\ Len(t) = 2
            /\ s[2] = w /\ t[2] = x
      <4>1. <<"users", w>> \in Seq(Words) /\ <<"users", x>> \in Seq(Words)
        BY DEF Words
      <4> QED
        BY <4>1
    <3>2. PICK a \in Seq(Words), b \in Seq(Words) :
            a = p \o s /\ b = q \o t /\ Len(a) = Len(p) + 2 /\ Len(b) = Len(q) + 2
      <4>1. /\ p \o s \in Seq(Words) /\ Len(p \o s) = Len(p) + Len(s)
            /\ q \o t \in Seq(Words) /\ Len(q \o t) = Len(q) + Len(t)
        BY Joined
      <4> QED
        BY <3>1, <4>1
    <3>3. a \o u = b \o v
      BY <1>9, <1>10, <2>4, <3>1, <3>2
    <3>4. Len(a) = Len(b)
      BY <1>9, <3>2
    <3>5. a = b /\ u = v
      BY <3>3, <3>4, Halved
    <3>6. p \o s = q \o t
      BY ONLY <3>2, <3>5
    <3>7. Len(p) = Len(q)
      BY <1>9
    <3>8. p = q /\ s = t
      BY <3>6, <3>7, Halved
    <3> QED
      BY <2>4, <3>1, <3>5, <3>8
  <2> QED
    BY <2>1, <2>2, <2>3, <2>4
<1>12. r.kind = request.kind
  BY <1>1, <1>10, <1>11 DEF Word, Kinds, Queries, HTTPMethod
<1> QED
  BY <1>1, <1>2, <1>3, <1>4, <1>5, <1>9, <1>11, <1>12

RequestTypeOK ==
  /\ request \in Requests
  /\ pairs \in Seq(Pairs)
  /\ Distinct(pairs)
  /\ object \in [Pairs -> [key : Keys, value : Values]]
  /\ next \in 1 .. (Len(pairs) + 2)
  /\ body \in Seq(Tokens)

(* The length of the body before the turn for each place: every pair takes  *)
(* a node and a comma, but the last one, which has no comma.                *)
Written(n) == IF n = Len(pairs) + 1 /\ Len(pairs) > 0 THEN 6 * n - 6 ELSE 6 * n - 5

NodeOf(i) ==
  /\ body[6 * i - 4] = NodeBegin
  /\ body[6 * i - 3] = object[pairs[i]].key[1]
  /\ body[6 * i - 2] = Between
  /\ body[6 * i - 1] = Shown(object[pairs[i]].value)
  /\ body[6 * i] = NodeEnd

BodyInd ==
  body # NoBody /\ AllPlain =>
    /\ Len(body) = IF next = Len(pairs) + 2 THEN Written(next - 1) + 1 ELSE Written(next)
    /\ body[1] = Opening
    /\ \A i \in 1 .. Len(pairs) : i < next => NodeOf(i)
    /\ \A i \in 1 .. Len(pairs) : i < next /\ i < Len(pairs) => body[6 * i + 1] = Separator
    /\ next = Len(pairs) + 2 => body[Len(body)] = Closing

RequestInd ==
  /\ RequestTypeOK
  /\ body = NoBody => next = 1
  /\ BodyInd

LEMMA SignsAreTokens ==
  /\ {Opening, Separator, Closing, NodeBegin, Between, NodeEnd} \subseteq Tokens
  /\ \A value \in Values : Shown(value) \in Tokens
<1>1. ASSUME NEW s \in Signs PROVE Sign(s) \in Tokens
  BY DEF Sign, Token, Tokens
<1>2. {Opening, Separator, Closing, NodeBegin, Between, NodeEnd} \subseteq Tokens
  BY <1>1 DEF Opening, Separator, Closing, NodeBegin, Between, NodeEnd, Signs
<1>3. ASSUME NEW value \in Values PROVE Shown(value) \in Tokens
  BY RequestsAssumption DEF Shown, Text, Numeral, Token, Tokens
<1> QED
  BY <1>2, <1>3

LEMMA RequestInitInd == RequestInit => RequestInd
<1> SUFFICES ASSUME RequestInit PROVE RequestInd
  OBVIOUS
<1>1. pairs \in Seq(Pairs) /\ Distinct(pairs)
  <2>1. CASE request.kind \in Kinds
    BY <2>1 DEF RequestInit, PairLists
  <2>2. CASE request.kind \notin Kinds
    BY <2>2 DEF RequestInit, Distinct
  <2> QED
    BY <2>1, <2>2
<1>2. body = <<Opening>> \/ (body = NoBody /\ pairs = <<>>)
  BY DEF RequestInit
<1>3. <<Opening>> \in Seq(Tokens) /\ <<>> \in Seq(Tokens)
  BY SignsAreTokens
<1>4. RequestTypeOK
  BY <1>1, <1>2, <1>3 DEF RequestInit, RequestTypeOK, NoBody
<1>5. BodyInd
  BY <1>1, <1>2 DEF RequestInit, BodyInd, Written, NoBody
<1> QED
  BY <1>4, <1>5 DEF RequestInd, RequestInit

(* The pair is the last object exactly at the last place, since no object   *)
(* is in the list twice.                                                    *)
LEMMA LastPlace ==
  ASSUME RequestTypeOK, next \in 1 .. Len(pairs)
  PROVE  IsLastObject(pairs[next]) <=> next = Len(pairs)
  BY DEF RequestTypeOK, Distinct, IsLastObject, Last

(* The node of a pair; of one whose key is plain, five tokens.              *)
LEMMA NodeTokens ==
  ASSUME NEW o \in [key : Keys, value : Values],
         NEW node, node = <<NodeBegin>> \o o.key \o <<Between, Shown(o.value), NodeEnd>>
  PROVE  /\ node \in Seq(Tokens)
         /\ o.key \in PlainKeys =>
              /\ Len(node) = 5
              /\ node[1] = NodeBegin /\ node[2] = o.key[1] /\ node[3] = Between
              /\ node[4] = Shown(o.value) /\ node[5] = NodeEnd
<1>1. o.key \in Seq(Tokens)
  BY RequestsAssumption
<1>2. PICK shown \in Tokens, begin \in Tokens, between \in Tokens, end \in Tokens :
        shown = Shown(o.value) /\ begin = NodeBegin /\ between = Between /\ end = NodeEnd
  BY SignsAreTokens
<1>3. PICK key \in Seq(Tokens) : key = o.key
  BY <1>1
<1>4. PICK b \in Seq(Tokens) : /\ b = <<begin>> \o key /\ Len(b) = 1 + Len(key) /\ b[1] = begin
                               /\ \A i \in 1 .. Len(key) : b[1 + i] = key[i]
  <2>1. PICK first \in Seq(Tokens) : first = <<begin>> /\ Len(first) = 1 /\ first[1] = begin
    <3>1. <<begin>> \in Seq(Tokens)
      OBVIOUS
    <3> QED
      BY <3>1
  <2>2. /\ first \o key \in Seq(Tokens) /\ Len(first \o key) = Len(first) + Len(key)
        /\ \A i \in 1 .. Len(first) : (first \o key)[i] = first[i]
        /\ \A i \in 1 .. Len(key) : (first \o key)[Len(first) + i] = key[i]
    BY Joined
  <2>3. PICK c \in Seq(Tokens) : c = first \o key
    BY <2>2
  <2>4. Len(c) = 1 + Len(key) /\ c[1] = begin /\ \A i \in 1 .. Len(key) : c[1 + i] = key[i]
    BY <2>1, <2>2, <2>3
  <2> QED
    BY <2>1, <2>3, <2>4
<1>5. PICK rest \in Seq(Tokens) : /\ rest = <<between, shown, end>> /\ Len(rest) = 3
                                  /\ rest[1] = between /\ rest[2] = shown /\ rest[3] = end
  <2>1. <<between, shown, end>> \in Seq(Tokens)
    OBVIOUS
  <2> QED
    BY <2>1
<1>6. node = b \o rest
  BY <1>2, <1>3, <1>4, <1>5
<1>7. /\ node \in Seq(Tokens) /\ Len(node) = Len(b) + 3
      /\ \A i \in 1 .. Len(b) : node[i] = b[i]
      /\ \A i \in 1 .. 3 : node[Len(b) + i] = rest[i]
  <2>1. /\ b \o rest \in Seq(Tokens) /\ Len(b \o rest) = Len(b) + Len(rest)
        /\ \A i \in 1 .. Len(b) : (b \o rest)[i] = b[i]
        /\ \A i \in 1 .. Len(rest) : (b \o rest)[Len(b) + i] = rest[i]
    BY Joined
  <2> QED
    BY <1>5, <1>6, <2>1
<1>8. ASSUME o.key \in PlainKeys
      PROVE  /\ Len(node) = 5
             /\ node[1] = begin /\ node[2] = key[1] /\ node[3] = between
             /\ node[4] = shown /\ node[5] = end
  <2>1. Len(key) = 1
    BY <1>3, <1>8 DEF PlainKeys
  <2>2. Len(b) = 2 /\ b[2] = key[1]
    BY <1>4, <2>1
  <2> QED
    BY <1>4, <1>5, <1>7, <2>2
<1> QED
  BY <1>2, <1>3, <1>7, <1>8

LEMMA AppendPairInd ==
  ASSUME RequestInd, AppendPair
  PROVE  RequestInd'
<1>1. /\ pairs \in Seq(Pairs) /\ body \in Seq(Tokens) /\ body # NoBody
      /\ next \in 1 .. Len(pairs) /\ object[pairs[next]] \in [key : Keys, value : Values]
  BY DEF RequestInd, RequestTypeOK, AppendPair
<1>2. PICK N \in Nat : N = Len(pairs)
  BY <1>1
<1>3. PICK n \in 1 .. N : n = next
  BY <1>1, <1>2
<1>4. PICK o \in [key : Keys, value : Values] : o = object[pairs[n]]
  BY <1>1, <1>3
<1>5. PICK node : node = <<NodeBegin>> \o o.key \o <<Between, Shown(o.value), NodeEnd>>
  OBVIOUS
<1>6. PICK comma \in Seq(Tokens) :
        /\ comma = IF n = N THEN <<>> ELSE <<Separator>>
        /\ Len(comma) = IF n = N THEN 0 ELSE 1
        /\ n # N => comma[1] = Separator
  <2>1. PICK separator \in Tokens : separator = Separator
    BY SignsAreTokens
  <2>2. <<separator>> \in Seq(Tokens) /\ <<>> \in Seq(Tokens)
    OBVIOUS
  <2> QED
    BY <2>1, <2>2
<1>7. /\ next' = n + 1 /\ UNCHANGED <<request, pairs, object>>
      /\ body' = body \o node \o comma
  <2>1. IsLastObject(pairs[n]) <=> n = N
    BY <1>1, <1>2, <1>3, LastPlace DEF RequestInd
  <2> QED
    BY <1>3, <1>4, <1>5, <1>6, <2>1 DEF AppendPair, Node, Comma
<1>8. /\ node \in Seq(Tokens)
      /\ o.key \in PlainKeys =>
           /\ Len(node) = 5
           /\ node[1] = NodeBegin /\ node[2] = o.key[1] /\ node[3] = Between
           /\ node[4] = Shown(o.value) /\ node[5] = NodeEnd
  BY <1>5, NodeTokens
<1>9. PICK m \in Nat, l \in Nat : m = Len(body) /\ l = Len(node)
  BY <1>1, <1>8
<1>10. PICK b \in Seq(Tokens) : /\ b = body \o node /\ Len(b) = m + l
                                /\ \A i \in 1 .. m : b[i] = body[i]
                                /\ \A i \in 1 .. l : b[m + i] = node[i]
  <2>1. PICK s \in Seq(Tokens), t \in Seq(Tokens) : s = body /\ t = node
    BY <1>1, <1>8
  <2>2. /\ s \o t \in Seq(Tokens) /\ Len(s \o t) = Len(s) + Len(t)
        /\ \A i \in 1 .. Len(s) : (s \o t)[i] = s[i]
        /\ \A i \in 1 .. Len(t) : (s \o t)[Len(s) + i] = t[i]
    BY Joined
  <2> QED
    BY <1>9, <2>1, <2>2
<1>11. /\ body' \in Seq(Tokens) /\ Len(body') = m + l + (IF n = N THEN 0 ELSE 1)
       /\ \A i \in 1 .. m + l : body'[i] = b[i]
       /\ n # N => body'[m + l + 1] = Separator
  <2>1. /\ b \o comma \in Seq(Tokens) /\ Len(b \o comma) = Len(b) + Len(comma)
        /\ \A i \in 1 .. Len(b) : (b \o comma)[i] = b[i]
        /\ \A i \in 1 .. Len(comma) : (b \o comma)[Len(b) + i] = comma[i]
    BY Joined
  <2>2. body' = b \o comma
    BY <1>7, <1>10
  <2> QED
    BY <1>6, <1>10, <2>1, <2>2
<1>12. m > 0 /\ body' # NoBody
  <2>1. m > 0
    BY <1>1, <1>9 DEF NoBody
  <2> QED
    BY <1>11, <2>1 DEF NoBody
<1>13. RequestTypeOK'
  BY <1>2, <1>3, <1>7, <1>11 DEF RequestInd, RequestTypeOK
<1>14. ASSUME AllPlain
       PROVE  /\ Len(body') = IF n + 1 = N + 1 /\ N > 0 THEN 6 * (n + 1) - 6 ELSE 6 * (n + 1) - 5
              /\ body'[1] = Opening
              /\ \A i \in 1 .. N : i < n + 1 => NodeOf(i)'
              /\ \A i \in 1 .. N : i < n + 1 /\ i < N => body'[6 * i + 1] = Separator
  <2>1. o.key \in PlainKeys /\ l = 5
    <3>1. o.key \in PlainKeys
      BY <1>1, <1>2, <1>4, <1>14 DEF AllPlain
    <3> QED
      BY <1>8, <1>9, <3>1
  <2>2. m = 6 * n - 5
    BY <1>1, <1>2, <1>3, <1>9, <1>14 DEF RequestInd, BodyInd, Written
  <2>3. /\ body[1] = Opening
        /\ \A i \in 1 .. N : i < n => NodeOf(i)
        /\ \A i \in 1 .. N : i < n /\ i < N => body[6 * i + 1] = Separator
    BY <1>1, <1>2, <1>3, <1>14 DEF RequestInd, BodyInd
  <2>4. \A i \in 1 .. m : body'[i] = body[i]
    <3> TAKE i \in 1 .. m
    <3>1. i \in 1 .. m + l
      OBVIOUS
    <3> QED
      BY <1>10, <1>11, <3>1
  <2>5. /\ body'[m + 1] = NodeBegin /\ body'[m + 2] = o.key[1] /\ body'[m + 3] = Between
        /\ body'[m + 4] = Shown(o.value) /\ body'[m + 5] = NodeEnd
    <3>1. ASSUME NEW i \in 1 .. 5 PROVE body'[m + i] = node[i]
      <4>1. m + i \in 1 .. m + l /\ i \in 1 .. l
        BY <2>1
      <4> QED
        BY <1>10, <1>11, <4>1
    <3> QED
      BY <1>8, <2>1, <3>1
  <2>6. ASSUME NEW i \in 1 .. N, i < n + 1 PROVE NodeOf(i)'
    <3>1. CASE i = n
      <4>1. /\ 6 * i - 4 = m + 1 /\ 6 * i - 3 = m + 2 /\ 6 * i - 2 = m + 3
            /\ 6 * i - 1 = m + 4 /\ 6 * i = m + 5
        BY <2>2, <3>1
      <4>2. object'[pairs'[i]] = o
        BY <1>4, <1>7, <3>1
      <4> QED
        BY <2>5, <4>1, <4>2 DEF NodeOf
    <3>2. CASE i < n
      <4>1. {6 * i - 4, 6 * i - 3, 6 * i - 2, 6 * i - 1, 6 * i} \subseteq 1 .. m
        BY <2>2, <3>2
      <4>2. NodeOf(i)
        BY <2>3, <3>2
      <4> QED
        BY <1>7, <2>4, <4>1, <4>2 DEF NodeOf
    <3> QED
      BY <2>6, <3>1, <3>2
  <2>7. ASSUME NEW i \in 1 .. N, i < n + 1, i < N PROVE body'[6 * i + 1] = Separator
    <3>1. CASE i = n
      BY <1>11, <2>1, <2>2, <2>7, <3>1
    <3>2. CASE i < n
      <4>1. 6 * i + 1 \in 1 .. m
        BY <2>2, <3>2
      <4> QED
        BY <2>3, <2>4, <2>7, <3>2, <4>1
    <3> QED
      BY <2>7, <3>1, <3>2
  <2>8. Len(body') = IF n + 1 = N + 1 /\ N > 0 THEN 6 * (n + 1) - 6 ELSE 6 * (n + 1) - 5
    BY <1>11, <2>1, <2>2
  <2>9. body'[1] = Opening
    BY <1>12, <2>3, <2>4
  <2> QED
    BY <2>6, <2>7, <2>8, <2>9
<1>15. BodyInd'
  <2>1. AllPlain' <=> AllPlain
    BY <1>7 DEF AllPlain
  <2>2. next' = n + 1 /\ Len(pairs') = N /\ n + 1 # N + 2
    BY <1>2, <1>7
  <2> QED
    BY <1>14, <2>1, <2>2 DEF BodyInd, Written
<1> QED
  BY <1>12, <1>13, <1>15 DEF RequestInd

LEMMA AppendEndInd ==
  ASSUME RequestInd, AppendEnd
  PROVE  RequestInd'
<1>1. /\ pairs \in Seq(Pairs) /\ body \in Seq(Tokens) /\ body # NoBody
  BY DEF RequestInd, RequestTypeOK, AppendEnd
<1>2. PICK N \in Nat : N = Len(pairs)
  BY <1>1
<1>3. PICK end \in Tokens : end = Closing
  BY SignsAreTokens
<1>4. /\ next = N + 1 /\ next' = N + 2 /\ UNCHANGED <<request, pairs, object>>
      /\ body' = Append(body, end)
  BY <1>2, <1>3 DEF AppendEnd
<1>5. PICK m \in Nat : m = Len(body)
  BY <1>1
<1>6. /\ body' \in Seq(Tokens) /\ Len(body') = m + 1
      /\ body'[m + 1] = Closing
      /\ \A i \in 1 .. m : body'[i] = body[i]
  BY <1>1, <1>3, <1>4, <1>5
<1>7. RequestTypeOK'
  BY <1>2, <1>4, <1>6 DEF RequestInd, RequestTypeOK
<1>8. body' # NoBody
  BY <1>5, <1>6 DEF NoBody
<1>9. ASSUME AllPlain
      PROVE  /\ Len(body') = Written(N + 1) + 1
             /\ body'[1] = Opening
             /\ \A i \in 1 .. N : NodeOf(i)'
             /\ \A i \in 1 .. N : i < N => body'[6 * i + 1] = Separator
  <2>1. /\ m = (IF N > 0 THEN 6 * N ELSE 1) /\ m = Written(N + 1)
        /\ body[1] = Opening
        /\ \A i \in 1 .. N : NodeOf(i)
        /\ \A i \in 1 .. N : i < N => body[6 * i + 1] = Separator
    <3>1. next # Len(pairs) + 2 /\ next = Len(pairs) + 1 /\ \A i \in 1 .. N : i < next
      BY <1>2, <1>4
    <3>2. Len(body) = Written(next)
      BY <1>1, <1>9, <3>1 DEF RequestInd, BodyInd
    <3>3. m = Written(N + 1) /\ m = IF N > 0 THEN 6 * N ELSE 1
      BY <1>2, <1>4, <1>5, <3>2 DEF Written
    <3>4. /\ body[1] = Opening
          /\ \A i \in 1 .. N : i < next => NodeOf(i)
          /\ \A i \in 1 .. N : i < next /\ i < N => body[6 * i + 1] = Separator
      BY <1>1, <1>2, <1>9 DEF RequestInd, BodyInd
    <3> QED
      BY <3>1, <3>3, <3>4
  <2>2. body'[1] = Opening
    <3>1. 1 \in 1 .. m
      BY <2>1
    <3> QED
      BY <1>6, <2>1, <3>1
  <2>3. ASSUME NEW i \in 1 .. N PROVE NodeOf(i)'
    <3>1. {6 * i - 4, 6 * i - 3, 6 * i - 2, 6 * i - 1, 6 * i} \subseteq 1 .. m
      BY <2>1
    <3>2. NodeOf(i)
      BY <2>1
    <3> QED
      BY <1>4, <1>6, <3>1, <3>2 DEF NodeOf
  <2>4. ASSUME NEW i \in 1 .. N, i < N PROVE body'[6 * i + 1] = Separator
    <3>1. 6 * i + 1 \in 1 .. m
      BY <2>1, <2>4
    <3> QED
      BY <1>6, <2>1, <2>4, <3>1
  <2> QED
    BY <1>6, <2>1, <2>2, <2>3, <2>4
<1>10. BodyInd'
  <2>1. AllPlain' <=> AllPlain
    BY <1>4 DEF AllPlain
  <2>2. /\ next' = N + 2 /\ next' - 1 = N + 1 /\ Len(pairs') = N /\ Written(N + 1)' = Written(N + 1)
        /\ body'[Len(body')] = Closing
    BY <1>2, <1>4, <1>6 DEF Written
  <2>3. \A i \in 1 .. N : i < N + 2
    OBVIOUS
  <2> QED
    BY <1>9, <2>1, <2>2, <2>3 DEF BodyInd
<1> QED
  BY <1>7, <1>8, <1>10 DEF RequestInd

LEMMA RequestInvariant == RequestSpec => []RequestInd
<1>1. RequestInd /\ UNCHANGED requestVars => RequestInd'
  BY DEF requestVars, RequestInd, RequestTypeOK, BodyInd, Written, NodeOf, AllPlain
<1>2. RequestInd /\ [RequestNext]_requestVars => RequestInd'
  BY <1>1, AppendPairInd, AppendEndInd DEF RequestNext
<1> QED
  BY <1>2, RequestInitInd, PTL DEF RequestSpec

(* The body that was written is an array of the pairs, in their order, and  *)
(* none if a value is not finite.                                           *)
LEMMA BodyIsRead == RequestInd => BodyReadsBack
<1> SUFFICES ASSUME RequestInd, next > Len(pairs) + 1, AllPlain
             PROVE  IF \A i \in DOMAIN pairs : object[pairs[i]].value \in FiniteOnes
                    THEN IsArray(body) /\ NodesOf(body) = [i \in DOMAIN pairs |-> object[pairs[i]]]
                    ELSE ~IsArray(body)
  BY DEF BodyReadsBack
<1>1. pairs \in Seq(Pairs) /\ body \in Seq(Tokens) /\ object \in [Pairs -> [key : Keys, value : Values]]
  BY DEF RequestInd, RequestTypeOK
<1>2. PICK N \in Nat : N = Len(pairs) /\ DOMAIN pairs = 1 .. N
  BY <1>1
<1>3. next = N + 2 /\ body # NoBody
  BY <1>2 DEF RequestInd, RequestTypeOK
<1>4. PICK n \in Nat : n = Len(body)
  BY <1>1
<1>5. /\ n = Written(N + 1) + 1
      /\ body[1] = Opening /\ body[n] = Closing
      /\ \A i \in 1 .. N : NodeOf(i)
      /\ \A i \in 1 .. N : i < N => body[6 * i + 1] = Separator
  BY <1>2, <1>3, <1>4 DEF RequestInd, BodyInd
<1>6. n = (IF N > 0 THEN 6 * N + 1 ELSE 2) /\ n \div 6 = N
  <2>1. n = (IF N > 0 THEN 6 * N + 1 ELSE 2)
    BY <1>2, <1>5 DEF Written
  <2> QED
    BY <2>1
<1>7. \A i \in 1 .. N : /\ object[pairs[i]] \in [key : Keys, value : Values]
                        /\ object[pairs[i]].key \in PlainKeys
  BY <1>1, <1>2 DEF AllPlain
<1>8. Count(body) = N
  BY <1>4, <1>6 DEF Count, NodeLength
<1>9. ASSUME NEW i \in 1 .. N
      PROVE  /\ body[Place(i) + 5] = IF i = N THEN Closing ELSE Separator
             /\ body[Place(i) + 1].type = "text" /\ object[pairs[i]].key = <<body[Place(i) + 1]>>
             /\ IF object[pairs[i]].value \in FiniteOnes
                THEN body[Place(i) + 3].of = object[pairs[i]].value
                ELSE body[Place(i) + 3].type # "number"
             /\ IsNodeAt(body, Place(i)) <=> object[pairs[i]].value \in FiniteOnes
  <2>1. PICK o \in [key : Keys, value : Values] : o = object[pairs[i]] /\ o.key \in PlainKeys
    BY <1>7
  <2>2. /\ Place(i) = 6 * i - 4 /\ Place(i) + 1 = 6 * i - 3 /\ Place(i) + 2 = 6 * i - 2
        /\ Place(i) + 3 = 6 * i - 1 /\ Place(i) + 4 = 6 * i /\ Place(i) + 5 = 6 * i + 1
    BY DEF Place, NodeLength
  <2>3. NodeOf(i)
    BY <1>5
  <2>4. o.key = <<o.key[1]>> /\ o.key[1].type = "text"
    <3>1. PICK t \in Texts : o.key = <<Text(t)>>
      BY <2>1 DEF PlainKeys
    <3>2. o.key[1] = Text(t)
      BY <3>1
    <3> QED
      BY <3>1, <3>2 DEF Text, Token
  <2>5. IF o.value \in FiniteOnes
        THEN Shown(o.value).of = o.value /\ Shown(o.value).type = "number"
        ELSE Shown(o.value).type = "text"
    BY DEF Shown, Numeral, Text, Token
  <2>6. body[6 * i + 1] = IF i = N THEN Closing ELSE Separator
    BY <1>5, <1>6
  <2> QED
    BY <2>1, <2>2, <2>3, <2>4, <2>5, <2>6 DEF NodeOf, IsNodeAt
<1>10. CASE \A i \in 1 .. N : object[pairs[i]].value \in FiniteOnes
  <2>1. IsArray(body)
    <3>1. CASE N = 0
      <4>1. n = 2 /\ body[1] = Opening /\ body[2] = Closing
        BY <1>5, <1>6, <3>1
      <4>2. body = <<Opening, Closing>>
        <5>1. PICK first \in Tokens, last \in Tokens : first = Opening /\ last = Closing
          BY SignsAreTokens
        <5>2. <<first, last>> \in Seq(Tokens) /\ Len(<<first, last>>) = Len(body)
          BY <1>4, <4>1
        <5>3. \A i \in 1 .. Len(body) : body[i] = <<first, last>>[i]
          BY <1>4, <4>1, <5>1
        <5> QED
          BY <1>1, <5>1, <5>2, <5>3, SeqEqual
      <4> QED
        BY <4>2 DEF IsArray
    <3>2. CASE N > 0
      <4>1. Len(body) = (NodeLength + 1) * N + 1
        BY <1>4, <1>6, <3>2 DEF NodeLength
      <4>2. \A k \in 1 .. N : /\ IsNodeAt(body, Place(k))
                              /\ body[Place(k) + NodeLength] = IF k = N THEN Closing ELSE Separator
        BY <1>9, <1>10 DEF NodeLength
      <4> QED
        BY <1>5, <1>8, <3>2, <4>1, <4>2, Zenon DEF IsArray
    <3> QED
      BY <3>1, <3>2
  <2>2. NodesOf(body) = [i \in 1 .. N |-> object[pairs[i]]]
    <3>1. ASSUME NEW i \in 1 .. N
          PROVE  [key |-> <<body[Place(i) + 1]>>, value |-> body[Place(i) + 3].of] = object[pairs[i]]
      BY <1>7, <1>9, <1>10
    <3> QED
      BY <1>8, <3>1 DEF NodesOf
  <2> QED
    BY <1>2, <1>10, <2>1, <2>2
<1>11. CASE ~\A i \in 1 .. N : object[pairs[i]].value \in FiniteOnes
  <2>1. PICK i \in 1 .. N : object[pairs[i]].value \notin FiniteOnes
    BY <1>11
  <2>2. ~IsNodeAt(body, Place(i))
    BY <1>9, <2>1
  <2>3. body # <<Opening, Closing>>
    <3>1. n # 2
      BY <1>6
    <3> QED
      BY <1>4, <3>1
  <2>4. ~IsArray(body)
    BY <1>8, <2>2, <2>3 DEF IsArray
  <2> QED
    BY <1>2, <1>11, <2>4
<1> QED
  BY <1>10, <1>11

(* Whatever is requested, the server reads the pairs in their order when    *)
(* their keys need no escape and their values are finite, and nothing if a  *)
(* value is not; and the path tells requests apart whose projects have IDs  *)
(* of as many segments (BKApiRequestSetUserChanges.m:32-44,                 *)
(* BKApiRequestIncrementUserChanges.m:22).                                  *)
THEOREM RequestsReadBack == RequestSpec => []RequestReadsBack
<1>1. RequestInd => RequestReadsBack
  BY PathsDiffer, BodyIsRead DEF RequestInd, RequestTypeOK, RequestReadsBack
<1> QED
  BY <1>1, RequestInvariant, PTL

-----------------------------------------------------------------------------
(* Answers. *)

(* The items of an array or of a dictionary form a sequence. *)
LEMMA ItemsAreASequence ==
  ASSUME NEW v, WellFormed(v)
  PROVE  /\ Len(Items(v)) \in Nat
         /\ Items(v) = [i \in 1 .. Len(Items(v)) |-> Items(v)[i]]
<1>1. CASE v.type = "list"
  BY <1>1 DEF Items, WellFormed
<1>2. CASE v.type = "dict"
  <2>1. PICK n \in Nat : n = Cardinality(DOMAIN v.fields)
    BY <1>2, FS_CardinalityType DEF WellFormed
  <2>2. Items(v) = [i \in 1 .. n |-> String("key")]
    BY <1>2, <2>1 DEF Items
  <2>3. Len(Items(v)) = n
    BY <2>2
  <2> QED
    BY <2>2, <2>3
<1>3. CASE v.type \notin {"list", "dict"}
  BY <1>3 DEF Items
<1> QED
  BY <1>1, <1>2, <1>3

(* The rewards of a result, put together one achievement after another.    *)
LEMMA RewardsAreASequence ==
  ASSUME NEW result, WellFormed(result),
         \A i \in DOMAIN Items(result) : WellFormed(Field(Items(result)[i], "Rewards"))
  PROVE  /\ \E S : RewardsOf(result) \in Seq(S)
         /\ Items(result) = <<>> => RewardsOf(result) = <<>>
<1> DEFINE Of(i) == Items(Field(Items(result)[i], "Rewards"))
           L == Len(Items(result))
           upTo == CHOOSE f : f = [n \in 0 .. L |-> IF n = 0 THEN <<>> ELSE f[n - 1] \o Of(n)]
<1>1. L \in Nat /\ DOMAIN Items(result) = 1 .. L
  BY ItemsAreASequence
<1>2. \A i \in 1 .. L : Len(Of(i)) \in Nat /\ Of(i) = [j \in 1 .. Len(Of(i)) |-> Of(i)[j]]
  BY <1>1, ItemsAreASequence
<1>3. PICK S : S = UNION {{Of(i)[j] : j \in 1 .. Len(Of(i))} : i \in 1 .. L}
  OBVIOUS
<1>4. \A i \in 1 .. L : Of(i) \in Seq(S)
  <2> TAKE i \in 1 .. L
  <2> HIDE DEF Of
  <2>1. \A j \in 1 .. Len(Of(i)) : Of(i)[j] \in S
    BY <1>3
  <2> QED
    BY <1>2, <2>1
<1>5. RewardsOf(result) = upTo[L]
  BY DEF RewardsOf
<1> HIDE DEF Of, L
<1>6. PICK l \in Nat : l = L
  BY <1>1
<1>7. PICK g \in [1 .. l -> Seq(S)] : \A i \in 1 .. l : g[i] = Of(i)
  <2>1. [i \in 1 .. l |-> Of(i)] \in [1 .. l -> Seq(S)]
    BY <1>4, <1>6
  <2> QED
    BY <2>1
<1>8. PICK f : f = [n \in 0 .. l |-> IF n = 0 THEN <<>> ELSE f[n - 1] \o g[n]]
  BY JoinedSequences
<1>9. f = [n \in 0 .. L |-> IF n = 0 THEN <<>> ELSE f[n - 1] \o Of(n)]
  <2>1. \A n \in 0 .. l : n = 0 \/ n \in 1 .. l
    OBVIOUS
  <2>2. \A n \in 0 .. l : IF n = 0 THEN TRUE ELSE g[n] = Of(n)
    BY <1>7, <2>1, SMTT(30)
  <2> QED
    BY <1>6, <1>8, <2>2
<1>10. upTo = [n \in 0 .. L |-> IF n = 0 THEN <<>> ELSE upTo[n - 1] \o Of(n)]
  BY <1>9, ZenonT(40)
<1>11. PICK h : h = upTo
  BY SMTT(30)
<1>12. h = [n \in 0 .. l |-> IF n = 0 THEN <<>> ELSE h[n - 1] \o g[n]]
  <2>1. \A n \in 0 .. l : n = 0 \/ n \in 1 .. l
    OBVIOUS
  <2>2. \A n \in 0 .. l : IF n = 0 THEN TRUE ELSE g[n] = Of(n)
    BY <1>7, <2>1, SMTT(30)
  <2> QED
    BY <1>6, <1>10, <1>11, <2>2, ZenonT(40)
<1>13. h \in [0 .. l -> Seq(S)]
  BY <1>12, JoinedSequences
<1>14. RewardsOf(result) = h[l]
  BY <1>5, <1>6, <1>11
<1>15. RewardsOf(result) \in Seq(S)
  BY <1>13, <1>14
<1>16. ASSUME Items(result) = <<>> PROVE RewardsOf(result) = <<>>
  <2>1. l = 0
    BY <1>6, <1>16 DEF L
  <2> QED
    BY <1>12, <1>14, <2>1
<1> QED
  BY <1>15, <1>16

-----------------------------------------------------------------------------
(* The invariant of an answer. *)

(* What is stored of a reward. *)
StoredName(reward) ==
  LET name == Field(reward, "Name") IN IF name \in {Nil, Null} THEN Nil ELSE name

(* What was stored and what is still to be saved are together what the      *)
(* answer grants.                                                           *)
Aligned ==
  /\ Len(rows) + Len(pending) = Len(Promised)
  /\ \A i \in DOMAIN rows : rows[i] = StoredName(Promised[i])
  /\ \A i \in DOMAIN pending : pending[i] = Promised[Len(rows) + i]

Unsaved == rows = <<>> /\ pending = <<>> /\ ~writing

(* A reward whose name the realm does not take.                             *)
Stuck == Aligned /\ pending # <<>> /\ ~Storable(Name)

AnswerTypeOK ==
  /\ answer \in Answers
  /\ stage \in {"received", "document", "saving", "raised", "over", "dead"}
  /\ pending \in Seq({Promised[i] : i \in DOMAIN Promised})
  /\ rows \in Seq({StoredName(Promised[i]) : i \in DOMAIN Promised})
  /\ writing \in BOOLEAN

(* How far an answer has got.                                               *)
Course ==
  /\ stage # "over" => told = "nothing"
  /\ stage \in {"received", "document"} => Unsaved
  /\ stage = "saving" => Aligned /\ (writing => pending # <<>>)
  /\ stage \in {"raised", "dead"} => Unsaved \/ Stuck
  /\ stage = "over" =>
       \/ told = "success" /\ Aligned /\ pending = <<>> /\ ~writing
       \/ told \in {"ApiError", "PARSING_JSON_ERROR"} /\ Unsaved

(* What the top level of the document says of it.                           *)
ByTopLevel ==
  /\ HasError => Unsaved /\ stage # "saving" /\ told # "success"
  /\ answer.type = "dict" /\ {Error, Result} \subseteq {Nil, Null}
       => pending = <<>> /\ stage \notin {"raised", "dead"} /\ told \in {"nothing", "success"}

AnswerInd == AnswerTypeOK /\ Course /\ ByTopLevel

(* What an answer grants is a sequence of rewards.                          *)
LEMMA PromisedIsASequence ==
  ASSUME answer \in Answers
  PROVE  Promised \in Seq({Promised[i] : i \in DOMAIN Promised})
<1>1. WellFormed(Result) /\ \A i \in DOMAIN Items(Result) : WellFormed(Field(Items(Result)[i], "Rewards"))
  BY AnswersAssumption DEF Result
<1>2. PICK S : RewardsOf(Result) \in Seq(S)
  BY <1>1, RewardsAreASequence
<1>3. Promised = RewardsOf(Result) \/ Promised = <<>>
  BY Zenon DEF Promised
<1>4. PICK p \in Seq(S) : p = Promised
  <2>1. <<>> \in Seq(S)
    OBVIOUS
  <2> QED
    BY <1>2, <1>3, <2>1, Zenon
<1>5. p \in Seq({p[i] : i \in DOMAIN p})
  OBVIOUS
<1> QED
  BY <1>4, <1>5

(* A packet that was parsed holds all that the answer grants.               *)
LEMMA ParsedIsPromised ==
  ASSUME answer \in Answers, ResponseParsed
  PROVE  pending' = Promised
<1>1. CASE asked \notin {"post", "increment"}
  BY <1>1 DEF ResponseParsed, Promised
<1>2. CASE asked \in {"post", "increment"} /\ Present(Result)
  <2>1. EachItem(Result, UnlockedAchievementParses)
    BY <1>2 DEF ResponseParsed, ResultParses
  <2>2. EachItem(Result, Subscriptable)
    BY <2>1 DEF EachItem, UnlockedAchievementParses, UserAchievementParses, AchievementParses
  <2> QED
    BY <1>2, <2>2 DEF ResponseParsed, Promised, Granted
<1>3. CASE asked \in {"post", "increment"} /\ ~Present(Result)
  <2>1. pending' = <<>>
    BY <1>3 DEF ResponseParsed
  <2>2. Promised = <<>>
    <3>1. CASE Result = Null
      BY <3>1 DEF Promised, EachItem, Enumerable, Null
    <3>2. CASE Result = Nil
      <4>1. Items(Result) = <<>> /\ WellFormed(Result)
        BY <3>2 DEF Items, Nil, WellFormed
      <4>2. RewardsOf(Result) = <<>>
        BY <4>1, RewardsAreASequence
      <4> QED
        BY <4>2 DEF Promised
    <3> QED
      BY <1>3, <3>1, <3>2 DEF Present
  <2> QED
    BY <2>1, <2>2
<1> QED
  BY <1>1, <1>2, <1>3

(* The request and the answer stay what they are.                           *)
LEMMA SameAnswer ==
  ASSUME [AnswerNext]_answerVars
  PROVE  /\ UNCHANGED <<asked, answer>>
         /\ Promised' = Promised /\ Error' = Error /\ Result' = Result /\ HasError' = HasError
<1>1. UNCHANGED <<asked, answer>>
  BY DEF AnswerNext, ParsingError, Document, ApiError, ResponseParsed, DocumentRaises,
         BeginWriteTransaction, CommitWriteTransaction, AddObjectRaises, Success, UncaughtException,
         answerVars
<1> QED
  BY <1>1 DEF Promised, Error, Result, HasError

LEMMA AnswerInitInd == AnswerInit => AnswerInd
<1> SUFFICES ASSUME AnswerInit PROVE AnswerInd
  OBVIOUS
<1>1. AnswerTypeOK
  <2>1. \A S : <<>> \in Seq(S)
    OBVIOUS
  <2> QED
    BY <2>1 DEF AnswerInit, AnswerTypeOK
<1>2. Course
  BY DEF AnswerInit, Course, Unsaved
<1>3. ByTopLevel
  BY DEF AnswerInit, ByTopLevel, Unsaved
<1> QED
  BY <1>1, <1>2, <1>3 DEF AnswerInd

(* The first of the pending rewards becomes a row.                          *)
LEMMA CommitAligned ==
  ASSUME AnswerTypeOK, Aligned, CommitWriteTransaction, pending # <<>>, Promised' = Promised
  PROVE  /\ Aligned'
         /\ pending' \in Seq({Promised[i] : i \in DOMAIN Promised})
         /\ rows' \in Seq({StoredName(Promised[i]) : i \in DOMAIN Promised})
<1>1. PICK P, R, T : /\ P = Promised
                     /\ R = {P[i] : i \in DOMAIN P}
                     /\ T = {StoredName(P[i]) : i \in DOMAIN P}
  OBVIOUS
<1>2. P \in Seq(R) /\ pending \in Seq(R) /\ rows \in Seq(T)
  BY <1>1, PromisedIsASequence DEF AnswerTypeOK
<1>3. PICK m \in Nat, n \in Nat : m = Len(rows) /\ n = Len(pending)
  BY <1>2
<1>4. Len(P) = m + n /\ DOMAIN P = 1 .. (m + n) /\ n >= 1
  BY <1>1, <1>2, <1>3 DEF Aligned
<1>5. Head(pending) = P[m + 1] /\ m + 1 \in DOMAIN P
  <2>1. Head(pending) = pending[1] /\ 1 \in DOMAIN pending
    BY <1>2, <1>3, <1>4
  <2>2. pending[1] = P[m + 1]
    BY <1>1, <1>3, <2>1 DEF Aligned
  <2> QED
    BY <1>4, <2>1, <2>2
<1>6. RLMCoerceToNil(Name) = StoredName(P[m + 1])
  <2>1. PICK reward : reward = P[m + 1] /\ reward = Head(pending)
    BY <1>5
  <2>2. PICK name : name = Field(reward, "Name")
    OBVIOUS
  <2>3. RLMCoerceToNil(name) = IF name \in {Nil, Null} THEN Nil ELSE name
    BY DEF RLMCoerceToNil
  <2> QED
    BY <2>1, <2>2, <2>3 DEF Name, StoredName
<1>7. rows' = Append(rows, StoredName(P[m + 1])) /\ pending' = Tail(pending)
  BY <1>6 DEF CommitWriteTransaction
<1>8. PICK r \in T : r = StoredName(P[m + 1])
  BY <1>1, <1>5
<1>9. rows' = Append(rows, r)
  BY <1>7, <1>8
<1>10. /\ rows' \in Seq(T) /\ Len(rows') = m + 1
       /\ rows'[m + 1] = r /\ \A i \in 1 .. m : rows'[i] = rows[i]
  BY <1>2, <1>3, <1>9
<1>11. /\ pending' \in Seq(R) /\ Len(pending') = n - 1
       /\ \A i \in 1 .. (n - 1) : pending'[i] = pending[i + 1]
  BY <1>2, <1>3, <1>4, <1>7
<1>12. \A i \in 1 .. (m + 1) : rows'[i] = StoredName(P[i])
  <2>1. \A i \in 1 .. m : rows[i] = StoredName(P[i])
    <3>1. DOMAIN rows = 1 .. m
      BY <1>2, <1>3
    <3> QED
      BY <1>1, <3>1 DEF Aligned
  <2>2. \A i \in 1 .. (m + 1) : i \in 1 .. m \/ i = m + 1
    OBVIOUS
  <2> QED
    BY <1>8, <1>10, <2>1, <2>2
<1>13. \A i \in 1 .. (n - 1) : pending'[i] = P[m + 1 + i]
  <2>1. \A i \in 1 .. n : pending[i] = P[m + i]
    <3>1. DOMAIN pending = 1 .. n
      BY <1>2, <1>3
    <3> QED
      BY <1>1, <1>3, <3>1 DEF Aligned
  <2> TAKE i \in 1 .. (n - 1)
  <2>2. i + 1 \in 1 .. n /\ m + (i + 1) = m + 1 + i
    OBVIOUS
  <2> QED
    BY <1>11, <2>1, <2>2
<1>14. Aligned'
  <2>1. DOMAIN rows' = 1 .. (m + 1) /\ DOMAIN pending' = 1 .. (n - 1)
    BY <1>10, <1>11
  <2>2. Len(rows') + Len(pending') = Len(P)
    BY <1>4, <1>10, <1>11
  <2>3. Promised' = P
    BY <1>1
  <2> QED
    BY <1>10, <1>12, <1>13, <2>1, <2>2, <2>3 DEF Aligned
<1> QED
  BY <1>1, <1>10, <1>11, <1>14

(* Nothing saved, and all of it still to be.                                *)
LEMMA AllPendingAligned ==
  ASSUME rows' = <<>>, pending' = Promised, Promised' = Promised, answer \in Answers
  PROVE  Aligned'
<1>1. PICK S : Promised \in Seq(S)
  BY PromisedIsASequence
<1> QED
  BY <1>1 DEF Aligned

LEMMA AnswerNextInd == AnswerInd /\ [AnswerNext]_answerVars => AnswerInd'
<1> SUFFICES ASSUME AnswerInd, [AnswerNext]_answerVars PROVE AnswerInd'
  OBVIOUS
<1>1. /\ UNCHANGED <<asked, answer>>
      /\ Promised' = Promised /\ Error' = Error /\ Result' = Result /\ HasError' = HasError
  BY SameAnswer
<1> USE <1>1 DEF AnswerInd
<1>2. CASE UNCHANGED answerVars
  BY <1>2 DEF answerVars, AnswerTypeOK, Course, ByTopLevel, Unsaved, Stuck, Aligned, Name
<1>3. CASE ParsingError \/ Document \/ ApiError \/ DocumentRaises
  <2>1. Unsaved' /\ Unsaved /\ told = "nothing" /\ UNCHANGED <<pending, rows, writing>>
    BY <1>3 DEF ParsingError, Document, ApiError, DocumentRaises, Course, Unsaved
  <2>2. \/ stage' = "over" /\ told' \in {"ApiError", "PARSING_JSON_ERROR"}
        \/ stage' \in {"document", "raised"} /\ told' = told
    BY <1>3 DEF ParsingError, Document, ApiError, DocumentRaises, Tell
  <2>3. AnswerTypeOK' /\ Course'
    BY <2>1, <2>2 DEF AnswerTypeOK, Course, Unsaved
  <2>4. ByTopLevel'
    <3>1. ASSUME answer.type = "dict", {Error, Result} \subseteq {Nil, Null}
          PROVE  stage' = "document"
      <4>1. answer # NotJSON /\ Subscriptable(answer)
        BY <3>1 DEF NotJSON, Subscriptable
      <4>2. ~HasError /\ ~Present(Result)
        BY <3>1 DEF HasError, Present
      <4>3. ResponseParses /\ ResultParses(Result)
        BY <4>1, <4>2 DEF ResponseParses, ResultParses
      <4> QED
        BY <1>3, <4>1, <4>2, <4>3 DEF ParsingError, Document, ApiError, DocumentRaises
    <3> QED
      BY <2>1, <2>2, <3>1 DEF ByTopLevel, Unsaved
  <2> QED
    BY <2>3, <2>4
<1>4. CASE ResponseParsed
  <2>1. pending' = Promised
    BY <1>4, ParsedIsPromised DEF AnswerTypeOK
  <2>2. Unsaved /\ stage' = "saving" /\ ~HasError /\ told = "nothing" /\ UNCHANGED <<rows, writing, told>>
    BY <1>4 DEF ResponseParsed, Course
  <2>3. Aligned'
    BY <2>1, <2>2, AllPendingAligned DEF AnswerTypeOK, Unsaved
  <2>4. AnswerTypeOK' /\ Course'
    BY <2>1, <2>2, <2>3, PromisedIsASequence DEF AnswerTypeOK, Course, Unsaved
  <2>5. {Error, Result} \subseteq {Nil, Null} => pending' = <<>>
    BY <1>4 DEF ResponseParsed, Present
  <2>6. ByTopLevel'
    BY <2>2, <2>5 DEF ByTopLevel
  <2> QED
    BY <2>4, <2>6
<1>5. CASE BeginWriteTransaction
  BY <1>5 DEF BeginWriteTransaction, AnswerTypeOK, Course, ByTopLevel, Unsaved, Aligned
<1>6. CASE CommitWriteTransaction
  <2>1. stage = "saving" /\ Aligned /\ pending # <<>>
    BY <1>6 DEF CommitWriteTransaction, AnswerTypeOK, Course, Unsaved, Stuck
  <2> QED
    BY <1>6, <2>1, CommitAligned DEF CommitWriteTransaction, AnswerTypeOK, Course, ByTopLevel, Unsaved
<1>7. CASE AddObjectRaises
  <2>1. Stuck'
    BY <1>7 DEF AddObjectRaises, Course, Stuck, Aligned, Name
  <2> QED
    BY <1>7, <2>1 DEF AddObjectRaises, AnswerTypeOK, Course, ByTopLevel, Unsaved
<1>8. CASE Success
  BY <1>8 DEF Success, Tell, AnswerTypeOK, Course, ByTopLevel, Unsaved, Aligned
<1>9. CASE UncaughtException
  <2>1. (Unsaved \/ Stuck)'
    BY <1>9 DEF UncaughtException, Cancelled, Course, Unsaved, Stuck, Aligned, Name
  <2> QED
    BY <1>9, <2>1 DEF UncaughtException, Cancelled, AnswerTypeOK, Course, ByTopLevel, Unsaved
<1> QED
  BY <1>2, <1>3, <1>4, <1>5, <1>6, <1>7, <1>8, <1>9 DEF AnswerNext

LEMMA AnswerInvariant == AnswerSpec => []AnswerInd
  BY AnswerInitInd, AnswerNextInd, PTL DEF AnswerSpec

(* Whatever the document, the rows stored are the first rewards it grants,  *)
(* each with its name or none, and all of them when the application is told *)
(* of success (BadgeKeeper.m:157-165, 213-225).                             *)
THEOREM RewardsStoredInOrder == AnswerSpec => []StoredIsPrefix
<1>1. AnswerInd => StoredIsPrefix
  <2> SUFFICES ASSUME AnswerInd PROVE StoredIsPrefix
    OBVIOUS
  <2>1. Aligned \/ (rows = <<>> /\ told # "success")
    BY DEF AnswerInd, AnswerTypeOK, Course, Unsaved, Stuck
  <2>2. told = "success" => pending = <<>>
    BY DEF AnswerInd, AnswerTypeOK, Course, Unsaved
  <2>3. PICK R, T : Promised \in Seq(R) /\ pending \in Seq(R) /\ rows \in Seq(T)
    BY PromisedIsASequence DEF AnswerInd, AnswerTypeOK
  <2>4. PICK k \in Nat, m \in Nat, n \in Nat : k = Len(Promised) /\ m = Len(rows) /\ n = Len(pending)
    BY <2>3
  <2>5. CASE Aligned
    <3>1. m + n = k /\ \A i \in DOMAIN rows : rows[i] = StoredName(Promised[i])
      BY <2>4, <2>5 DEF Aligned
    <3>2. told = "success" => n = 0
      BY <2>2, <2>4
    <3> QED
      BY <2>4, <3>1, <3>2 DEF StoredIsPrefix, StoredName
  <2>6. CASE rows = <<>> /\ told # "success"
    BY <2>4, <2>6 DEF StoredIsPrefix
  <2> QED
    BY <2>1, <2>5, <2>6
<1> QED
  BY <1>1, AnswerInvariant, PTL

(* Whatever the document, if the process ends with some of its rewards      *)
(* stored, the next one has a name the realm does not take                  *)
(* (BadgeKeeper.m:157-160).                                                 *)
THEOREM HalfwayOnlyByName == AnswerSpec => []HalfSavedOnlyByName
<1>1. AnswerInd => HalfSavedOnlyByName
  <2> SUFFICES ASSUME AnswerInd, stage = "dead", rows # <<>>
               PROVE  \E i \in DOMAIN Promised :
                        /\ i = Len(rows) + 1
                        /\ Field(Promised[i], "Name").type \notin {"nil", "null", "string"}
    BY DEF HalfSavedOnlyByName
  <2>1. Stuck
    BY DEF AnswerInd, Course, Unsaved
  <2>2. PICK R, T : Promised \in Seq(R) /\ pending \in Seq(R) /\ rows \in Seq(T)
    BY PromisedIsASequence DEF AnswerInd, AnswerTypeOK
  <2>3. PICK m \in Nat, n \in Nat : m = Len(rows) /\ n = Len(pending)
    BY <2>2
  <2>4. Len(Promised) = m + n /\ n >= 1
    BY <2>1, <2>2, <2>3 DEF Stuck, Aligned
  <2>5. Head(pending) = pending[1] /\ 1 \in DOMAIN pending
    BY <2>2, <2>3, <2>4
  <2>6. pending[1] = Promised[m + 1]
    BY <2>1, <2>3, <2>5 DEF Stuck, Aligned
  <2>7. Field(Promised[m + 1], "Name").type \notin {"nil", "null", "string"}
    BY <2>1, <2>5, <2>6 DEF Stuck, Storable, Name
  <2>8. m + 1 \in DOMAIN Promised
    BY <2>2, <2>4
  <2> QED
    BY <2>3, <2>7, <2>8
<1> QED
  BY <1>1, AnswerInvariant, PTL

(* Whatever the document, an "Error" that is not null makes the answer a    *)
(* failure without rewards, and one without either key a success            *)
(* (BadgeKeeper.m:264-271, BKApiResponse.m:26).                             *)
THEOREM ErrorAndResultDecide == AnswerSpec => []TopLevelDecides
<1>1. AnswerInd => TopLevelDecides
  <2> SUFFICES ASSUME AnswerInd PROVE TopLevelDecides
    OBVIOUS
  <2>1. ErrorGrantsNothing
    BY DEF AnswerInd, ByTopLevel, HasError, Present, Unsaved, ErrorGrantsNothing
  <2>2. NullTopLevelHarmless
    BY DEF AnswerInd, ByTopLevel, Course, Over, NullTopLevelHarmless
  <2> QED
    BY <2>1, <2>2 DEF TopLevelDecides
<1> QED
  BY <1>1, AnswerInvariant, PTL

=============================================================================
