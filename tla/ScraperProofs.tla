---------------------------- MODULE ScraperProofs ----------------------------
(***************************************************************************)
(* Theorems about Scraper: what collect promises, for any rows, records,   *)
(* pages, runners and sessions.                                            *)
(***************************************************************************)
EXTENDS Scraper, FiniteSetTheorems, SequenceTheorems, TLAPS

-----------------------------------------------------------------------------
(* The request engine. *)

LEMMA EngineStep ==
  ASSUME [Next]_vars, engine = "http"
  PROVE  engine' = "http" /\ [Http!Next]_http
BY DEF Next, vars

Reading == {"fetch", "login"}
Unread  == {"failed", "expired", "refused"}

\* collect's two attempts: the login row is answered between them and at no
\* other time.
LoginInv ==
  /\ attempt \in {1, 2}
  /\ pc \in Reading \cup Unread \cup {"returned"}
  /\ logins \in 0..1
  /\ pc = "login" => attempt = 1 /\ row.login
  /\ (attempt = 1 /\ pc \in Reading) => logins = 0

LEMMA LoginInvInit == Http!Init => LoginInv
BY DEF Http!Init, LoginInv, Reading, Unread

LEMMA LoginInvInductive == LoginInv /\ [Http!Next]_http => LoginInv'
<1> SUFFICES ASSUME LoginInv, [Http!Next]_http PROVE LoginInv'
  OBVIOUS
<1> USE DEF LoginInv, Reading, Unread
<1>1. CASE Http!Answered
  <2>1. UNCHANGED <<row, attempt, logins>> /\ pc' \in {"fetch", "returned"} /\ pc = "fetch"
    BY <1>1 DEF Http!Answered, Http!StopReading, Http!ReadOn, Http!site
  <2> QED BY <2>1
<1>2. CASE Http!RequestFails
  BY <1>2 DEF Http!RequestFails
<1>3. CASE Http!Unusable
  BY <1>3 DEF Http!Unusable
<1>4. CASE Http!Refused
  BY <1>4 DEF Http!Refused
<1>5. CASE Http!LoggedOut
  BY <1>5 DEF Http!LoggedOut, Http!Welcome
<1>6. CASE Http!LogIn
  BY <1>6 DEF Http!LogIn
<1>7. CASE Http!LoginRejected
  BY <1>7 DEF Http!LoginRejected
<1>8. CASE Http!Expire
  BY <1>8 DEF Http!Expire
<1>9. CASE Http!Publish
  BY <1>9 DEF Http!Publish
<1>10. CASE UNCHANGED http
  BY <1>10 DEF http
<1> QED BY <1>1, <1>2, <1>3, <1>4, <1>5, <1>6, <1>7, <1>8, <1>9, <1>10 DEF Http!Next, Http!Step

LEMMA LoginInvariant == Spec => [](engine = "http" => LoginInv)
<1>1. Init => (engine = "http" => LoginInv)
  BY LoginInvInit DEF Init
<1>2. (engine = "http" => LoginInv) /\ [Next]_vars => (engine = "http" => LoginInv)'
  BY EngineStep, LoginInvInductive DEF Next, vars
<1> QED BY <1>1, <1>2, PTL DEF Spec

\* However often the session expires and whatever the login row answers, it
\* answers once: collect has two attempts, and logs in between them
\* (base.py, collect and login).
THEOREM LoggedInOnce == Spec => []LoginOnce
<1>1. (engine = "http" => LoginInv) => LoginOnce
  BY DEF LoginInv, LoginOnce, Http!LoginOnce
<1> QED BY <1>1, LoginInvariant, PTL

-----------------------------------------------------------------------------
(* Reading request by request. *)

\* A row behind a login reads in one request or by page numbers, which start
\* over after it; a cursor or a token would go on where the first attempt left
\* off, with nothing collected.
LoginRestarts == \A r \in HttpRows : r.login => r.mode \in {"single", "page"}

\* The records of a reply that begins at n.
Window(n) == {i \in 1..n : i > n - PageSize}
Lowest(n) == IF n > PageSize THEN n - PageSize + 1 ELSE 1

Shows == {"absent", "clipped", "whole"}

\* The records after n are collected, as whole as the source has them.
WholeAfter(n) == \A i \in 1..Oldest : i > n => got[i] = "whole"

\* A reply that begins at the anchor is not the one before it, which reached
\* further.
Descends == previous = {} \/ \E i \in previous : i > at

CursorInv == at \in 1..Oldest /\ WholeAfter(at) /\ Descends

TokenInv ==
  /\ at \in 0..head
  /\ at = 0 => previous = {}
  /\ at # 0 => WholeAfter(at) /\ Descends

\* Page at begins at record head - (at - 1) * PageSize, or later once there are
\* newcomers; the page before it began at a record that no later page can begin
\* at, newcomers being fewer than a page.
PageInv ==
  /\ at \in Nat \ {0}
  /\ WholeAfter(head - (at - 1) * PageSize)
  /\ \/ previous = {}
     \/ WholeAfter(0)
     \/ \E h \in Oldest..head :
          /\ at >= 2 /\ h - (at - 2) * PageSize >= 1
          /\ previous = Window(h - (at - 2) * PageSize)

ReadType ==
  /\ row \in HttpRows
  /\ head \in Oldest..(Oldest + MaxGrow)
  /\ got \in [1..(Oldest + MaxGrow) -> Shows]
  /\ asked \in Nat
  /\ cutOff \in BOOLEAN

ReadInv ==
  /\ ReadType
  /\ pc \in Reading =>
       /\ row.mode = "cursor" => CursorInv
       /\ row.mode = "token" => TokenInv
       /\ row.mode = "page" => PageInv
  /\ (pc = "returned" /\ ~cutOff) => WholeAfter(0)

USE ScraperAssumption DEF Shows, Reading, Unread

\* The instance has an operator of its own for the size of a set.
LEMMA SameCardinality == \A S : Http!Cardinality(S) = Cardinality(S)
BY DEF Http!Cardinality, Cardinality

LEMMA Sizes ==
  /\ HttpRows \subseteq Http!Row
  /\ Oldest \in Nat \ {0} /\ MaxGrow \in Nat /\ MaxPages \in Nat \ {0}
  /\ PageSize \in Nat /\ PageSize > 1 /\ MaxGrow < PageSize
BY DEF ScraperAssumption, Http!CollectAssumption

LEMMA WindowFacts ==
  ASSUME NEW n \in Int, n >= 1
  PROVE  /\ Lowest(n) \in 1..n /\ Window(n) = Lowest(n)..n
         /\ Http!Last(Window(n)) = Lowest(n)
         /\ Cardinality(Window(n)) = n - Lowest(n) + 1
         /\ (Cardinality(Window(n)) < PageSize) => Lowest(n) = 1
<1>1. Lowest(n) \in 1..n /\ Window(n) = Lowest(n)..n
  BY Sizes DEF Lowest, Window
<1>2. Lowest(n) \in Window(n) /\ \A k \in Window(n) : k \in Int /\ Lowest(n) <= k
  BY <1>1
<1>3. Http!Last(Window(n)) = Lowest(n)
  <2> DEFINE L == Lowest(n)
             W == Window(n)
  <2>1. L \in W /\ L \in Int /\ \A k \in W : k \in Int /\ L <= k
    BY <1>1, <1>2
  <2> HIDE DEF L, W
  <2>2. Http!Last(W) \in W /\ \A k \in W : Http!Last(W) <= k
    BY <2>1 DEF Http!Last
  <2>3. Http!Last(W) \in Int /\ L \in Int /\ Http!Last(W) <= L /\ L <= Http!Last(W)
    BY <2>1, <2>2
  <2>4. Http!Last(W) = L
    BY <2>3
  <2> QED BY <2>4 DEF L, W
<1>4. Cardinality(Window(n)) = n - Lowest(n) + 1
  BY <1>1, FS_Interval
<1>5. (n - Lowest(n) + 1 < PageSize) => Lowest(n) = 1
  BY <1>1, Sizes DEF Lowest
<1> QED BY <1>1, <1>3, <1>4, <1>5

LEMMA NoWindow == ASSUME NEW n \in Int, n < 1 PROVE Window(n) = {}
BY DEF Window

\* What is merged for a record of the reply, and for the others.
LEMMA MergeFacts ==
  ASSUME ReadType, NEW reply
  PROVE  /\ Http!Merge(reply) \in [1..(Oldest + MaxGrow) -> Shows]
         /\ \A i \in 1..Oldest :
              /\ i \in reply => Http!Merge(reply)[i] = Http!Shown(reply, i)
              /\ i \notin reply => Http!Merge(reply)[i] = got[i]
BY Sizes DEF Http!Merge, Http!Shown, Http!Id, ReadType

\* Merging a reply that has a record whole leaves no record worse off.
LEMMA MergeKeeps ==
  ASSUME ReadType, NEW n \in Int, WholeAfter(n), NEW reply, got' = Http!Merge(reply),
         \A i \in reply : i > n => Http!Shown(reply, i) = "whole"
  PROVE  WholeAfter(n)'
BY MergeFacts DEF WholeAfter

LEMMA CursorAnswered ==
  ASSUME ReadType, ReadType', row.mode = "cursor", CursorInv, Http!StopReading \/ Http!ReadOn
  PROVE  /\ pc' = "returned" /\ ~cutOff' => WholeAfter(0)'
         /\ pc' = "fetch" => CursorInv'
         /\ pc' \in {"fetch", "returned"}
<1>1. at \in Int /\ at >= 1 /\ at <= Oldest /\ Oldest \in Int /\ PageSize \in Int /\ PageSize > 1
  BY Sizes DEF CursorInv
<1>2. Http!Reply = Window(at)
  BY <1>1 DEF Http!Reply, Http!From, Window
<1> DEFINE W == Window(at)
           L == Lowest(at)
           size == Cardinality(W)
<1>3. /\ L \in Int /\ 1 <= L /\ L <= at /\ \A i \in Int : i \in W <=> (L <= i /\ i <= at)
      /\ \A i \in W : i \in Int
      /\ Http!Last(W) = L /\ size = at - L + 1 /\ (size < PageSize => L = 1)
  <2>1. L \in 1..at /\ W = L..at
    BY <1>1, WindowFacts
  <2>2. Http!Last(W) = L /\ size = at - L + 1 /\ (size < PageSize => L = 1)
    BY <1>1, WindowFacts
  <2> HIDE DEF L, W, size
  <2> QED BY <1>1, <2>1, <2>2
<1> HIDE DEF W, L, size
<1>4. W # {} /\ W # previous
  <2>1. at \in W
    BY <1>1, <1>3
  <2>2. CASE previous = {}
    BY <2>1, <2>2
  <2>3. CASE previous # {}
    <3>1. PICK i \in previous : i > at
      BY <2>3 DEF CursorInv, Descends
    <3>2. i \notin W
      BY <1>1, <1>3, <3>1
    <3> QED BY <2>1, <3>1, <3>2
  <2> QED BY <2>2, <2>3
<1>5. Http!ReadOn
  BY <1>2, <1>4 DEF Http!StopReading, W
<1>6. /\ got' = Http!Merge(W) /\ previous' = W
      /\ \/ Http!Advance(W) = {} /\ pc' = "returned" /\ UNCHANGED <<at, cutOff>>
         \/ at' \in Http!Advance(W) /\ pc' \in {"returned", "fetch"} /\ (cutOff' <=> pc' = "returned")
  BY <1>2, <1>5 DEF Http!ReadOn, W
<1>7. Http!Advance(W) = IF row.full /\ size < PageSize THEN {} ELSE {L} \ {at}
  BY <1>3, SameCardinality DEF Http!Advance, size
<1>8. \A i : Http!Shown(W, i) = IF size = PageSize /\ i = L THEN "clipped" ELSE "whole"
  BY <1>3, SameCardinality DEF Http!Shown, size
<1>9. \A i \in 1..Oldest : /\ i \in W => got'[i] = Http!Shown(W, i)
                           /\ i \notin W => got'[i] = got[i]
  BY <1>6, MergeFacts
<1>10. ASSUME NEW i \in 1..Oldest, i > L \/ (i = L /\ size # PageSize) PROVE got'[i] = "whole"
  <2>1. CASE i \in W
    <3>1. i \in Int /\ (i = L => size # PageSize)
      BY <1>3, <1>10
    <3> QED BY <1>8, <1>9, <2>1, <3>1
  <2>2. CASE i \notin W
    <3>1. i > at
      BY <1>1, <1>3, <1>10, <2>2
    <3> QED BY <1>9, <2>2, <3>1 DEF CursorInv, WholeAfter
  <2> QED BY <2>1, <2>2
<1>11. CASE Http!Advance(W) = {} /\ pc' = "returned" /\ UNCHANGED <<at, cutOff>>
  <2>1. size < PageSize \/ L = at
    BY <1>7, <1>11
  <2>2. size # PageSize /\ size < PageSize
    BY <1>1, <1>3, <2>1
  <2>3. L = 1
    BY <1>3, <2>2
  <2>4. \A i \in 1..Oldest : i > 0 => got'[i] = "whole"
    BY <1>10, <2>2, <2>3
  <2> QED BY <1>11, <2>4 DEF WholeAfter
<1>12. CASE at' \in Http!Advance(W) /\ pc' \in {"returned", "fetch"} /\ (cutOff' <=> pc' = "returned")
  <2>1. at' = L /\ L # at
    BY <1>7, <1>12
  <2>2. at' \in 1..Oldest
    BY <1>1, <1>3, <2>1
  <2>3. WholeAfter(at)'
    BY <1>10, <2>1 DEF WholeAfter
  <2>4. Descends'
    <3>1. at \in previous' /\ at > L
      BY <1>1, <1>3, <1>6, <2>1
    <3> QED BY <2>1, <3>1 DEF Descends
  <2> QED BY <1>12, <2>2, <2>3, <2>4 DEF CursorInv
<1> QED BY <1>6, <1>11, <1>12

LEMMA TokenAnswered ==
  ASSUME ReadType, ReadType', row.mode = "token", TokenInv, head' = head,
         Http!StopReading \/ Http!ReadOn
  PROVE  /\ pc' = "returned" /\ ~cutOff' => WholeAfter(0)'
         /\ pc' = "fetch" => TokenInv'
         /\ pc' \in {"fetch", "returned"}
<1> DEFINE first == IF at = 0 THEN head ELSE at
           W == Window(first)
           L == Lowest(first)
<1>1. /\ Oldest \in Int /\ Oldest >= 1 /\ PageSize \in Int /\ PageSize > 1
      /\ head \in Int /\ head >= Oldest /\ at \in Int /\ at >= 0 /\ at <= head
      /\ first \in Int /\ first >= 1 /\ first <= head
  BY Sizes DEF TokenInv, ReadType
<1>2. Http!Reply = W
  BY <1>1 DEF Http!Reply, Http!From, Window
<1>3. WholeAfter(first) /\ (previous = {} \/ \E i \in previous : i > first)
  <2>1. CASE at = 0
    <3>1. \A i \in 1..Oldest : ~(i > head)
      BY <1>1
    <3> QED BY <2>1, <3>1 DEF TokenInv, WholeAfter
  <2>2. CASE at # 0
    BY <2>2 DEF TokenInv, Descends
  <2> QED BY <2>1, <2>2
<1> HIDE DEF first
<1>4. /\ L \in Int /\ 1 <= L /\ L <= first /\ \A i \in Int : i \in W <=> (L <= i /\ i <= first)
      /\ \A i \in W : i \in Int
      /\ Http!Last(W) = L
  <2>1. L \in 1..first /\ W = L..first
    BY <1>1, WindowFacts
  <2>2. Http!Last(W) = L
    BY <1>1, WindowFacts
  <2> HIDE DEF L, W
  <2> QED BY <1>1, <2>1, <2>2
<1> HIDE DEF W, L
<1>5. W # {} /\ W # previous
  <2>1. first \in W
    BY <1>1, <1>4
  <2>2. CASE previous = {}
    BY <2>1, <2>2
  <2>3. CASE previous # {}
    <3>1. PICK i \in previous : i > first
      BY <2>3, <1>3
    <3>2. i \notin W
      BY <1>1, <1>4, <3>1
    <3> QED BY <2>1, <3>1, <3>2
  <2> QED BY <2>2, <2>3
<1>6. Http!ReadOn
  BY <1>2, <1>5 DEF Http!StopReading
<1>7. /\ got' = Http!Merge(W) /\ previous' = W
      /\ \/ Http!Advance(W) = {} /\ pc' = "returned" /\ UNCHANGED <<at, cutOff>>
         \/ at' \in Http!Advance(W) /\ pc' \in {"returned", "fetch"} /\ (cutOff' <=> pc' = "returned")
  BY <1>2, <1>6 DEF Http!ReadOn
<1>8. Http!Advance(W) = {L - 1} \ {0}
  BY <1>4 DEF Http!Advance
<1>9. \A i : Http!Shown(W, i) = "whole"
  BY DEF Http!Shown
<1>10. ASSUME NEW i \in 1..Oldest, i >= L PROVE got'[i] = "whole"
  <2>1. /\ i \in W => got'[i] = Http!Shown(W, i)
        /\ i \notin W => got'[i] = got[i]
    BY <1>7, MergeFacts
  <2>2. CASE i \notin W
    <3>1. i > first
      BY <1>1, <1>4, <1>10, <2>2
    <3> QED BY <1>3, <2>1, <2>2, <3>1 DEF WholeAfter
  <2> QED BY <1>9, <2>1, <2>2
<1>11. CASE Http!Advance(W) = {} /\ pc' = "returned" /\ UNCHANGED <<at, cutOff>>
  <2>1. L = 1
    BY <1>4, <1>8, <1>11
  <2>2. \A i \in 1..Oldest : i > 0 => got'[i] = "whole"
    BY <1>10, <2>1
  <2> QED BY <1>11, <2>2 DEF WholeAfter
<1>12. CASE at' \in Http!Advance(W) /\ pc' \in {"returned", "fetch"} /\ (cutOff' <=> pc' = "returned")
  <2>1. at' = L - 1 /\ at' # 0
    BY <1>8, <1>12
  <2>2. at' \in 1..head
    BY <1>1, <1>4, <2>1
  <2>3. WholeAfter(at)'
    <3>1. ASSUME NEW i \in 1..Oldest, i > at' PROVE i >= L
      BY <1>4, <2>1, <3>1
    <3> QED BY <1>10, <3>1 DEF WholeAfter
  <2>4. Descends'
    <3>1. L \in previous' /\ L > at'
      BY <1>4, <1>7, <2>1
    <3> QED BY <3>1 DEF Descends
  <2> QED BY <1>12, <2>1, <2>2, <2>3, <2>4 DEF TokenInv
<1> QED BY <1>7, <1>11, <1>12

LEMMA DivFacts ==
  ASSUME NEW a \in Nat, NEW d \in Nat \ {0}
  PROVE  (a \div d) \in Nat /\ d * (a \div d) <= a /\ a < d * (a \div d) + d
OBVIOUS

LEMMA Mono ==
  ASSUME NEW a \in Int, NEW b \in Int, NEW d \in Nat, a <= b
  PROVE  a * d <= b * d
OBVIOUS

\* Beyond the last page there is nothing below record 1 to ask for.
LEMMA PastTheEnd ==
  ASSUME NEW h \in Nat \ {0}, NEW page \in Nat \ {0}, page > (h - 1) \div PageSize + 1
  PROVE  h - (page - 1) * PageSize <= 0
<1> DEFINE q == (h - 1) \div PageSize
<1>1. h - 1 \in Nat /\ PageSize \in Nat \ {0}
  BY Sizes
<1>2. q \in Nat /\ h - 1 < PageSize * q + PageSize
  BY <1>1, DivFacts
<1> HIDE DEF q
<1>3. q + 1 <= page - 1
  BY <1>2 DEF q
<1>4. (q + 1) * PageSize <= (page - 1) * PageSize
  BY <1>1, <1>2, <1>3, Mono
<1>5. (q + 1) * PageSize = PageSize * q + PageSize
  BY <1>1, <1>2
<1>6. PageSize * q + PageSize \in Int /\ (page - 1) * PageSize \in Int
  BY <1>1, <1>2
<1> QED BY <1>1, <1>2, <1>4, <1>5, <1>6

LEMMA PageAnswered ==
  ASSUME ReadType, ReadType', row.mode = "page", PageInv, head' = head,
         Http!StopReading \/ Http!ReadOn
  PROVE  /\ pc' = "returned" /\ ~cutOff' => WholeAfter(0)'
         /\ pc' = "fetch" => PageInv'
         /\ pc' \in {"fetch", "returned"}
<1> DEFINE first == head - (at - 1) * PageSize
<1>1. /\ Oldest \in Int /\ Oldest >= 1 /\ PageSize \in Int /\ PageSize > 1
      /\ MaxGrow \in Int /\ MaxGrow < PageSize
      /\ head \in Int /\ head >= Oldest /\ head <= Oldest + MaxGrow /\ at \in Int /\ at >= 1
  BY Sizes DEF PageInv, ReadType
<1>2. first \in Int
  BY <1>1
<1>3. WholeAfter(first)
  BY DEF PageInv
<1>4. CASE WholeAfter(0)
  <2>1. CASE Http!StopReading
    BY <1>4, <2>1 DEF Http!StopReading, WholeAfter
  <2>2. CASE Http!ReadOn
    <3>1. got' = Http!Merge(Http!Reply) /\ pc' \in {"fetch", "returned"} /\ Http!Advance(Http!Reply) = {at + 1}
      BY <2>2 DEF Http!ReadOn, Http!Advance
    <3>2. \A i : Http!Shown(Http!Reply, i) = "whole"
      BY DEF Http!Shown
    <3>3. \A i \in 1..Oldest : i > 0 => got'[i] = "whole"
      BY <1>4, <3>1, <3>2, MergeFacts DEF WholeAfter
    <3>4. \A n \in Int : WholeAfter(n)'
      BY <3>3 DEF WholeAfter
    <3>5. at' = at + 1 \/ pc' = "returned"
      BY <2>2, <3>1 DEF Http!ReadOn
    <3>6. at' = at + 1 => at' \in Nat \ {0} /\ head' - (at' - 1) * PageSize \in Int
      BY <1>1
    <3>7. at' = at + 1 => WholeAfter(head - (at - 1) * PageSize)'
      BY <3>3, <3>6 DEF WholeAfter
    <3> QED BY <3>1, <3>4, <3>5, <3>6, <3>7 DEF PageInv
  <2> QED BY <2>1, <2>2
<1>5. CASE ~WholeAfter(0)
  <2>1. first >= 1
    <3>1. first <= 0 => WholeAfter(0)
      BY <1>2, <1>3 DEF WholeAfter
    <3> HIDE DEF first
    <3> QED BY <1>2, <1>5, <3>1
  <2>2. ~(at > Http!LastPage)
    <3>1. at > Http!LastPage => first <= 0
      BY <1>1, PastTheEnd DEF Http!LastPage
    <3> HIDE DEF first
    <3> QED BY <1>2, <2>1, <3>1
  <2> DEFINE W == Window(first)
             L == Lowest(first)
  <2>3. Http!Reply = W
    BY <2>2 DEF Http!Reply, Http!From, Window
  <2>4. /\ L \in Int /\ 1 <= L /\ \A i \in Int : i \in W <=> (L <= i /\ i <= first)
        /\ first \in W /\ L <= first
    <3> HIDE DEF first
    <3>1. L \in 1..first /\ W = L..first
      BY <1>2, <2>1, WindowFacts
    <3> HIDE DEF L, W
    <3> QED BY <1>2, <2>1, <3>1
  <2>5. W # previous
    <3>1. CASE previous = {}
      BY <2>4, <3>1
    <3>2. CASE previous # {}
      <4>1. PICK h \in Oldest..head :
              /\ at >= 2 /\ h - (at - 2) * PageSize >= 1
              /\ previous = Window(h - (at - 2) * PageSize)
        BY <1>5, <3>2 DEF PageInv
      <4> DEFINE before == h - (at - 2) * PageSize
      <4>2. before \in Int /\ before > first
        <5>1. (at - 1) * PageSize = (at - 2) * PageSize + PageSize
          BY <1>1
        <5>2. (at - 2) * PageSize \in Int /\ h \in Int /\ h >= Oldest
          BY <1>1
        <5> QED BY <1>1, <5>1, <5>2
      <4> HIDE DEF before, first
      <4>3. before \in Window(before)
        BY <4>1, <4>2, Sizes DEF Window, before
      <4>4. before \notin W
        BY <1>2, <2>4, <4>2
      <4> QED BY <4>1, <4>3, <4>4 DEF before
    <3> QED BY <3>1, <3>2
  <2>6. Http!ReadOn
    BY <2>3, <2>4, <2>5 DEF Http!StopReading
  <2>7. /\ got' = Http!Merge(W) /\ previous' = W /\ at' = at + 1
        /\ pc' \in {"returned", "fetch"} /\ (cutOff' <=> pc' = "returned")
    BY <2>3, <2>6 DEF Http!ReadOn, Http!Advance
  <2>8. \A i : Http!Shown(W, i) = "whole"
    BY DEF Http!Shown
  <2>9. WholeAfter(head - (at - 1) * PageSize)'
    <3>1. head' - (at' - 1) * PageSize = first - PageSize
      <4>1. at' - 1 = at /\ (at - 1) * PageSize = at * PageSize - PageSize
        BY <1>1, <2>7
      <4>2. at * PageSize \in Int
        BY <1>1
      <4> QED BY <1>1, <4>1, <4>2
    <3>2. ASSUME NEW i \in 1..Oldest, i > first - PageSize PROVE got'[i] = "whole"
      <4>1. CASE i \in W
        BY <2>7, <2>8, <4>1, MergeFacts
      <4>2. CASE i \notin W
        <5>1. i > first
          BY <1>1, <1>2, <2>1, <3>2, <4>2 DEF W, Window
        <5>2. got[i] = "whole"
          BY <1>3, <5>1 DEF WholeAfter
        <5> QED BY <2>7, <4>2, <5>2, MergeFacts
      <4> QED BY <4>1, <4>2
    <3> QED BY <3>1, <3>2 DEF WholeAfter
  <2>10. \E h \in Oldest..head' :
           /\ at' >= 2 /\ h - (at' - 2) * PageSize >= 1
           /\ previous' = Window(h - (at' - 2) * PageSize)
    <3>1. at' - 2 = at - 1 /\ at' >= 2 /\ head \in Oldest..head'
      BY <1>1, <2>7
    <3> QED BY <2>1, <2>7, <3>1
  <2> QED BY <1>1, <2>7, <2>9, <2>10 DEF PageInv
<1> QED BY <1>4, <1>5

LEMMA SingleAnswered ==
  ASSUME ReadType, row.mode = "single", Http!StopReading \/ Http!ReadOn
  PROVE  pc' = "returned" /\ WholeAfter(0)'
<1>1. Http!Reply = 1..head /\ Http!Advance(Http!Reply) = {}
  BY DEF Http!Reply, Http!Advance
<1>2. pc' = "returned" /\ got' = Http!Merge(1..head)
  BY <1>1 DEF Http!StopReading, Http!ReadOn
<1>3. \A i \in 1..Oldest : i \in 1..head /\ Http!Shown(1..head, i) = "whole"
  BY Sizes DEF ReadType, Http!Shown
<1>4. \A i \in 1..Oldest : i > 0 => got'[i] = "whole"
  BY <1>2, <1>3, MergeFacts
<1> QED BY <1>2, <1>4 DEF WholeAfter

\* Every reply is put where it belongs.
LEMMA AnsweredReads ==
  ASSUME ReadInv, LoginInv, Http!Answered PROVE ReadInv'
<1>1. /\ pc = "fetch" /\ head' = head /\ row' = row /\ (Http!StopReading \/ Http!ReadOn)
  BY DEF Http!Answered, Http!site
<1>2. ReadType /\ row.mode \in {"single", "page", "cursor", "token"}
  BY Sizes DEF ReadInv, ReadType, Http!Row, Http!Mode
<1>3. ReadType'
  <2>1. CASE Http!StopReading
    BY <1>1, <1>2, <2>1 DEF Http!StopReading, ReadType
  <2>2. CASE Http!ReadOn
    <3>1. got' = Http!Merge(Http!Reply) /\ asked' = asked + 1
      BY <2>2 DEF Http!ReadOn
    <3>2. got' \in [1..(Oldest + MaxGrow) -> Shows]
      BY <1>2, <3>1, MergeFacts
    <3>3. asked' \in Nat
      BY <1>2, <3>1 DEF ReadType
    <3>4. cutOff' \in BOOLEAN
      BY <1>2, <2>2 DEF ReadType, Http!ReadOn
    <3> QED BY <1>1, <1>2, <3>2, <3>3, <3>4 DEF ReadType
  <2> QED BY <1>1, <2>1, <2>2
<1>4. CASE row.mode = "single"
  BY <1>1, <1>2, <1>3, <1>4, SingleAnswered DEF ReadInv
<1>5. CASE row.mode = "page"
  BY <1>1, <1>2, <1>3, <1>5, PageAnswered DEF ReadInv
<1>6. CASE row.mode = "cursor"
  BY <1>1, <1>2, <1>3, <1>6, CursorAnswered DEF ReadInv
<1>7. CASE row.mode = "token"
  BY <1>1, <1>2, <1>3, <1>7, TokenAnswered DEF ReadInv
<1> QED BY <1>2, <1>4, <1>5, <1>6, <1>7

\* A second attempt begins where the first did.
LEMMA LogInReads ==
  ASSUME LoginRestarts, ReadInv, LoginInv, Http!LogIn PROVE ReadInv'
<1>1. /\ row' = row /\ head' = head /\ cutOff' = cutOff /\ got' = Http!Nothing /\ previous' = {}
      /\ pc' = "fetch" /\ asked' = 0 /\ at' = IF row.mode = "page" THEN 1 ELSE at
  BY DEF Http!LogIn
<1>2. row.mode \in {"single", "page"} /\ ReadType
  BY DEF LoginRestarts, LoginInv, ReadInv, ReadType, Http!LogIn
<1>3. ReadType'
  BY <1>1, <1>2 DEF ReadType, Http!Nothing, Http!Id
<1>4. row.mode = "page" => PageInv'
  <2>1. head - (1 - 1) * PageSize = head /\ \A i \in 1..Oldest : ~(i > head)
    BY <1>2, Sizes DEF ReadType
  <2> QED BY <1>1, <2>1 DEF PageInv, WholeAfter
<1> QED BY <1>1, <1>2, <1>3, <1>4 DEF ReadInv

\* Newcomers push the pages down, and nothing that was read out of them.
LEMMA PublishReads == ASSUME ReadInv, Http!Publish PROVE ReadInv'
<1>1. /\ head' = head + 1 /\ head < Oldest + MaxGrow
      /\ UNCHANGED <<row, pc, asked, at, got, previous, cutOff>>
  BY DEF Http!Publish, Http!reading
<1>2. head \in Int /\ Oldest \in Int /\ MaxGrow \in Int /\ PageSize \in Int /\ head >= Oldest
  BY Sizes DEF ReadInv, ReadType
<1>3. ReadType'
  BY <1>1, <1>2 DEF ReadInv, ReadType
<1>4. CursorInv => CursorInv'
  BY <1>1 DEF CursorInv, WholeAfter, Descends
<1>5. TokenInv => TokenInv'
  BY <1>1, <1>2 DEF TokenInv, WholeAfter, Descends
<1>6. PageInv => PageInv'
  <2> SUFFICES ASSUME PageInv PROVE PageInv'
    OBVIOUS
  <2>1. at \in Int /\ (at - 1) * PageSize \in Int
    BY <1>2 DEF PageInv
  <2>2. WholeAfter(head - (at - 1) * PageSize)'
    <3>1. ASSUME NEW i \in 1..Oldest, i > head' - (at - 1) * PageSize
          PROVE  i > head - (at - 1) * PageSize
      BY <1>1, <1>2, <2>1, <3>1
    <3> QED BY <1>1, <3>1 DEF PageInv, WholeAfter
  <2>3. Oldest..head \subseteq Oldest..head'
    BY <1>1, <1>2
  <2> QED BY <1>1, <2>2, <2>3 DEF PageInv, WholeAfter
<1>7. WholeAfter(0) => WholeAfter(0)'
  BY <1>1 DEF WholeAfter
<1> QED BY <1>1, <1>3, <1>4, <1>5, <1>6, <1>7 DEF ReadInv

\* What is read stays so while nothing is answered.
LEMMA NothingRead ==
  ASSUME ReadInv, UNCHANGED <<head, row, asked, at, got, previous, cutOff>>,
         pc' \in Reading => pc \in Reading, pc' = "returned" => pc = "returned"
  PROVE  ReadInv'
<1>1. ReadType' /\ (WholeAfter(0) => WholeAfter(0)')
  BY DEF ReadInv, ReadType, WholeAfter
<1>2. (CursorInv => CursorInv') /\ (TokenInv => TokenInv') /\ (PageInv => PageInv')
  BY DEF CursorInv, TokenInv, PageInv, WholeAfter, Descends
<1> QED BY <1>1, <1>2 DEF ReadInv

LEMMA ReadInvInit == Http!Init => ReadInv
<1> SUFFICES ASSUME Http!Init PROVE ReadInv
  OBVIOUS
<1>1. /\ head = Oldest /\ row \in HttpRows /\ pc = "fetch" /\ got = Http!Nothing
      /\ previous = {} /\ asked = 0 /\ cutOff = FALSE /\ at = Http!FirstRequest(row)
  BY DEF Http!Init
<1>2. ReadType
  <2>1. got \in [1..(Oldest + MaxGrow) -> Shows]
    BY <1>1 DEF Http!Nothing, Http!Id
  <2>2. head \in Oldest..(Oldest + MaxGrow)
    BY <1>1, Sizes
  <2> QED BY <1>1, <2>1, <2>2 DEF ReadType
<1>3. \A i \in 1..Oldest : ~(i > Oldest)
  BY Sizes
<1>4. row.mode = "cursor" => CursorInv
  BY <1>1, <1>3, Sizes DEF CursorInv, WholeAfter, Descends, Http!FirstRequest
<1>5. row.mode = "token" => TokenInv
  BY <1>1, Sizes DEF TokenInv, Http!FirstRequest
<1>6. row.mode = "page" => PageInv
  <2>1. Oldest - (1 - 1) * PageSize = Oldest
    BY Sizes
  <2> QED BY <1>1, <1>3, <2>1 DEF PageInv, WholeAfter, Http!FirstRequest
<1> QED BY <1>1, <1>2, <1>4, <1>5, <1>6 DEF ReadInv

LEMMA ReadInvInductive ==
  ASSUME LoginRestarts, ReadInv, LoginInv, [Http!Next]_http PROVE ReadInv'
<1>1. CASE Http!Answered
  BY <1>1, AnsweredReads
<1>2. CASE Http!RequestFails
  BY <1>2, NothingRead DEF Http!RequestFails, Http!site, Http!reading
<1>3. CASE Http!Unusable
  BY <1>3, NothingRead DEF Http!Unusable, Http!site, Http!reading
<1>4. CASE Http!Refused
  BY <1>4, NothingRead DEF Http!Refused, Http!site, Http!reading
<1>5. CASE Http!LoggedOut
  BY <1>5, NothingRead DEF Http!LoggedOut, Http!site, Http!reading
<1>6. CASE Http!LogIn
  BY <1>6, LogInReads
<1>7. CASE Http!LoginRejected
  BY <1>7, NothingRead DEF Http!LoginRejected, Http!site, Http!reading
<1>8. CASE Http!Expire
  BY <1>8, NothingRead DEF Http!Expire, Http!reading
<1>9. CASE Http!Publish
  BY <1>9, PublishReads
<1>10. CASE UNCHANGED http
  BY <1>10, NothingRead DEF http
<1> QED BY <1>1, <1>2, <1>3, <1>4, <1>5, <1>6, <1>7, <1>8, <1>9, <1>10 DEF Http!Next, Http!Step

\* What is returned has every record that was there when the collecting began,
\* none of them cut at a seam, however the source pages, whatever it publishes
\* meanwhile, fails to answer, or asks to log in again (fetch_all_pages,
\* merge_records, _advance, collect).
THEOREM ResultComplete == LoginRestarts => (Spec => []Complete)
<1> SUFFICES ASSUME LoginRestarts PROVE Spec => []Complete
  OBVIOUS
<1> DEFINE HttpInv == engine = "http" => LoginInv /\ ReadInv
<1>1. Init => HttpInv
  BY LoginInvInit, ReadInvInit DEF Init
<1>2. HttpInv /\ [Next]_vars => HttpInv'
  BY EngineStep, LoginInvInductive, ReadInvInductive DEF Next, vars
<1>3. HttpInv => Complete
  BY DEF Complete, Http!Complete, ReadInv, ReadType, WholeAfter
<1> QED BY <1>1, <1>2, <1>3, PTL DEF Spec

-----------------------------------------------------------------------------
(* The browser engine.  What a runner is at, and its row. *)

AllRows == (UNION {BrowserRows[p] : p \in Runners}) \cup {LoginRow}
Setup   == {"look", "fresh", "load", "goto"}
Paging == {"read", "advance", "settle"}

Excuses == {"expired", "late", "cut", "overtaken"}

RunState ==
  [job : AllRows, row : AllRows, pc : Setup \cup {"act"} \cup Paging \cup Brw!Ended,
   attempt : {1, 2}, jar : Nat, step : Nat \ {0}, login : BOOLEAN,
   shown : Nat, coming : Nat, idle : BOOLEAN, at : Nat \ {0}, read : Nat,
   got : SUBSET Nat, previous : SUBSET Nat,
   sent : Nat, flying : SUBSET Nat, captured : Seq(Nat), files : Nat,
   from : Nat \ {0}, dead : SUBSET Nat, excuse : SUBSET Excuses]

\* A row is the job's own or the login row its job names; only a list is read on.
Placed(r) ==
  /\ r.row \in {r.job, LoginRow} /\ (r.row # r.job => r.job.login)
  /\ r.pc \in Paging => r.row.type = "dom"
  /\ r.pc \in {"advance", "settle"} => r.row.mode # "none"
  /\ r.pc = "settle" => r.row.mode # "page"

BrowserTypeOK ==
  /\ issued \in Nat
  /\ saved \in [Keys -> {-1} \cup Nat]
  /\ run \in [Runners -> RunState]
  /\ \A p \in Runners : Placed(run[p])

-----------------------------------------------------------------------------
(* Rows and runs have their types. *)

LEMMA RowFacts ==
  ASSUME NEW w \in AllRows
  PROVE  /\ w.type \in {"dom", "xhr", "binary", "session"}
         /\ w.mode \in {"none", "click", "scroll", "page"}
         /\ w.key \in Keys /\ w.max \in Nat
         /\ {w.open, w.login, w.marker, w.all, w.awaits} \subseteq BOOLEAN
         /\ Len(w.steps) \in Nat /\ DOMAIN w.steps = 1..Len(w.steps)
<1>1. BrowserRows \in [Runners -> SUBSET Brw!Row] /\ LoginRow \in Brw!Row
  BY ScraperAssumption DEF Brw!BrowserAssumption
<1>2. w \in Brw!Row
  <2>1. CASE w = LoginRow
    BY <1>1, <2>1
  <2>2. CASE w \in UNION {BrowserRows[p] : p \in Runners}
    <3>1. PICK p \in Runners : w \in BrowserRows[p]
      BY <2>2
    <3> QED BY <1>1, <3>1
  <2> QED BY <2>1, <2>2 DEF AllRows
<1>3. /\ w.type \in {"dom", "xhr", "binary", "session"}
      /\ w.mode \in {"none", "click", "scroll", "page"}
      /\ w.key \in Keys /\ w.max \in Nat
      /\ {w.open, w.login, w.marker, w.all, w.awaits} \subseteq BOOLEAN
  BY <1>2 DEF Brw!Row
<1>4. \E S : w.steps \in Seq(S)
  BY <1>2 DEF Brw!Row
<1>5. Len(w.steps) \in Nat /\ DOMAIN w.steps = 1..Len(w.steps)
  BY <1>4
<1> QED BY <1>3, <1>5

LEMMA PagesType == Pages \in Nat /\ Pages >= 1
BY ScraperAssumption DEF Brw!BrowserAssumption

LEMMA RunFacts ==
  ASSUME NEW r \in RunState
  PROVE  /\ r.job \in AllRows /\ r.row \in AllRows
         /\ r.pc \in Setup \cup {"act"} \cup Paging \cup Brw!Ended
         /\ r.attempt \in {1, 2} /\ r.jar \in Nat /\ r.step \in Nat \ {0} /\ r.login \in BOOLEAN
         /\ r.idle \in BOOLEAN /\ r.shown \in Nat /\ r.coming \in Nat /\ r.at \in Nat \ {0} /\ r.read \in Nat
         /\ r.got \subseteq Nat /\ r.previous \subseteq Nat
         /\ r.sent \in Nat /\ r.flying \subseteq Nat /\ r.captured \in Seq(Nat) /\ r.files \in Nat
         /\ r.from \in Nat \ {0} /\ r.dead \subseteq Nat
         /\ r.excuse \subseteq Excuses
BY DEF RunState

LEMMA StartType ==
  ASSUME NEW w \in AllRows
  PROVE  Brw!Start(w) \in RunState
BY DEF Brw!Start, RunState, Setup

LEMMA LoginRunType ==
  ASSUME NEW r \in RunState
  PROVE  Brw!LoginRun(r) \in RunState
<1> DEFINE b == Brw!Start(r.job)
<1>1. b \in RunState
  BY RunFacts, StartType
<1>2. LoginRow \in AllRows
  BY DEF AllRows
<1>3. r.at \in Nat \ {0} /\ {r.jar} \ {0} \subseteq Nat
  BY RunFacts
<1> HIDE DEF b
<1>4. [b EXCEPT !.row = LoginRow, !.at = r.at, !.dead = {r.jar} \ {0}] \in RunState
  BY <1>1, <1>2, <1>3 DEF RunState
<1> QED BY <1>4 DEF Brw!LoginRun, b

LEMMA AgainType ==
  ASSUME NEW r \in RunState
  PROVE  Brw!Again(r) \in RunState
<1> DEFINE b == Brw!Start(r.job)
<1>1. b \in RunState
  BY RunFacts, StartType
<1>2. r.at \in Nat \ {0} /\ r.dead \subseteq Nat
  BY RunFacts
<1> HIDE DEF b
<1>3. [b EXCEPT !.attempt = 2, !.at = r.at, !.from = r.at, !.dead = r.dead] \in RunState
  BY <1>1, <1>2 DEF RunState
<1> QED BY <1>3 DEF Brw!Again, b

LEMMA Updated ==
  ASSUME BrowserTypeOK, NEW p \in Runners, NEW x, Brw!Update(p, x)
  PROVE  /\ run' = [run EXCEPT ![p] = x] /\ run'[p] = x
         /\ \A q \in Runners : q # p => run'[q] = run[q]
BY DEF Brw!Update, BrowserTypeOK

\* Runner p is at x now, and x is a run.
Moves(p, x) == Brw!Update(p, x) /\ x \in RunState /\ Placed(x)

LEMMA SavedSame ==
  ASSUME BrowserTypeOK, UNCHANGED saved
  PROVE  saved' \in [Keys -> {-1} \cup Nat]
BY DEF BrowserTypeOK

LEMMA FailMoves ==
  ASSUME BrowserTypeOK, NEW p \in Runners, Brw!Fail(p, run[p])
  PROVE  Moves(p, [run[p] EXCEPT !.pc = "failed"]) /\ UNCHANGED saved
<1> DEFINE r == run[p]
           x == [r EXCEPT !.pc = "failed"]
<1>1. r \in RunState /\ Placed(r)
  BY DEF BrowserTypeOK
<1> HIDE DEF r
<1>2. x \in RunState
  BY <1>1 DEF RunState, Brw!Ended
<1>3. x.row = r.row /\ x.job = r.job /\ x.pc = "failed"
  BY <1>1 DEF RunState
<1>4. Placed(x)
  BY <1>1, <1>3 DEF Placed, Paging
<1> QED BY <1>2, <1>4 DEF Moves, Brw!Fail, r

\* What SessionExpired leads to.
Turned(p) ==
  \/ Moves(p, [run[p] EXCEPT !.pc = "failed"]) /\ UNCHANGED saved
  \/ Moves(p, [run[p] EXCEPT !.pc = "expired"]) /\ UNCHANGED saved
  \/ /\ run[p].row.login
     /\ Moves(p, Brw!LoginRun(run[p])) /\ saved' = [saved EXCEPT ![run[p].job.key] = -1]

LEMMA ExpireTurns ==
  ASSUME BrowserTypeOK, NEW p \in Runners, Brw!Expire(p, run[p])
  PROVE  Turned(p)
<1>1. run[p] \in RunState /\ Placed(run[p])
  BY DEF BrowserTypeOK
<1>2. CASE Brw!Fail(p, run[p])
  BY <1>2, FailMoves DEF Turned
<1>3. CASE run[p].row.login /\ Brw!LogIn(p, run[p])
  <2> DEFINE x == Brw!LoginRun(run[p])
  <2>1. x \in RunState
    BY <1>1, LoginRunType
  <2>2. x.row = LoginRow /\ x.job = run[p].job /\ x.pc = "look"
    BY DEF Brw!LoginRun, Brw!Start
  <2>3. run[p].job.login
    BY <1>1, <1>3 DEF Placed
  <2> HIDE DEF x
  <2>4. Placed(x)
    BY <2>2, <2>3 DEF Placed, Paging
  <2> QED BY <1>3, <2>1, <2>4 DEF Turned, Moves, Brw!LogIn, x
<1>4. CASE Brw!Update(p, [run[p] EXCEPT !.pc = "expired"]) /\ UNCHANGED saved
  <2> DEFINE r == run[p]
             x == [r EXCEPT !.pc = "expired"]
  <2> HIDE DEF r
  <2>1. r \in RunState /\ Placed(r)
    BY <1>1 DEF r
  <2>2. x \in RunState /\ x.row = r.row /\ x.job = r.job /\ x.pc = "expired"
    BY <2>1 DEF RunState, Brw!Ended
  <2>3. Placed(x)
    BY <2>1, <2>2 DEF Placed, Paging
  <2> QED BY <1>4, <2>2, <2>3 DEF Turned, Moves, r
<1> QED BY <1>2, <1>3, <1>4 DEF Brw!Expire

LEMMA TimeOutTurns ==
  ASSUME BrowserTypeOK, NEW p \in Runners, Brw!TimeOut(p, run[p])
  PROVE  Turned(p)
BY ExpireTurns, FailMoves DEF Brw!TimeOut, Turned

\* A run that keeps its row keeps its place, but for what .pc says of it.
LEMMA PlacedAt ==
  ASSUME NEW r \in RunState, Placed(r), NEW x \in RunState, x.row = r.row, x.job = r.job,
         \/ x.pc \notin Paging
         \/ r.row.type = "dom" /\ x.pc = "read"
         \/ r.row.type = "dom" /\ r.row.mode # "none" /\ x.pc = "advance"
         \/ r.row.type = "dom" /\ r.row.mode \notin {"none", "page"} /\ x.pc = "settle"
  PROVE  Placed(x)
BY DEF Placed, Paging

LEMMA RunOf ==
  ASSUME BrowserTypeOK, NEW p \in Runners
  PROVE  run[p] \in RunState /\ Placed(run[p]) /\ run[p].row \in AllRows
BY RunFacts DEF BrowserTypeOK

Site == UNCHANGED <<alive, issued>>

LEMMA LookMoves ==
  ASSUME BrowserTypeOK, NEW p \in Runners, Brw!LookForState(p)
  PROVE  /\ run[p].pc = "look" /\ Site /\ UNCHANGED saved
         /\ \/ Moves(p, [run[p] EXCEPT !.pc = "fresh"])
            \/ Moves(p, [run[p] EXCEPT !.pc = "load"])
<1> DEFINE r == run[p]
           x(e) == [r EXCEPT !.pc = e]
<1>1. r.pc = "look" /\ Site /\ UNCHANGED saved /\ (Brw!Update(p, x("fresh")) \/ Brw!Update(p, x("load")))
  BY DEF Brw!LookForState, Site, Brw!Site
<1>2. r \in RunState /\ Placed(r)
  BY RunOf
<1> HIDE DEF r
<1>3. ASSUME NEW e \in {"fresh", "load"} PROVE x(e) \in RunState /\ Placed(x(e))
  <2>1. x(e) \in RunState /\ x(e).row = r.row /\ x(e).job = r.job /\ x(e).pc = e
    BY <1>2 DEF RunState, Setup
  <2> QED BY <1>2, <2>1, PlacedAt DEF Paging
<1> QED BY <1>1, <1>3 DEF Moves, r

LEMMA NewContextMoves ==
  ASSUME BrowserTypeOK, NEW p \in Runners, Brw!NewContext(p)
  PROVE  /\ run[p].pc \in {"fresh", "load"} /\ Site /\ UNCHANGED saved
         /\ \/ Moves(p, [run[p] EXCEPT !.pc = "failed"])
            \/ \E j \in {0, saved[run[p].row.key]} :
                 Moves(p, [run[p] EXCEPT !.pc = "goto", !.jar = j])
<1> DEFINE r == run[p]
           s == saved[r.row.key]
           x(j) == [r EXCEPT !.pc = "goto", !.jar = j]
<1>1. r.pc \in {"fresh", "load"} /\ Site
  BY DEF Brw!NewContext, Site, Brw!Site
<1>2. r \in RunState /\ Placed(r) /\ s \in {-1} \cup Nat
  BY RunOf, RowFacts DEF BrowserTypeOK
<1>3. CASE Brw!Fail(p, r)
  BY <1>1, <1>3, FailMoves
<1>4. CASE ~Brw!Fail(p, r)
  <2> DEFINE j == IF r.pc = "load" THEN s ELSE 0
  <2>1. UNCHANGED saved /\ Brw!Update(p, x(j)) /\ (r.pc = "load" => s # -1)
    BY <1>4 DEF Brw!NewContext
  <2> HIDE DEF r, s
  <2>2. j \in Nat /\ j \in {0, s}
    BY <1>2, <2>1
  <2> HIDE DEF j
  <2>3. x(j) \in RunState /\ x(j).row = r.row /\ x(j).job = r.job /\ x(j).pc = "goto"
    BY <1>2, <2>2 DEF RunState, Setup
  <2>4. Moves(p, x(j))
    BY <1>2, <2>1, <2>3, PlacedAt DEF Moves, Paging
  <2> QED BY <1>1, <2>1, <2>2, <2>4 DEF r, s
<1> QED BY <1>3, <1>4

Loaded(r) ==
  [r EXCEPT !.pc = "act", !.step = 1, !.login = ~Brw!Known(r), !.shown = 1, !.coming = 0,
            !.idle = FALSE, !.sent = IF r.row.type = "xhr" THEN 1 ELSE 0,
            !.flying = IF r.row.type = "xhr" THEN {1} ELSE {}]

LEMMA KnownType ==
  ASSUME NEW r \in RunState
  PROVE  Brw!Known(r) \in BOOLEAN
<1>1. r.row.open \in BOOLEAN
  BY RunFacts, RowFacts
<1> QED BY <1>1 DEF Brw!Known

LEMMA GotoMoves ==
  ASSUME BrowserTypeOK, NEW p \in Runners, Brw!Goto(p)
  PROVE  run[p].pc = "goto" /\ Site /\ UNCHANGED saved /\ Moves(p, Loaded(run[p]))
<1> DEFINE r == run[p]
           x == Loaded(r)
<1>1. r.pc = "goto" /\ Site /\ UNCHANGED saved /\ Brw!Update(p, x)
  BY DEF Brw!Goto, Site, Brw!Site, Loaded
<1>2. r \in RunState /\ Placed(r)
  BY RunOf
<1> HIDE DEF r
<1>3. Brw!Known(r) \in BOOLEAN
  BY <1>2, KnownType
<1>4. x \in RunState /\ x.row = r.row /\ x.job = r.job /\ x.pc = "act"
  <2> DEFINE k == ~Brw!Known(r)
             n == IF r.row.type = "xhr" THEN 1 ELSE 0
             f == IF r.row.type = "xhr" THEN {1} ELSE {}
             z(c) == [r EXCEPT !.pc = "act", !.step = 1, !.login = c, !.shown = 1, !.coming = 0,
                               !.idle = FALSE, !.sent = n, !.flying = f]
  <2>1. 1 \in Nat \ {0} /\ k \in BOOLEAN /\ n \in Nat /\ f \subseteq Nat /\ x = z(k)
    BY <1>3 DEF Loaded
  <2> HIDE DEF k, n, f, x
  <2>2. ASSUME NEW c \in BOOLEAN
        PROVE  z(c) \in RunState /\ z(c).row = r.row /\ z(c).job = r.job /\ z(c).pc = "act"
    BY <1>2, <2>1 DEF RunState
  <2> HIDE DEF z
  <2> QED BY <2>1, <2>2
<1> HIDE DEF x
<1>5. Moves(p, x)
  BY <1>1, <1>2, <1>4, PlacedAt DEF Moves, Paging
<1> QED BY <1>1, <1>5 DEF r, x

\* A step of the behaviour that is met.
Stepped(r) == [Brw!Acted(r, r.row.steps[r.step]) EXCEPT !.step = @ + 1]

LEMMA SteppedType ==
  ASSUME NEW r \in RunState, Placed(r), r.pc = "act"
  PROVE  Stepped(r) \in RunState /\ Placed(Stepped(r))
<1> DEFINE a == Brw!Acted(r, r.row.steps[r.step])
           x == [a EXCEPT !.step = @ + 1]
<1>1. /\ r.sent + 1 \in Nat /\ r.files + 1 \in Nat /\ r.step + 1 \in Nat \ {0}
      /\ r.flying \cup {r.sent + 1} \subseteq Nat /\ r.at \in Nat
  BY RunFacts
<1>2. a \in RunState /\ a.row = r.row /\ a.job = r.job /\ a.pc = r.pc /\ a.step = r.step
  <2>1. CASE a = [r EXCEPT !.coming = IF r.login THEN 0 ELSE r.at]
    <3> DEFINE c == IF r.login THEN 0 ELSE r.at
    <3>1. c \in Nat /\ a = [r EXCEPT !.coming = c]
      BY <1>1, <2>1
    <3> HIDE DEF c, a
    <3> QED BY <3>1 DEF RunState
  <2>2. CASE a = [r EXCEPT !.sent = @ + 1, !.flying = @ \cup {r.sent + 1}]
    <3> DEFINE n == r.sent + 1
               f == r.flying \cup {r.sent + 1}
    <3>1. n \in Nat /\ f \subseteq Nat /\ a = [r EXCEPT !.sent = n, !.flying = f]
      BY <1>1, <2>2
    <3> HIDE DEF n, f, a
    <3> QED BY <3>1 DEF RunState
  <2>3. CASE a = [r EXCEPT !.files = @ + 1]
    <3> DEFINE n == r.files + 1
    <3>1. n \in Nat /\ a = [r EXCEPT !.files = n]
      BY <1>1, <2>3
    <3> HIDE DEF n, a
    <3> QED BY <3>1 DEF RunState
  <2>4. CASE a = r
    BY <2>4
  <2> QED BY <2>1, <2>2, <2>3, <2>4 DEF Brw!Acted
<1> HIDE DEF a
<1>3. x \in RunState /\ x.row = r.row /\ x.job = r.job /\ x.pc = "act"
  BY <1>1, <1>2 DEF RunState
<1> HIDE DEF x
<1>4. Placed(x)
  BY <1>3, PlacedAt DEF Paging
<1> QED BY <1>3, <1>4 DEF x, a, Stepped

LEMMA ActMoves ==
  ASSUME BrowserTypeOK, NEW p \in Runners, Brw!Act(p)
  PROVE  /\ run[p].pc = "act" /\ run[p].step <= Len(run[p].row.steps) /\ Site /\ UNCHANGED saved
         /\ Brw!Met(run[p], run[p].row.steps[run[p].step]) /\ run[p].row.steps[run[p].step] # "submit"
         /\ \/ Moves(p, [run[p] EXCEPT !.pc = "failed"])
            \/ /\ run[p].row.steps[run[p].step] = "frame" => ~run[p].login
               /\ Moves(p, Stepped(run[p]))
<1> DEFINE r == run[p]
           s == r.row.steps[r.step]
<1>1. /\ r.pc = "act" /\ r.step <= Len(r.row.steps) /\ Site /\ UNCHANGED saved
      /\ Brw!Met(r, s) /\ s # "submit"
      /\ \/ Brw!Fail(p, r)
         \/ Brw!Update(p, Stepped(r)) /\ (s = "frame" => ~r.login)
  BY DEF Brw!Act, Site, Brw!Site, Brw!Fail, Stepped
<1>2. Brw!Update(p, Stepped(r)) => Moves(p, Stepped(r))
  BY <1>1, RunOf, SteppedType DEF Moves
<1> QED BY <1>1, <1>2, FailMoves

LEMMA SubmitMoves ==
  ASSUME BrowserTypeOK, NEW p \in Runners, Brw!Submit(p)
  PROVE  /\ run[p].pc = "act" /\ run[p].row.steps[run[p].step] = "submit" /\ run[p].login
         /\ issued' = issued + 1 /\ UNCHANGED saved
         /\ Moves(p, [run[p] EXCEPT !.jar = issued + 1, !.login = FALSE, !.idle = FALSE, !.step = @ + 1])
<1> DEFINE r == run[p]
           n == issued + 1
           x == [r EXCEPT !.jar = n, !.login = FALSE, !.idle = FALSE, !.step = @ + 1]
<1>1. /\ r.pc = "act" /\ r.row.steps[r.step] = "submit" /\ r.login
      /\ issued' = n /\ UNCHANGED saved /\ Brw!Update(p, x)
  BY DEF Brw!Submit
<1>2. r \in RunState /\ Placed(r) /\ n \in Nat
  BY RunOf DEF BrowserTypeOK
<1> HIDE DEF r, n
<1>3. r.step + 1 \in Nat \ {0}
  BY <1>2, RunFacts
<1>4. x \in RunState /\ x.row = r.row /\ x.job = r.job /\ x.pc = "act"
  BY <1>1, <1>2, <1>3 DEF RunState
<1> HIDE DEF x
<1>5. Moves(p, x)
  BY <1>1, <1>2, <1>4, PlacedAt DEF Moves, Paging
<1> QED BY <1>1, <1>5 DEF x, r, n

LEMMA RejectedMoves ==
  ASSUME BrowserTypeOK, NEW p \in Runners, Brw!Rejected(p)
  PROVE  /\ run[p].pc = "act" /\ run[p].row.steps[run[p].step] = "submit" /\ run[p].login
         /\ Site /\ UNCHANGED saved
         /\ Moves(p, [run[p] EXCEPT !.step = @ + 1])
<1> DEFINE r == run[p]
           x == [r EXCEPT !.step = @ + 1]
<1>1. /\ r.pc = "act" /\ r.row.steps[r.step] = "submit" /\ r.login
      /\ Site /\ UNCHANGED saved /\ Brw!Update(p, x)
  BY DEF Brw!Rejected, Site, Brw!Site
<1>2. r \in RunState /\ Placed(r)
  BY RunOf
<1> HIDE DEF r
<1>3. r.step + 1 \in Nat \ {0}
  BY <1>2, RunFacts
<1>4. x \in RunState /\ x.row = r.row /\ x.job = r.job /\ x.pc = "act"
  BY <1>1, <1>2, <1>3 DEF RunState
<1> HIDE DEF x
<1>5. Moves(p, x)
  BY <1>1, <1>2, <1>4, PlacedAt DEF Moves, Paging
<1> QED BY <1>1, <1>5 DEF x, r

LEMMA TimesOutMoves ==
  ASSUME BrowserTypeOK, NEW p \in Runners, Brw!StepTimesOut(p)
  PROVE  Site /\ Turned(p)
BY TimeOutTurns DEF Brw!StepTimesOut, Site, Brw!Site

LEMMA DiesMoves ==
  ASSUME BrowserTypeOK, NEW p \in Runners, Brw!BrowserDies(p)
  PROVE  Site /\ UNCHANGED saved /\ Moves(p, [run[p] EXCEPT !.pc = "failed"])
BY FailMoves DEF Brw!BrowserDies, Site, Brw!Site

LEMMA PlacedStill ==
  ASSUME NEW r \in RunState, Placed(r), NEW x \in RunState,
         x.row = r.row, x.job = r.job, x.pc = r.pc
  PROVE  Placed(x)
BY DEF Placed

Rendered(r) ==
  [r EXCEPT !.coming = 0, !.shown = IF Brw!Known(r) THEN r.coming ELSE @,
            !.login = ~Brw!Known(r)]

LEMMA RenderMoves ==
  ASSUME BrowserTypeOK, NEW p \in Runners, Brw!Render(p)
  PROVE  /\ run[p].pc \notin Brw!Ended /\ run[p].coming # 0 /\ Site /\ UNCHANGED saved
         /\ Moves(p, Rendered(run[p]))
<1> DEFINE r == run[p]
           x == Rendered(r)
<1>1. r.pc \notin Brw!Ended /\ r.coming # 0 /\ Site /\ UNCHANGED saved /\ Brw!Update(p, x)
  BY DEF Brw!Render, Site, Brw!Site, Rendered
<1>2. r \in RunState /\ Placed(r)
  BY RunOf
<1> HIDE DEF r
<1>3. Brw!Known(r) \in BOOLEAN /\ r.coming \in Nat /\ r.shown \in Nat
  BY <1>2, KnownType, RunFacts
<1>4. x \in RunState /\ x.row = r.row /\ x.job = r.job /\ x.pc = r.pc
  <2> DEFINE k == ~Brw!Known(r)
             n == IF Brw!Known(r) THEN r.coming ELSE r.shown
             z(c) == [r EXCEPT !.coming = 0, !.shown = n, !.login = c]
  <2>1. k \in BOOLEAN /\ n \in Nat /\ x = z(k)
    BY <1>3 DEF Rendered
  <2> HIDE DEF k, n, x
  <2>2. ASSUME NEW c \in BOOLEAN
        PROVE  z(c) \in RunState /\ z(c).row = r.row /\ z(c).job = r.job /\ z(c).pc = r.pc
    BY <1>2, <2>1 DEF RunState
  <2> HIDE DEF z
  <2> QED BY <2>1, <2>2
<1> HIDE DEF x
<1>5. Moves(p, x)
  BY <1>1, <1>2, <1>4, PlacedStill DEF Moves
<1> QED BY <1>1, <1>5 DEF r, x

LEMMA QuietMoves ==
  ASSUME BrowserTypeOK, NEW p \in Runners, Brw!Quiet(p)
  PROVE  /\ run[p].pc \in {"act"} \cup Paging /\ Site /\ UNCHANGED saved
         /\ run[p].coming = 0 /\ run[p].flying = {} /\ ~Brw!Early(run[p])
         /\ Moves(p, [run[p] EXCEPT !.idle = TRUE])
<1> DEFINE r == run[p]
           x == [r EXCEPT !.idle = TRUE]
<1>1. /\ r.pc \in {"act"} \cup Paging /\ Site /\ UNCHANGED saved
      /\ r.coming = 0 /\ r.flying = {} /\ ~Brw!Early(r) /\ Brw!Update(p, x)
  BY DEF Brw!Quiet, Site, Brw!Site, Paging
<1>2. r \in RunState /\ Placed(r)
  BY RunOf
<1> HIDE DEF r
<1>3. x \in RunState /\ x.row = r.row /\ x.job = r.job /\ x.pc = r.pc
  BY <1>2 DEF RunState
<1> HIDE DEF x
<1>4. Moves(p, x)
  BY <1>1, <1>2, <1>3, PlacedStill DEF Moves
<1> QED BY <1>1, <1>4 DEF x, r

\* What a reply that comes in adds to the excuses.
Marred(r, n) ==
  IF ~Brw!Known(r) THEN {"expired"}
  ELSE IF ~r.row.all /\ Brw!Overtaken(r, n) THEN {"overtaken"} ELSE {}

Replied(r, n) ==
  [r EXCEPT !.flying = @ \ {n},
            !.captured = IF Brw!Known(r) THEN Append(@, n) ELSE @,
            !.excuse = @ \cup Marred(r, n)]

LEMMA ReplyMoves ==
  ASSUME BrowserTypeOK, NEW p \in Runners, Brw!ReplyArrives(p)
  PROVE  /\ run[p].pc \notin Brw!Ended /\ Site /\ UNCHANGED saved
         /\ \E n \in run[p].flying : Moves(p, Replied(run[p], n))
<1> DEFINE r == run[p]
<1>1. r.pc \notin Brw!Ended /\ Site /\ UNCHANGED saved
  BY DEF Brw!ReplyArrives, Site, Brw!Site
<1>2. PICK n \in r.flying : Brw!Update(p, Replied(r, n))
  BY DEF Brw!ReplyArrives, Replied, Marred
<1>3. r \in RunState /\ Placed(r)
  BY RunOf
<1> DEFINE x == Replied(r, n)
<1> HIDE DEF r
<1>4. x \in RunState /\ x.row = r.row /\ x.job = r.job /\ x.pc = r.pc
  <2> DEFINE f == r.flying \ {n}
             c == IF Brw!Known(r) THEN Append(r.captured, n) ELSE r.captured
             e == r.excuse \cup Marred(r, n)
  <2>1. x = [r EXCEPT !.flying = f, !.captured = c, !.excuse = e]
    BY <1>3 DEF Replied, RunState
  <2>2. f \subseteq Nat /\ c \in Seq(Nat) /\ e \subseteq Excuses
    <3>1. /\ r.flying \subseteq Nat /\ r.captured \in Seq(Nat) /\ n \in Nat
          /\ r.excuse \subseteq Excuses
      BY <1>2, <1>3, RunFacts
    <3>2. Append(r.captured, n) \in Seq(Nat)
      BY <3>1, AppendProperties
    <3>3. Marred(r, n) \subseteq Excuses
      BY DEF Marred, Excuses
    <3> QED BY <3>1, <3>2, <3>3
  <2> HIDE DEF x, f, c, e
  <2> QED BY <1>3, <2>1, <2>2 DEF RunState
<1> HIDE DEF x
<1>5. Moves(p, x)
  BY <1>2, <1>3, <1>4, PlacedStill DEF Moves, x
<1> QED BY <1>1, <1>5 DEF r, x

Returned(r) == [r EXCEPT !.pc = "returned"]

LEMMA ReturnedType ==
  ASSUME NEW r \in RunState, Placed(r)
  PROVE  Returned(r) \in RunState /\ Placed(Returned(r))
<1>1. /\ Returned(r) \in RunState /\ Returned(r).row = r.row /\ Returned(r).job = r.job
      /\ Returned(r).pc = "returned"
  BY DEF RunState, Returned, Brw!Ended
<1> QED BY <1>1, PlacedAt DEF Paging

HandedOver(r) ==
  [r EXCEPT !.pc = "returned", !.got = Brw!Bodies(r),
            !.excuse = @ \cup (IF r.flying # {} THEN {"late"} ELSE {})]

LEMMA BodiesType ==
  ASSUME NEW r \in RunState, r.captured # <<>>
  PROVE  /\ Brw!Bodies(r) \subseteq Nat /\ Len(r.captured) \in DOMAIN r.captured
         /\ \A i \in DOMAIN r.captured : r.captured[i] \in Nat
<1>1. r.captured \in Seq(Nat)
  BY RunFacts
<1>2. Len(r.captured) \in DOMAIN r.captured /\ \A i \in DOMAIN r.captured : r.captured[i] \in Nat
  BY <1>1
<1> QED BY <1>2 DEF Brw!Bodies, Brw!Last

LEMMA HandedOverType ==
  ASSUME NEW r \in RunState, Placed(r), r.captured # <<>>
  PROVE  HandedOver(r) \in RunState /\ Placed(HandedOver(r))
<1> DEFINE g == Brw!Bodies(r)
           e == r.excuse \cup (IF r.flying # {} THEN {"late"} ELSE {})
           x == [r EXCEPT !.pc = "returned", !.got = g, !.excuse = e]
<1>1. g \subseteq Nat /\ e \subseteq Excuses
  BY RunFacts, BodiesType DEF Excuses
<1>2. HandedOver(r) = x
  BY DEF HandedOver, RunState
<1> HIDE DEF g, e
<1>3. x \in RunState /\ x.row = r.row /\ x.job = r.job /\ x.pc = "returned"
  BY <1>1 DEF RunState, Brw!Ended
<1> HIDE DEF x
<1> QED BY <1>2, <1>3, PlacedAt DEF Paging

LEMMA AgainPlaced ==
  ASSUME NEW r \in RunState
  PROVE  Brw!Again(r) \in RunState /\ Placed(Brw!Again(r))
<1>1. Brw!Again(r).row = r.job /\ Brw!Again(r).job = r.job /\ Brw!Again(r).pc = "look"
  BY DEF Brw!Again, Brw!Start
<1> QED BY <1>1, AgainType DEF Placed, Paging

LEMMA ReadOnType ==
  ASSUME NEW r \in RunState, Placed(r), r.row.type = "dom"
  PROVE  Brw!ReadOn(r) \in RunState /\ Placed(Brw!ReadOn(r))
<1> DEFINE e == r.excuse \cup {"cut"}
           x == [r EXCEPT !.pc = "returned", !.excuse = e]
           y == [r EXCEPT !.pc = "read"]
<1>1. Brw!ReadOn(r) = x \/ Brw!ReadOn(r) = y
  BY DEF Brw!ReadOn
<1>2. e \subseteq Excuses
  BY RunFacts DEF Excuses
<1> HIDE DEF e
<1>3. x \in RunState /\ x.row = r.row /\ x.job = r.job /\ x.pc = "returned"
  BY <1>2 DEF RunState, Brw!Ended
<1>4. y \in RunState /\ y.row = r.row /\ y.job = r.job /\ y.pc = "read"
  BY DEF RunState, Paging
<1>5. Placed(x)
  BY <1>3, PlacedAt DEF Paging
<1>6. Placed(y)
  BY <1>4, PlacedAt
<1> QED BY <1>1, <1>3, <1>4, <1>5, <1>6

\* The end of a behaviour.
LEMMA DoneMoves ==
  ASSUME BrowserTypeOK, NEW p \in Runners, Brw!BehaviourDone(p)
  PROVE  /\ run[p].pc = "act" /\ run[p].step > Len(run[p].row.steps) /\ Site
         /\ \/ Turned(p)
            \/ /\ run[p].row.type = "session"
               /\ ~(run[p].read = 0 /\ run[p].row.marker /\ run[p].login)
               /\ saved' = [saved EXCEPT ![run[p].row.key] = run[p].jar]
               /\ \/ run[p].job = run[p].row /\ Moves(p, Returned(run[p]))
                  \/ run[p].job # run[p].row /\ Moves(p, Brw!Again(run[p]))
            \/ /\ run[p].row.type = "binary" /\ UNCHANGED saved
               /\ Moves(p, Returned(run[p]))
            \/ /\ run[p].row.type = "xhr" /\ UNCHANGED saved
               /\ run[p].captured # <<>> /\ Moves(p, HandedOver(run[p]))
            \/ /\ run[p].row.type = "dom" /\ UNCHANGED saved
               /\ Moves(p, Brw!ReadOn(run[p]))
<1> DEFINE r == run[p]
<1>1. r.pc = "act" /\ r.step > Len(r.row.steps) /\ Site
  BY DEF Brw!BehaviourDone, Site, Brw!Site
<1>2. r \in RunState /\ Placed(r) /\ r.row \in AllRows
  BY RunOf
<1>3. /\ {r.row.marker, r.login} \subseteq BOOLEAN
      /\ r.row.type \in {"dom", "xhr", "binary", "session"}
  BY <1>2, RunFacts, RowFacts
<1> DEFINE m == r.read = 0 /\ r.row.marker /\ r.login
<1>4. CASE m
  <2>1. Brw!Expire(p, r)
    BY <1>4 DEF Brw!BehaviourDone
  <2> QED BY <1>1, <2>1, ExpireTurns
<1>5. CASE ~m /\ r.row.type = "session"
  <2>1. Brw!SaveState(p, r)
    BY <1>5 DEF Brw!BehaviourDone
  <2>2. saved' = [saved EXCEPT ![r.row.key] = r.jar]
    BY <2>1 DEF Brw!SaveState
  <2>3. CASE r.job = r.row
    <3>1. Brw!Update(p, Returned(r))
      BY <2>1, <2>3 DEF Brw!SaveState, Returned
    <3> QED BY <1>1, <1>2, <1>5, <2>2, <2>3, <3>1, ReturnedType DEF Moves
  <2>4. CASE r.job # r.row
    <3>1. Brw!Update(p, Brw!Again(r))
      BY <2>1, <2>4 DEF Brw!SaveState
    <3> QED BY <1>1, <1>2, <1>5, <2>2, <2>4, <3>1, AgainPlaced DEF Moves
  <2> QED BY <2>3, <2>4
<1>6. CASE ~m /\ r.row.type = "binary"
  <2>1. Brw!Fail(p, r) \/ Brw!Hand(p, r)
    BY <1>6 DEF Brw!BehaviourDone
  <2>2. CASE Brw!Fail(p, r)
    BY <1>1, <2>2, FailMoves DEF Turned
  <2>3. CASE Brw!Hand(p, r)
    BY <1>1, <1>2, <1>6, <2>3, ReturnedType DEF Moves, Brw!Hand, Returned
  <2> QED BY <2>1, <2>2, <2>3
<1>7. CASE ~m /\ r.row.type = "dom"
  <2>1. Brw!Update(p, Brw!ReadOn(r)) /\ UNCHANGED saved
    BY <1>7 DEF Brw!BehaviourDone
  <2> QED BY <1>1, <1>2, <1>7, <2>1, ReadOnType DEF Moves
<1>8. CASE ~m /\ r.row.type = "xhr"
  <2>1. CASE Brw!Fail(p, r)
    BY <1>1, <2>1, FailMoves DEF Turned
  <2>2. CASE r.captured # <<>> /\ Brw!HandBodies(p, r)
    <3>1. Brw!Update(p, HandedOver(r)) /\ UNCHANGED saved
      BY <2>2 DEF Brw!HandBodies, HandedOver
    <3> QED BY <1>1, <1>2, <1>8, <2>2, <3>1, HandedOverType DEF Moves
  <2> QED BY <1>8, <2>1, <2>2 DEF Brw!BehaviourDone
<1> QED BY <1>3, <1>4, <1>5, <1>6, <1>7, <1>8

Merged(r) ==
  [r EXCEPT !.got = @ \cup Brw!Visible(r), !.previous = Brw!Visible(r), !.read = @ + 1,
            !.excuse = Brw!Blame(r)]
Stopped(r) == [r EXCEPT !.pc = "returned", !.excuse = Brw!Blame(r)]

LEMMA BlameType ==
  ASSUME NEW r \in RunState
  PROVE  Brw!Blame(r) \subseteq Excuses
BY RunFacts DEF Brw!Blame, Excuses

LEMMA MergedType ==
  ASSUME NEW r \in RunState
  PROVE  /\ Merged(r) \in RunState /\ Merged(r).row = r.row /\ Merged(r).job = r.job
         /\ Merged(r).pc = r.pc
<1> DEFINE v == Brw!Visible(r)
           g == r.got \cup v
           n == r.read + 1
           e == Brw!Blame(r)
<1>1. v \subseteq Nat
  BY PagesType DEF Brw!Visible
<1>2. g \subseteq Nat /\ n \in Nat /\ e \subseteq Excuses
  BY <1>1, RunFacts, BlameType
<1>3. Merged(r) = [r EXCEPT !.got = g, !.previous = v, !.read = n, !.excuse = e]
  BY DEF Merged, RunState
<1> DEFINE x == Merged(r)
<1> HIDE DEF v, g, n, e, x
<1>4. x = [r EXCEPT !.got = g, !.previous = v, !.read = n, !.excuse = e]
  BY <1>3 DEF x
<1>5. x \in RunState /\ x.row = r.row /\ x.job = r.job /\ x.pc = r.pc
  BY <1>1, <1>2, <1>4 DEF RunState
<1> QED BY <1>5 DEF x

LEMMA StoppedType ==
  ASSUME NEW r \in RunState, Placed(r)
  PROVE  Stopped(r) \in RunState /\ Placed(Stopped(r))
<1> DEFINE b == Brw!Blame(r)
<1>1. b \subseteq Excuses
  BY BlameType
<1> HIDE DEF b
<1>2. /\ Stopped(r) \in RunState /\ Stopped(r).row = r.row /\ Stopped(r).job = r.job
      /\ Stopped(r).pc = "returned"
  BY <1>1 DEF RunState, Stopped, Brw!Ended, b
<1> QED BY <1>2, PlacedAt DEF Paging

Turning(r) == [Merged(r) EXCEPT !.pc = "advance"]
Handed(r)  == [Merged(r) EXCEPT !.pc = "returned"]

LEMMA ReadMoves ==
  ASSUME BrowserTypeOK, NEW p \in Runners, Brw!Read(p)
  PROVE  /\ run[p].pc = "read" /\ run[p].row.type = "dom" /\ Site /\ UNCHANGED saved
         /\ \/ ~Brw!Paged(run[p].row) /\ Moves(p, Handed(run[p]))
            \/ Brw!Paged(run[p].row) /\ Brw!StopAt(run[p]) /\ Moves(p, Stopped(run[p]))
            \/ Brw!Paged(run[p].row) /\ ~Brw!StopAt(run[p]) /\ Moves(p, Turning(run[p]))
<1> DEFINE r == run[p]
<1>1. /\ r.pc = "read" /\ Site /\ UNCHANGED saved
      /\ Brw!Update(p, IF ~Brw!Paged(r.row) THEN Handed(r)
                       ELSE IF Brw!StopAt(r) THEN Stopped(r) ELSE Turning(r))
  BY DEF Brw!Read, Site, Brw!Site, Handed, Stopped, Turning, Merged
<1>2. r \in RunState /\ Placed(r)
  BY RunOf
<1>3. r.row.type = "dom"
  BY <1>1, <1>2 DEF Placed, Paging
<1>4. Handed(r) \in RunState /\ Placed(Handed(r))
  <2> DEFINE m == Merged(r)
  <2>1. m \in RunState /\ m.row = r.row /\ m.job = r.job
    BY <1>2, MergedType
  <2> HIDE DEF m
  <2> DEFINE x == [m EXCEPT !.pc = "returned"]
  <2>2. x \in RunState /\ x.row = r.row /\ x.job = r.job /\ x.pc = "returned"
    BY <2>1 DEF RunState, Brw!Ended
  <2>3. Placed(x)
    BY <1>2, <2>2, PlacedAt DEF Paging
  <2> QED BY <2>2, <2>3 DEF Handed, m
<1>5. Stopped(r) \in RunState /\ Placed(Stopped(r))
  BY <1>2, StoppedType
<1>6. ASSUME Brw!Paged(r.row) PROVE Turning(r) \in RunState /\ Placed(Turning(r))
  <2> DEFINE m == Merged(r)
  <2>1. m \in RunState /\ m.row = r.row /\ m.job = r.job
    BY <1>2, MergedType
  <2> HIDE DEF m
  <2> DEFINE x == [m EXCEPT !.pc = "advance"]
  <2>2. x \in RunState /\ x.row = r.row /\ x.job = r.job /\ x.pc = "advance"
    BY <2>1 DEF RunState, Paging
  <2>3. Placed(x)
    BY <1>2, <1>6, <2>2, PlacedAt DEF Brw!Paged
  <2> QED BY <2>2, <2>3 DEF Turning, m
<1> HIDE DEF r
<1>7. CASE ~Brw!Paged(r.row)
  BY <1>1, <1>3, <1>4, <1>7 DEF Moves, r
<1>8. CASE Brw!Paged(r.row) /\ Brw!StopAt(r)
  BY <1>1, <1>3, <1>5, <1>8 DEF Moves, r
<1>9. CASE Brw!Paged(r.row) /\ ~Brw!StopAt(r)
  BY <1>1, <1>3, <1>6, <1>9 DEF Moves, r
<1> QED BY <1>7, <1>8, <1>9

Numbered(r) == [r EXCEPT !.at = @ + 1, !.pc = "goto"]
Clicked(r)  == [r EXCEPT !.pc = "settle", !.coming = IF Brw!Control(r) THEN r.shown + 1 ELSE 0]

LEMMA AdvanceMoves ==
  ASSUME BrowserTypeOK, NEW p \in Runners, Brw!Advance(p)
  PROVE  /\ run[p].pc = "advance" /\ run[p].row.type = "dom" /\ Site /\ UNCHANGED saved
         /\ \/ run[p].row.mode = "page" /\ Moves(p, Numbered(run[p]))
            \/ run[p].row.mode = "click" /\ ~Brw!Control(run[p]) /\ Moves(p, Stopped(run[p]))
            \/ /\ run[p].row.mode \in {"click", "scroll"}
               /\ run[p].row.mode = "click" => Brw!Control(run[p])
               /\ Moves(p, Clicked(run[p]))
<1> DEFINE r == run[p]
<1>1. r.pc = "advance" /\ Site /\ UNCHANGED saved
  BY DEF Brw!Advance, Site, Brw!Site
<1>2. r \in RunState /\ Placed(r) /\ r.row \in AllRows
  BY RunOf
<1>3. r.row.type = "dom" /\ r.row.mode # "none"
  BY <1>1, <1>2 DEF Placed, Paging
<1>4. r.row.mode \in {"click", "scroll", "page"}
  BY <1>2, <1>3, RowFacts
<1>5. CASE r.row.mode = "page"
  <2>1. Brw!Update(p, Numbered(r))
    BY <1>5 DEF Brw!Advance, Numbered
  <2> HIDE DEF r
  <2>2. r.at + 1 \in Nat \ {0}
    BY <1>2, RunFacts
  <2>3. /\ Numbered(r) \in RunState /\ Numbered(r).row = r.row /\ Numbered(r).job = r.job
        /\ Numbered(r).pc = "goto"
    BY <1>2, <2>2 DEF RunState, Numbered, Setup
  <2>4. Placed(Numbered(r))
    BY <1>2, <2>3, PlacedAt DEF Paging
  <2> QED BY <1>1, <1>3, <1>5, <2>1, <2>3, <2>4 DEF Moves, r
<1>6. CASE r.row.mode = "click" /\ ~Brw!Control(r)
  <2>1. Brw!Update(p, Stopped(r))
    BY <1>6 DEF Brw!Advance, Stopped
  <2> QED BY <1>1, <1>2, <1>3, <1>6, <2>1, StoppedType DEF Moves
<1>7. CASE r.row.mode \in {"click", "scroll"} /\ (r.row.mode = "click" => Brw!Control(r))
  <2>1. Brw!Update(p, Clicked(r))
    BY <1>7 DEF Brw!Advance, Clicked
  <2> DEFINE c == IF Brw!Control(r) THEN r.shown + 1 ELSE 0
             x == [r EXCEPT !.pc = "settle", !.coming = c]
  <2>2. c \in Nat
    BY <1>2, RunFacts
  <2> HIDE DEF r, c
  <2>3. x \in RunState /\ x.row = r.row /\ x.job = r.job /\ x.pc = "settle"
    BY <1>2, <2>2 DEF RunState, Paging
  <2>4. Placed(x)
    BY <1>2, <1>3, <1>7, <2>3, PlacedAt
  <2>5. Clicked(r) = x
    BY DEF Clicked, c
  <2> QED BY <1>1, <1>3, <1>7, <2>1, <2>3, <2>4, <2>5 DEF Moves, r
<1> QED BY <1>4, <1>5, <1>6, <1>7

LEMMA SettleMoves ==
  ASSUME BrowserTypeOK, NEW p \in Runners, Brw!Settle(p)
  PROVE  /\ run[p].pc = "settle" /\ run[p].row.type = "dom" /\ Site /\ UNCHANGED saved
         /\ Moves(p, Brw!ReadOn(run[p]))
<1>1. /\ run[p].pc = "settle" /\ Site /\ UNCHANGED saved /\ Brw!Update(p, Brw!ReadOn(run[p]))
  BY DEF Brw!Settle, Site, Brw!Site
<1>2. run[p] \in RunState /\ Placed(run[p])
  BY RunOf
<1>3. run[p].row.type = "dom"
  BY <1>1, <1>2 DEF Placed, Paging
<1> QED BY <1>1, <1>2, <1>3, ReadOnType DEF Moves

Exhausted(r) ==
  [r EXCEPT !.pc = "returned",
            !.excuse = Brw!Blame(r) \cup (IF Pages \in r.got THEN {} ELSE {"late"})]

LEMMA NothingMoves ==
  ASSUME BrowserTypeOK, NEW p \in Runners, Brw!NothingFollows(p)
  PROVE  /\ run[p].pc = "settle" /\ run[p].row.type = "dom" /\ Site /\ UNCHANGED saved
         /\ Moves(p, Exhausted(run[p]))
<1> DEFINE r == run[p]
           b == Brw!Blame(r) \cup (IF Pages \in r.got THEN {} ELSE {"late"})
           x == [r EXCEPT !.pc = "returned", !.excuse = b]
<1>1. r.pc = "settle" /\ Site /\ UNCHANGED saved /\ Brw!Update(p, x)
  BY DEF Brw!NothingFollows, Site, Brw!Site
<1>2. r \in RunState /\ Placed(r)
  BY RunOf
<1>3. r.row.type = "dom"
  BY <1>1, <1>2 DEF Placed, Paging
<1>4. b \subseteq Excuses
  BY <1>2, BlameType DEF Excuses
<1>5. x = Exhausted(r)
  BY DEF Exhausted
<1> HIDE DEF r, b
<1>6. x \in RunState /\ x.row = r.row /\ x.job = r.job /\ x.pc = "returned"
  BY <1>2, <1>4 DEF RunState, Brw!Ended
<1>7. Placed(x)
  BY <1>2, <1>6, PlacedAt DEF Paging
<1> QED BY <1>1, <1>3, <1>5, <1>6, <1>7 DEF Moves, r

LEMMA BrowserTypeInit == Brw!Init => BrowserTypeOK
<1> SUFFICES ASSUME Brw!Init PROVE BrowserTypeOK
  OBVIOUS
<1>1. PICK j : /\ \A p \in Runners : j[p] \in BrowserRows[p]
               /\ run = [p \in Runners |-> Brw!Start(j[p])]
  BY DEF Brw!Init
<1>2. \A p \in Runners : j[p] \in AllRows
  BY <1>1 DEF AllRows
<1>3. run \in [Runners -> RunState]
  BY <1>1, <1>2, StartType
<1>4. ASSUME NEW p \in Runners PROVE Placed(run[p])
  <2>1. run[p].row = j[p] /\ run[p].job = j[p] /\ run[p].pc = "look"
    BY <1>1 DEF Brw!Start
  <2> QED BY <2>1 DEF Placed, Paging
<1>5. issued \in Nat /\ saved \in [Keys -> {-1} \cup Nat]
  <2>1. issued = 1 /\ saved \in [Keys -> {-1, 1}]
    BY DEF Brw!Init
  <2>2. {-1, 1} \subseteq {-1} \cup Nat
    OBVIOUS
  <2> QED BY <2>1, <2>2
<1> QED BY <1>3, <1>4, <1>5 DEF BrowserTypeOK

LEMMA MoveKeepsTypes ==
  ASSUME BrowserTypeOK, NEW p \in Runners, NEW x, Moves(p, x),
         issued' \in Nat, saved' \in [Keys -> {-1} \cup Nat]
  PROVE  BrowserTypeOK'
<1>1. run' = [run EXCEPT ![p] = x] /\ x \in RunState /\ Placed(x) /\ run'[p] = x
  BY Updated DEF Moves
<1>2. run' \in [Runners -> RunState]
  BY <1>1 DEF BrowserTypeOK
<1>3. \A q \in Runners : Placed(run'[q])
  BY <1>1, Updated DEF BrowserTypeOK, Moves
<1> QED BY <1>2, <1>3 DEF BrowserTypeOK

LEMMA BrowserTypeNext == BrowserTypeOK /\ [Brw!Next]_browser => BrowserTypeOK'
<1> SUFFICES ASSUME BrowserTypeOK, [Brw!Next]_browser PROVE BrowserTypeOK'
  OBVIOUS
<1>1. /\ issued \in Nat /\ issued + 1 \in Nat /\ saved \in [Keys -> {-1} \cup Nat]
  BY DEF BrowserTypeOK
<1>2. ASSUME NEW p \in Runners, NEW x, Moves(p, x), Site, UNCHANGED saved PROVE BrowserTypeOK'
  BY <1>1, <1>2, MoveKeepsTypes DEF Site
<1>3. ASSUME NEW p \in Runners, Turned(p), Site PROVE BrowserTypeOK'
  <2>1. saved' = [saved EXCEPT ![run[p].job.key] = -1] => saved' \in [Keys -> {-1} \cup Nat]
    BY <1>1
  <2> QED BY <1>1, <1>3, <2>1, MoveKeepsTypes DEF Turned, Site
<1>4. ASSUME NEW p \in Runners, Brw!BehaviourDone(p) PROVE BrowserTypeOK'
  <2>1. CASE saved' = [saved EXCEPT ![run[p].row.key] = run[p].jar] /\ Site /\ \E x : Moves(p, x)
    <3>1. run[p].jar \in Nat
      BY RunOf, RunFacts
    <3>2. saved' \in [Keys -> {-1} \cup Nat]
      BY <1>1, <2>1, <3>1
    <3> QED BY <1>1, <2>1, <3>2, MoveKeepsTypes DEF Site
  <2> QED BY <1>2, <1>3, <1>4, <2>1, DoneMoves
<1>5. ASSUME NEW p \in Runners, Brw!Submit(p) PROVE BrowserTypeOK'
  BY <1>1, <1>5, SubmitMoves, MoveKeepsTypes
<1>6. ASSUME NEW p \in Runners, Brw!StepTimesOut(p) PROVE BrowserTypeOK'
  BY <1>3, <1>6, TimesOutMoves
<1>7. ASSUME NEW p \in Runners,
             \/ Brw!LookForState(p) \/ Brw!NewContext(p) \/ Brw!Goto(p) \/ Brw!Act(p) \/ Brw!Rejected(p)
      PROVE  BrowserTypeOK'
  BY <1>2, <1>7, LookMoves, NewContextMoves, GotoMoves, ActMoves, RejectedMoves
<1>8. ASSUME NEW p \in Runners,
             \/ Brw!Read(p) \/ Brw!Advance(p) \/ Brw!Settle(p) \/ Brw!NothingFollows(p)
             \/ Brw!Render(p) \/ Brw!ReplyArrives(p) \/ Brw!Quiet(p) \/ Brw!BrowserDies(p)
      PROVE  BrowserTypeOK'
  BY <1>2, <1>8, QuietMoves, ReadMoves, AdvanceMoves, SettleMoves, NothingMoves, RenderMoves, ReplyMoves, DiesMoves
<1>9. CASE Brw!SessionDies
  BY <1>9 DEF Brw!SessionDies, BrowserTypeOK
<1>10. CASE UNCHANGED browser
  BY <1>10 DEF browser, BrowserTypeOK
<1> QED BY <1>4, <1>5, <1>6, <1>7, <1>8, <1>9, <1>10 DEF Brw!Next, Brw!Step

-----------------------------------------------------------------------------
(* Sessions. *)

\* Steps that a login screen lets nobody take.
Needs == {"find", "request", "download", "frame"}

\* A login row submits its form, and would notice that it is still turned away.
Unlocks(w) ==
  \E i \in DOMAIN w.steps :
    /\ w.steps[i] = "submit"
    /\ w.marker \/ \E j \in DOMAIN w.steps : i < j /\ w.steps[j] \in Needs

LoginsUnlock ==
  \A w \in AllRows :
    /\ w.type = "session" => Unlocks(w)
    /\ w.login => w.key = LoginRow.key

\* The session of a login run is nobody else's until it is saved.
Private(p) ==
  /\ run[p].jar # 0
  /\ \A k \in Keys : saved[k] # run[p].jar
  /\ \A q \in Runners : run[p].jar \notin run[q].dead /\ (q # p => run[q].jar # run[p].jar)

Submitted(r) == \E k \in 1..(r.step - 1) : r.row.steps[k] = "submit"
Confirmed(r) ==
  \E k, j \in 1..(r.step - 1) : /\ k < j /\ r.row.steps[k] = "submit"
                                /\ r.row.steps[j] \in Needs

UnlockInv(p) ==
  LET r == run[p] IN
  (r.row.type = "session" /\ r.pc \notin Brw!Ended) =>
    /\ r.read = 0 /\ r.pc \notin Paging
    /\ r.coming # 0 => r.pc = "act" /\ ~r.login
    /\ r.pc = "act" /\ Submitted(r) /\ ~r.login => Private(p)
    /\ r.pc = "act" /\ Confirmed(r) => Private(p)

\* No session a runner has been turned away with comes back to it.
SessionOf(p) ==
  LET r == run[p] IN
  /\ r.jar <= issued /\ \A d \in r.dead : d # 0 /\ d <= issued
  /\ r.jar \notin r.dead
  /\ r.pc \notin Brw!Ended => saved[r.row.key] \notin r.dead
  /\ UnlockInv(p)

SessionInv ==
  /\ \A k \in Keys : saved[k] <= issued
  /\ \A p \in Runners : SessionOf(p)

LEMMA SavedType ==
  ASSUME BrowserTypeOK, NEW k \in Keys
  PROVE  saved[k] \in {-1} \cup Nat /\ saved[k] \in Int
<1>1. saved[k] \in {-1} \cup Nat
  BY DEF BrowserTypeOK
<1> QED BY <1>1

\* What a step of one runner is to the others: no session that is private to
\* one of them, and none that it has been turned away with, is handed round.
LEMMA SessionOthers ==
  ASSUME BrowserTypeOK, SessionInv, NEW p \in Runners, NEW x, Moves(p, x),
         issued' \in {issued, issued + 1},
         \/ x.jar \in {0, run[p].jar}
         \/ \E k \in Keys : x.jar = saved[k]
         \/ x.jar = issued + 1 /\ issued' = issued + 1,
         x.dead \subseteq (run[p].dead \cup {run[p].jar}) \ {0},
         \A k \in Keys : saved'[k] \in {saved[k], -1} \/ (saved'[k] = run[p].jar /\ Private(p))
  PROVE  /\ \A k \in Keys : saved'[k] <= issued'
         /\ x.jar <= issued' /\ \A d \in x.dead : d # 0 /\ d <= issued'
         /\ \A q \in Runners \ {p} : SessionOf(q)'
<1> DEFINE r == run[p]
<1>1. r \in RunState /\ x \in RunState /\ issued \in Nat /\ issued' \in Nat /\ issued <= issued'
  BY RunOf DEF Moves, BrowserTypeOK
<1>2. r.jar \in Nat /\ r.jar <= issued /\ x.jar \in Nat /\ r.dead \subseteq Nat
  BY <1>1, RunFacts DEF SessionInv, SessionOf
<1>3. \A k \in Keys : saved[k] \in Int /\ saved[k] <= issued
  BY SavedType DEF SessionInv
<1>4. ASSUME NEW k \in Keys PROVE saved'[k] <= issued'
  <2>1. saved'[k] \in {saved[k], -1, r.jar}
    OBVIOUS
  <2>2. saved[k] \in Int /\ saved[k] <= issued
    BY <1>3
  <2> HIDE DEF r
  <2> QED BY <1>1, <1>2, <2>1, <2>2
<1>5. x.jar <= issued'
  <2>1. CASE x.jar \in {0, r.jar}
    BY <1>1, <1>2, <2>1
  <2>2. CASE \E k \in Keys : x.jar = saved[k]
    BY <1>1, <1>2, <1>3, <2>2
  <2>3. CASE x.jar = issued + 1 /\ issued' = issued + 1
    BY <1>1, <2>3
  <2> QED BY <2>1, <2>2, <2>3
<1>6. \A d \in r.dead : d # 0 /\ d <= issued
  BY DEF SessionInv, SessionOf
<1>7. ASSUME NEW d \in x.dead PROVE d # 0 /\ d <= issued'
  <2>1. d # 0 /\ (d \in r.dead \/ d = r.jar)
    BY <1>7
  <2>2. d \in Nat /\ d <= issued
    BY <1>2, <1>6, <2>1
  <2> QED BY <1>1, <2>1, <2>2
<1>8. ASSUME NEW q \in Runners \ {p} PROVE SessionOf(q)'
  <2>1. run'[q] = run[q] /\ run'[p] = x
    BY Updated DEF Moves
  <2>2. SessionOf(q) /\ run[q] \in RunState
    BY RunOf DEF SessionInv
  <2> DEFINE s == run[q]
  <2>3. s.jar \in Nat /\ s.dead \subseteq Nat /\ s.row.key \in Keys
    BY <2>2, RunFacts, RowFacts
  <2>4. s.jar <= issued /\ \A d \in s.dead : d # 0 /\ d <= issued
    BY <2>2 DEF SessionOf
  <2>5. s.jar <= issued' /\ \A d \in s.dead : d # 0 /\ d <= issued'
    BY <1>1, <2>3, <2>4
  <2>6. s.pc \notin Brw!Ended => saved'[s.row.key] \notin s.dead
    <3>1. SUFFICES ASSUME s.pc \notin Brw!Ended PROVE saved'[s.row.key] \notin s.dead
      OBVIOUS
    <3>2. saved[s.row.key] \notin s.dead
      BY <2>2, <3>1 DEF SessionOf
    <3>3. -1 \notin s.dead
      BY <2>3
    <3>4. CASE saved'[s.row.key] \in {saved[s.row.key], -1}
      BY <3>2, <3>3, <3>4
    <3>5. CASE saved'[s.row.key] = r.jar /\ Private(p)
      BY <3>5 DEF Private
    <3> QED BY <2>3, <3>4, <3>5
  <2>7. Private(q) => Private(q)'
    <3>1. SUFFICES ASSUME Private(q) PROVE Private(q)'
      OBVIOUS
    <3>2. /\ s.jar # 0 /\ s.jar # r.jar /\ s.jar \notin r.dead
          /\ \A k \in Keys : saved[k] # s.jar
      BY <3>1 DEF Private
    <3>3. \A k \in Keys : saved'[k] # s.jar
      BY <2>3, <3>2
    <3>4. x.jar # s.jar
      <4>1. s.jar # issued + 1
        BY <1>1, <2>3, <2>4
      <4> QED BY <3>2, <4>1
    <3>5. s.jar \notin x.dead
      BY <3>2
    <3>6. \A z \in Runners : z # p => run'[z] = run[z]
      BY Updated DEF Moves
    <3>7. ASSUME NEW z \in Runners PROVE s.jar \notin run'[z].dead /\ (z # q => run'[z].jar # s.jar)
      <4>1. CASE z = p
        BY <2>1, <3>4, <3>5, <4>1
      <4>2. CASE z # p
        BY <3>1, <3>6, <4>2 DEF Private
      <4> QED BY <4>1, <4>2
    <3> QED BY <2>1, <3>2, <3>3, <3>7 DEF Private
  <2>8. UnlockInv(q)'
    BY <2>1, <2>2, <2>7 DEF UnlockInv, SessionOf, Submitted, Confirmed
  <2>9. s.jar \notin s.dead
    BY <2>2 DEF SessionOf
  <2> QED BY <2>1, <2>5, <2>6, <2>8, <2>9 DEF SessionOf
<1> QED BY <1>4, <1>5, <1>7, <1>8

LEMMA SessionStep ==
  ASSUME BrowserTypeOK, SessionInv, NEW p \in Runners, NEW x, Moves(p, x),
         issued' \in {issued, issued + 1},
         \/ x.jar \in {0, run[p].jar}
         \/ \E k \in Keys : x.jar = saved[k]
         \/ x.jar = issued + 1 /\ issued' = issued + 1,
         x.dead \subseteq (run[p].dead \cup {run[p].jar}) \ {0},
         \A k \in Keys : saved'[k] \in {saved[k], -1} \/ (saved'[k] = run[p].jar /\ Private(p)),
         x.jar \notin x.dead,
         x.pc \notin Brw!Ended => saved'[x.row.key] \notin x.dead,
         UnlockInv(p)'
  PROVE  SessionInv'
<1>1. /\ \A k \in Keys : saved'[k] <= issued'
      /\ x.jar <= issued' /\ \A d \in x.dead : d # 0 /\ d <= issued'
      /\ \A q \in Runners \ {p} : SessionOf(q)'
  BY SessionOthers
<1>2. run'[p] = x
  BY Updated DEF Moves
<1>3. SessionOf(p)'
  BY <1>1, <1>2 DEF SessionOf
<1> QED BY <1>1, <1>3 DEF SessionInv

LEMMA PrivateKept ==
  ASSUME BrowserTypeOK, NEW p \in Runners, NEW x, Moves(p, x), UNCHANGED saved,
         x.jar = run[p].jar, x.dead = run[p].dead, Private(p)
  PROVE  Private(p)'
<1>1. run'[p] = x /\ \A q \in Runners : q # p => run'[q] = run[q]
  BY Updated DEF Moves
<1>2. ASSUME NEW q \in Runners
      PROVE  run'[p].jar \notin run'[q].dead /\ (q # p => run'[q].jar # run'[p].jar)
  BY <1>1 DEF Private
<1>3. run'[p].jar # 0 /\ \A k \in Keys : saved'[k] # run'[p].jar
  BY <1>1 DEF Private
<1> QED BY <1>2, <1>3 DEF Private

\* A step that leaves the session alone.
LEMMA SessionQuiet ==
  ASSUME BrowserTypeOK, SessionInv, NEW p \in Runners, NEW x, Moves(p, x), Site, UNCHANGED saved,
         x.jar = run[p].jar, x.dead = run[p].dead, x.row = run[p].row,
         run[p].pc \notin Brw!Ended \/ x.pc \in Brw!Ended, UnlockInv(p)'
  PROVE  SessionInv'
<1>1. SessionOf(p) /\ issued' = issued
  BY DEF SessionInv, Site
<1>2. x.dead \subseteq (run[p].dead \cup {run[p].jar}) \ {0}
  BY <1>1 DEF SessionOf
<1>3. x.jar \notin x.dead /\ (x.pc \notin Brw!Ended => saved'[x.row.key] \notin x.dead)
  BY <1>1 DEF SessionOf
<1>4. \A k \in Keys : saved'[k] = saved[k]
  OBVIOUS
<1> QED BY <1>1, <1>2, <1>3, <1>4, SessionStep

\* The row of a run that goes on reading, or has ended, is no login row.
LEMMA Unlocked ==
  ASSUME BrowserTypeOK, NEW p \in Runners, NEW x, Moves(p, x),
         x.row.type # "session" \/ x.pc \in Brw!Ended
  PROVE  UnlockInv(p)'
<1>1. run'[p] = x
  BY Updated DEF Moves
<1> QED BY <1>1 DEF UnlockInv

LEMMA SessionTurned ==
  ASSUME LoginsUnlock, BrowserTypeOK, SessionInv, NEW p \in Runners, Turned(p), Site
  PROVE  SessionInv'
<1> DEFINE r == run[p]
<1>1. r \in RunState /\ Placed(r) /\ SessionOf(p) /\ issued' = issued
  BY RunOf DEF SessionInv, Site
<1>2. ASSUME NEW e \in {"failed", "expired"}, Moves(p, [r EXCEPT !.pc = e]), UNCHANGED saved
      PROVE  SessionInv'
  <2> DEFINE x == [r EXCEPT !.pc = e]
  <2>1. x.jar = r.jar /\ x.dead = r.dead /\ x.row = r.row /\ x.pc = e
    BY <1>1 DEF RunState
  <2>2. x.pc \in Brw!Ended
    BY <2>1 DEF Brw!Ended
  <2>3. UnlockInv(p)'
    BY <1>2, <2>2, Unlocked
  <2> HIDE DEF x
  <2> QED BY <1>2, <2>1, <2>2, <2>3, SessionQuiet DEF x
<1>3. CASE /\ r.row.login /\ Moves(p, Brw!LoginRun(r))
           /\ saved' = [saved EXCEPT ![r.job.key] = -1]
  <2> DEFINE x == Brw!LoginRun(r)
  <2>1. /\ x.jar = 0 /\ x.dead = {r.jar} \ {0} /\ x.row = LoginRow /\ x.pc = "look"
        /\ x.read = 0 /\ x.coming = 0
    BY DEF Brw!LoginRun, Brw!Start
  <2> HIDE DEF x
  <2>2. r.job \in AllRows /\ r.job.login /\ LoginRow \in AllRows
    BY <1>1, <1>3, RunFacts DEF Placed, AllRows
  <2>3. r.job.key = LoginRow.key /\ LoginRow.key \in Keys
    BY <2>2, RowFacts DEF LoginsUnlock
  <2>4. DOMAIN saved = Keys
    BY DEF BrowserTypeOK
  <2>5. saved'[x.row.key] = -1 /\ \A k \in Keys : saved'[k] \in {saved[k], -1}
    BY <1>3, <2>1, <2>3, <2>4
  <2>6. r.jar \in Nat /\ -1 \notin x.dead /\ x.jar \notin x.dead
    <3>1. r.jar \in Nat
      BY <1>1, RunFacts
    <3> QED BY <2>1, <3>1
  <2>7. UnlockInv(p)'
    <3>1. run'[p] = x
      BY <1>3, Updated DEF Moves, x
    <3> QED BY <2>1, <3>1 DEF UnlockInv, Paging
  <2>8. Moves(p, x) /\ x.dead \subseteq (r.dead \cup {r.jar}) \ {0} /\ x.jar \in {0, r.jar}
    BY <1>3, <2>1 DEF x
  <2>9. saved'[x.row.key] \notin x.dead
    BY <2>5, <2>6
  <2> HIDE DEF r
  <2> QED BY <1>1, <2>5, <2>6, <2>7, <2>8, <2>9, SessionStep DEF r
<1> QED BY <1>1, <1>2, <1>3 DEF Turned

LEMMA SessionSetup ==
  ASSUME BrowserTypeOK, SessionInv, NEW p \in Runners,
         Brw!LookForState(p) \/ Brw!NewContext(p) \/ Brw!Goto(p)
  PROVE  SessionInv'
<1> DEFINE r == run[p]
<1>1. r \in RunState /\ SessionOf(p)
  BY RunOf DEF SessionInv
<1>2. CASE Brw!LookForState(p)
  <2>1. PICK e \in {"fresh", "load"} : Moves(p, [r EXCEPT !.pc = e])
    BY <1>2, LookMoves
  <2> DEFINE x == [r EXCEPT !.pc = e]
  <2>2. r.pc = "look" /\ Site /\ UNCHANGED saved
    BY <1>2, LookMoves
  <2>3. /\ x.jar = r.jar /\ x.dead = r.dead /\ x.row = r.row /\ x.pc = e
        /\ x.read = r.read /\ x.coming = r.coming
    BY <1>1 DEF RunState
  <2>4. run'[p] = x
    BY <2>1, Updated DEF Moves
  <2> HIDE DEF x
  <2>5. UnlockInv(p)'
    BY <1>1, <2>2, <2>3, <2>4 DEF UnlockInv, SessionOf, Brw!Ended, Paging
  <2>6. r.pc \notin Brw!Ended
    BY <2>2 DEF Brw!Ended
  <2> QED BY <2>1, <2>2, <2>3, <2>5, <2>6, SessionQuiet DEF x
<1>3. CASE Brw!NewContext(p)
  <2>1. r.pc \in {"fresh", "load"} /\ Site /\ UNCHANGED saved
    BY <1>3, NewContextMoves
  <2>2. CASE Moves(p, [r EXCEPT !.pc = "failed"])
    <3> DEFINE x == [r EXCEPT !.pc = "failed"]
    <3>1. x.jar = r.jar /\ x.dead = r.dead /\ x.row = r.row /\ x.pc = "failed"
      BY <1>1 DEF RunState
    <3>2. x.pc \in Brw!Ended
      BY <3>1 DEF Brw!Ended
    <3>3. UnlockInv(p)'
      BY <2>2, <3>2, Unlocked
    <3> HIDE DEF x
    <3> QED BY <2>1, <2>2, <3>1, <3>2, <3>3, SessionQuiet DEF x
  <2>3. CASE \E j \in {0, saved[r.row.key]} : Moves(p, [r EXCEPT !.pc = "goto", !.jar = j])
    <3>1. PICK j \in {0, saved[r.row.key]} : Moves(p, [r EXCEPT !.pc = "goto", !.jar = j])
      BY <2>3
    <3> DEFINE x == [r EXCEPT !.pc = "goto", !.jar = j]
    <3>2. /\ x.jar = j /\ x.dead = r.dead /\ x.row = r.row /\ x.pc = "goto"
          /\ x.read = r.read /\ x.coming = r.coming
      BY <1>1 DEF RunState
    <3>3. run'[p] = x
      BY <3>1, Updated DEF Moves
    <3> HIDE DEF x
    <3>4. UnlockInv(p)'
      BY <1>1, <2>1, <3>2, <3>3 DEF UnlockInv, SessionOf, Brw!Ended, Paging
    <3>5. r.pc \notin Brw!Ended /\ r.row.key \in Keys
      BY <1>1, <2>1, RunFacts, RowFacts DEF Brw!Ended
    <3>6. saved[r.row.key] \notin r.dead /\ 0 \notin r.dead
      BY <1>1, <3>5 DEF SessionOf
    <3>7. x.jar \notin x.dead /\ saved'[x.row.key] \notin x.dead
      BY <2>1, <3>2, <3>6
    <3>8. x.dead \subseteq (r.dead \cup {r.jar}) \ {0}
      BY <3>2, <3>6
    <3>9. (\A k \in Keys : saved'[k] = saved[k]) /\ issued' = issued
      BY <2>1 DEF Site
    <3>10. x.jar = 0 \/ \E k \in Keys : x.jar = saved[k]
      BY <3>2, <3>5
    <3>11. Moves(p, x)
      BY <3>1 DEF x
    <3> HIDE DEF r
    <3> QED BY <3>4, <3>7, <3>8, <3>9, <3>10, <3>11, SessionStep DEF r
  <2> QED BY <1>3, <2>2, <2>3, NewContextMoves
<1>4. CASE Brw!Goto(p)
  <2> DEFINE x == Loaded(r)
  <2>1. r.pc = "goto" /\ Site /\ UNCHANGED saved /\ Moves(p, x)
    BY <1>4, GotoMoves
  <2>2. /\ x.jar = r.jar /\ x.dead = r.dead /\ x.row = r.row /\ x.pc = "act"
        /\ x.read = r.read /\ x.coming = 0 /\ x.step = 1
    BY <1>1 DEF RunState, Loaded
  <2>3. run'[p] = x
    BY <2>1, Updated DEF Moves
  <2> HIDE DEF x
  <2>4. ~Submitted(x) /\ ~Confirmed(x)
    BY <2>2 DEF Submitted, Confirmed
  <2>5. UnlockInv(p)'
    BY <1>1, <2>1, <2>2, <2>3, <2>4 DEF UnlockInv, SessionOf, Brw!Ended, Paging
  <2>6. r.pc \notin Brw!Ended
    BY <2>1 DEF Brw!Ended
  <2> QED BY <2>1, <2>2, <2>5, <2>6, SessionQuiet
<1> QED BY <1>2, <1>3, <1>4

\* A step that passes leaves the login screen where it is.
LEMMA SteppedFields ==
  ASSUME NEW r \in RunState, r.pc = "act"
  PROVE  LET s == r.row.steps[r.step]  x == Stepped(r) IN
         /\ x.row = r.row /\ x.job = r.job /\ x.pc = "act" /\ x.step = r.step + 1
         /\ x.login = r.login /\ x.shown = r.shown /\ x.jar = r.jar /\ x.dead = r.dead
         /\ x.at = r.at /\ x.from = r.from /\ x.read = r.read /\ x.got = r.got
         /\ x.previous = r.previous /\ x.captured = r.captured /\ x.excuse = r.excuse
         /\ x.idle = r.idle
         /\ x.coming = IF s = "script" /\ r.row.type # "xhr"
                       THEN (IF r.login THEN 0 ELSE r.at) ELSE r.coming
         /\ x.sent = IF Brw!Fetches(r, s) THEN r.sent + 1 ELSE r.sent
         /\ x.flying = IF Brw!Fetches(r, s) THEN r.flying \cup {r.sent + 1} ELSE r.flying
<1> DEFINE s == r.row.steps[r.step]
           a == Brw!Acted(r, s)
           x == [a EXCEPT !.step = @ + 1]
<1>1. CASE s = "script" /\ r.row.type # "xhr"
  <2> DEFINE c == IF r.login THEN 0 ELSE r.at
  <2>1. ~Brw!Fetches(r, s)
    BY <1>1 DEF Brw!Fetches
  <2>2. Stepped(r) = [r EXCEPT !.coming = c, !.step = @ + 1]
    <3>1. a = [r EXCEPT !.coming = c]
      BY <1>1, <2>1 DEF Brw!Acted
    <3> HIDE DEF c
    <3> QED BY <3>1 DEF RunState, Stepped
  <2> HIDE DEF c
  <2>3. LET z == Stepped(r) IN
        /\ z.row = r.row /\ z.job = r.job /\ z.pc = "act" /\ z.step = r.step + 1
        /\ z.login = r.login /\ z.shown = r.shown /\ z.jar = r.jar /\ z.dead = r.dead
        /\ z.at = r.at /\ z.from = r.from /\ z.read = r.read /\ z.got = r.got
        /\ z.previous = r.previous /\ z.captured = r.captured /\ z.excuse = r.excuse
        /\ z.coming = c /\ z.sent = r.sent /\ z.flying = r.flying /\ z.idle = r.idle
    BY <2>2 DEF RunState
  <2> QED BY <1>1, <2>1, <2>3 DEF c
<1>2. CASE Brw!Fetches(r, s)
  <2>1. ~(s = "script" /\ r.row.type # "xhr") /\ s # "download"
    BY <1>2 DEF Brw!Fetches
  <2>2. a = [r EXCEPT !.sent = @ + 1, !.flying = @ \cup {r.sent + 1}]
    BY <1>2, <2>1 DEF Brw!Acted
  <2> DEFINE n == r.sent + 1
             f == r.flying \cup {r.sent + 1}
  <2>3. Stepped(r) = [r EXCEPT !.sent = n, !.flying = f, !.step = @ + 1]
    <3>1. a = [r EXCEPT !.sent = n, !.flying = f]
      BY <2>2
    <3> HIDE DEF n, f
    <3> QED BY <3>1 DEF RunState, Stepped
  <2> HIDE DEF n, f
  <2>4. LET z == Stepped(r) IN
        /\ z.row = r.row /\ z.job = r.job /\ z.pc = "act" /\ z.step = r.step + 1
        /\ z.login = r.login /\ z.shown = r.shown /\ z.jar = r.jar /\ z.dead = r.dead
        /\ z.at = r.at /\ z.from = r.from /\ z.read = r.read /\ z.got = r.got
        /\ z.previous = r.previous /\ z.captured = r.captured /\ z.excuse = r.excuse
        /\ z.coming = r.coming /\ z.sent = n /\ z.flying = f /\ z.idle = r.idle
    BY <2>3 DEF RunState
  <2> QED BY <1>2, <2>1, <2>4 DEF n, f
<1>3. CASE s = "download"
  <2>1. ~Brw!Fetches(r, s) /\ a = [r EXCEPT !.files = @ + 1]
    BY <1>3 DEF Brw!Acted, Brw!Fetches
  <2> QED BY <1>3, <2>1 DEF RunState, Stepped
<1>4. CASE ~Brw!Fetches(r, s) /\ ~(s = "script" /\ r.row.type # "xhr") /\ s # "download"
  <2>1. a = r
    BY <1>4 DEF Brw!Acted
  <2> QED BY <1>4, <2>1 DEF RunState, Stepped
<1> QED BY <1>1, <1>2, <1>3, <1>4

LEMMA SessionFail ==
  ASSUME BrowserTypeOK, SessionInv, NEW p \in Runners, Site, UNCHANGED saved,
         Moves(p, [run[p] EXCEPT !.pc = "failed"])
  PROVE  SessionInv'
<1> DEFINE r == run[p]
           x == [r EXCEPT !.pc = "failed"]
<1>1. r \in RunState
  BY RunOf
<1>2. x.jar = r.jar /\ x.dead = r.dead /\ x.row = r.row /\ x.pc = "failed"
  BY <1>1 DEF RunState
<1>3. x.pc \in Brw!Ended
  BY <1>2 DEF Brw!Ended
<1>4. UnlockInv(p)'
  BY <1>3, Unlocked
<1> HIDE DEF x
<1> QED BY <1>2, <1>3, <1>4, SessionQuiet DEF x

LEMMA SessionAct ==
  ASSUME BrowserTypeOK, SessionInv, NEW p \in Runners, Brw!Act(p)
  PROVE  SessionInv'
<1> DEFINE r == run[p]
           s == r.row.steps[r.step]
<1>1. r \in RunState /\ SessionOf(p) /\ r.step \in Nat \ {0}
  BY RunOf, RunFacts DEF SessionInv
<1>2. r.pc = "act" /\ Site /\ UNCHANGED saved /\ Brw!Met(r, s) /\ s # "submit"
  BY ActMoves
<1>3. CASE Moves(p, [r EXCEPT !.pc = "failed"])
  BY <1>2, <1>3, SessionFail
<1>4. CASE Moves(p, Stepped(r)) /\ (s = "frame" => ~r.login)
  <2> DEFINE x == Stepped(r)
  <2>1. /\ x.jar = r.jar /\ x.dead = r.dead /\ x.row = r.row /\ x.pc = "act" /\ x.read = r.read
        /\ x.step = r.step + 1 /\ x.login = r.login
        /\ x.coming = IF s = "script" /\ r.row.type # "xhr"
                      THEN (IF r.login THEN 0 ELSE r.at) ELSE r.coming
    BY <1>1, <1>2, SteppedFields
  <2>2. run'[p] = x
    BY <1>4, Updated DEF Moves
  <2>3. Private(p) => Private(p)'
    BY <1>2, <1>4, <2>1, PrivateKept
  <2>4. s \in Needs => ~r.login
    BY <1>2, <1>4 DEF Brw!Met, Needs
  <2> HIDE DEF x
  <2>5. Submitted(x) => Submitted(r)
    BY <1>1, <1>2, <2>1 DEF Submitted
  <2>6. Confirmed(x) => Confirmed(r) \/ (Submitted(r) /\ ~r.login)
    <3>1. SUFFICES ASSUME Confirmed(x) PROVE Confirmed(r) \/ (Submitted(r) /\ ~r.login)
      OBVIOUS
    <3>2. PICK k, j \in 1..(x.step - 1) :
            k < j /\ r.row.steps[k] = "submit" /\ r.row.steps[j] \in Needs
      BY <2>1, <3>1 DEF Confirmed
    <3>3. k \in Int /\ j \in Int /\ k >= 1 /\ k < j /\ j <= r.step
      BY <1>1, <2>1, <3>2
    <3>4. CASE j = r.step
      <4>1. k \in 1..(r.step - 1)
        BY <1>1, <3>3, <3>4
      <4> QED BY <2>4, <3>2, <3>4, <4>1 DEF Submitted
    <3>5. CASE j # r.step
      <4>1. k \in 1..(r.step - 1) /\ j \in 1..(r.step - 1)
        BY <1>1, <3>3, <3>5
      <4> QED BY <3>2, <4>1 DEF Confirmed
    <3> QED BY <3>4, <3>5
  <2>7. UnlockInv(p)'
    <3>1. SUFFICES ASSUME r.row.type = "session" PROVE UnlockInv(p)'
      BY <2>1, <2>2 DEF UnlockInv
    <3>2. /\ r.read = 0 /\ (r.coming # 0 => ~r.login)
          /\ Submitted(r) /\ ~r.login => Private(p)
          /\ Confirmed(r) => Private(p)
      BY <1>1, <1>2, <3>1 DEF SessionOf, UnlockInv, Brw!Ended
    <3>3. x.coming # 0 => ~x.login
      BY <2>1, <3>2
    <3> QED BY <2>1, <2>2, <2>3, <2>5, <2>6, <3>2, <3>3 DEF UnlockInv, Paging
  <2>8. r.pc \notin Brw!Ended
    BY <1>2 DEF Brw!Ended
  <2> QED BY <1>2, <1>4, <2>1, <2>7, <2>8, SessionQuiet DEF x
<1> QED BY <1>3, <1>4, ActMoves

LEMMA SessionForm ==
  ASSUME BrowserTypeOK, SessionInv, NEW p \in Runners, Brw!Submit(p) \/ Brw!Rejected(p)
  PROVE  SessionInv'
<1> DEFINE r == run[p]
<1>1. r \in RunState /\ SessionOf(p) /\ r.step \in Nat \ {0} /\ issued \in Nat
  BY RunOf, RunFacts DEF SessionInv, BrowserTypeOK
<1>2. CASE Brw!Rejected(p)
  <2> DEFINE x == [r EXCEPT !.step = @ + 1]
  <2>1. /\ r.pc = "act" /\ r.row.steps[r.step] = "submit" /\ r.login /\ Site /\ UNCHANGED saved
        /\ Moves(p, x)
    BY <1>2, RejectedMoves
  <2>2. /\ x.jar = r.jar /\ x.dead = r.dead /\ x.row = r.row /\ x.pc = "act" /\ x.read = r.read
        /\ x.step = r.step + 1 /\ x.login = r.login /\ x.coming = r.coming
    BY <1>1, <2>1 DEF RunState
  <2> HIDE DEF x
  <2>3. run'[p] = x
    BY <2>1, Updated DEF Moves
  <2>4. Private(p) => Private(p)'
    BY <2>1, <2>2, PrivateKept
  <2>5. Confirmed(x) => Confirmed(r)
    <3>1. SUFFICES ASSUME Confirmed(x) PROVE Confirmed(r)
      OBVIOUS
    <3>2. PICK k, j \in 1..(x.step - 1) :
            k < j /\ r.row.steps[k] = "submit" /\ r.row.steps[j] \in Needs
      BY <2>2, <3>1 DEF Confirmed
    <3>3. j # r.step
      BY <2>1, <3>2 DEF Needs
    <3>4. k \in 1..(r.step - 1) /\ j \in 1..(r.step - 1)
      BY <1>1, <2>2, <3>2, <3>3
    <3> QED BY <3>2, <3>4 DEF Confirmed
  <2>6. UnlockInv(p)'
    BY <1>1, <2>1, <2>2, <2>3, <2>4, <2>5 DEF SessionOf, UnlockInv, Brw!Ended, Paging
  <2>7. r.pc \notin Brw!Ended
    BY <2>1 DEF Brw!Ended
  <2> QED BY <2>1, <2>2, <2>6, <2>7, SessionQuiet
<1>3. CASE Brw!Submit(p)
  <2> DEFINE n == issued + 1
             x == [r EXCEPT !.jar = n, !.login = FALSE, !.idle = FALSE, !.step = @ + 1]
  <2>1. /\ r.pc = "act" /\ r.login /\ issued' = n /\ UNCHANGED saved /\ Moves(p, x)
    BY <1>3, SubmitMoves
  <2>2. /\ x.jar = n /\ x.dead = r.dead /\ x.row = r.row /\ x.pc = "act" /\ x.read = r.read
        /\ x.coming = r.coming
    BY <1>1, <2>1 DEF RunState
  <2> HIDE DEF x
  <2>3. run'[p] = x /\ \A q \in Runners : q # p => run'[q] = run[q]
    BY <2>1, Updated DEF Moves
  <2>4. \A d \in r.dead : d # 0 /\ d <= issued /\ d \in Nat
    BY <1>1, RunFacts DEF SessionOf
  <2>5. n \notin r.dead /\ n # 0
    BY <1>1, <2>4
  <2>6. Private(p)'
    <3>1. ASSUME NEW k \in Keys PROVE saved[k] # n
      <4>1. saved[k] \in Int /\ saved[k] <= issued
        BY SavedType DEF SessionInv
      <4> QED BY <1>1, <4>1
    <3>2. ASSUME NEW q \in Runners \ {p} PROVE n \notin run[q].dead /\ run[q].jar # n
      <4>1. run[q] \in RunState /\ SessionOf(q)
        BY RunOf DEF SessionInv
      <4>2. run[q].jar \in Nat /\ run[q].jar <= issued
        BY <4>1, RunFacts DEF SessionOf
      <4>3. \A d \in run[q].dead : d \in Nat /\ d <= issued
        BY <4>1, RunFacts DEF SessionOf
      <4> QED BY <1>1, <4>2, <4>3
    <3> HIDE DEF n
    <3>3. ASSUME NEW q \in Runners PROVE n \notin run'[q].dead /\ (q # p => run'[q].jar # n)
      <4>1. CASE q = p
        BY <2>2, <2>3, <2>5, <4>1
      <4>2. CASE q # p
        BY <2>3, <3>2, <4>2
      <4> QED BY <4>1, <4>2
    <3> QED BY <2>1, <2>2, <2>3, <2>5, <3>1, <3>3 DEF Private
  <2>7. UnlockInv(p)'
    BY <1>1, <2>1, <2>2, <2>3, <2>6 DEF SessionOf, UnlockInv, Brw!Ended, Paging
  <2>8. r.pc \notin Brw!Ended
    BY <2>1 DEF Brw!Ended
  <2>9. saved'[x.row.key] \notin x.dead
    BY <1>1, <2>1, <2>2, <2>8 DEF SessionOf
  <2>10. x.dead \subseteq (r.dead \cup {r.jar}) \ {0}
    BY <2>2, <2>4
  <2>11. \A k \in Keys : saved'[k] = saved[k]
    BY <2>1
  <2> HIDE DEF r
  <2> QED BY <2>1, <2>2, <2>5, <2>7, <2>9, <2>10, <2>11, SessionStep DEF r, n
<1> QED BY <1>2, <1>3

LEMMA SessionScreen ==
  ASSUME BrowserTypeOK, SessionInv, NEW p \in Runners,
         Brw!Render(p) \/ Brw!ReplyArrives(p) \/ Brw!Quiet(p)
  PROVE  SessionInv'
<1> DEFINE r == run[p]
<1>1. r \in RunState /\ SessionOf(p)
  BY RunOf DEF SessionInv
<1>2. CASE Brw!Render(p)
  <2> DEFINE x == Rendered(r)
  <2>1. r.pc \notin Brw!Ended /\ r.coming # 0 /\ Site /\ UNCHANGED saved /\ Moves(p, x)
    BY <1>2, RenderMoves
  <2>2. /\ x.jar = r.jar /\ x.dead = r.dead /\ x.row = r.row /\ x.pc = r.pc /\ x.read = r.read
        /\ x.step = r.step /\ x.coming = 0
    BY <1>1 DEF RunState, Rendered
  <2> HIDE DEF x
  <2>3. run'[p] = x
    BY <2>1, Updated DEF Moves
  <2>4. Private(p) => Private(p)'
    BY <2>1, <2>2, PrivateKept
  <2>5. (Submitted(x) <=> Submitted(r)) /\ (Confirmed(x) <=> Confirmed(r))
    BY <2>2 DEF Submitted, Confirmed
  <2>6. UnlockInv(p)'
    <3>1. SUFFICES ASSUME r.row.type = "session" PROVE UnlockInv(p)'
      BY <2>2, <2>3 DEF UnlockInv
    <3>2. r.read = 0 /\ r.pc = "act" /\ ~r.login /\ (Submitted(r) \/ Confirmed(r) => Private(p))
      BY <1>1, <2>1, <3>1 DEF SessionOf, UnlockInv
    <3> QED BY <2>2, <2>3, <2>4, <2>5, <3>2 DEF UnlockInv, Paging
  <2> QED BY <2>1, <2>2, <2>6, SessionQuiet
<1>3. CASE Brw!ReplyArrives(p)
  <2>1. PICK n : Moves(p, Replied(r, n))
    BY <1>3, ReplyMoves
  <2> DEFINE x == Replied(r, n)
  <2>2. r.pc \notin Brw!Ended /\ Site /\ UNCHANGED saved
    BY <1>3, ReplyMoves
  <2>3. /\ x.jar = r.jar /\ x.dead = r.dead /\ x.row = r.row /\ x.pc = r.pc /\ x.read = r.read
        /\ x.step = r.step /\ x.coming = r.coming /\ x.login = r.login
    BY <1>1 DEF RunState, Replied
  <2> HIDE DEF x
  <2>4. run'[p] = x
    BY <2>1, Updated DEF Moves, x
  <2>5. Private(p) => Private(p)'
    BY <2>1, <2>2, <2>3, PrivateKept DEF x
  <2>6. (Submitted(x) <=> Submitted(r)) /\ (Confirmed(x) <=> Confirmed(r))
    BY <2>3 DEF Submitted, Confirmed
  <2>7. UnlockInv(p)'
    BY <1>1, <2>2, <2>3, <2>4, <2>5, <2>6 DEF SessionOf, UnlockInv
  <2> QED BY <2>1, <2>2, <2>3, <2>7, SessionQuiet DEF x
<1>4. CASE Brw!Quiet(p)
  <2> DEFINE x == [r EXCEPT !.idle = TRUE]
  <2>1. Moves(p, x)
    BY <1>4, QuietMoves
  <2>2. r.pc \notin Brw!Ended /\ Site /\ UNCHANGED saved
    BY <1>4, QuietMoves DEF Brw!Ended, Paging
  <2>3. /\ x.jar = r.jar /\ x.dead = r.dead /\ x.row = r.row /\ x.pc = r.pc /\ x.read = r.read
        /\ x.step = r.step /\ x.coming = r.coming /\ x.login = r.login
    BY <1>1 DEF RunState
  <2> HIDE DEF x
  <2>4. run'[p] = x
    BY <2>1, Updated DEF Moves, x
  <2>5. Private(p) => Private(p)'
    BY <2>1, <2>2, <2>3, PrivateKept DEF x
  <2>6. (Submitted(x) <=> Submitted(r)) /\ (Confirmed(x) <=> Confirmed(r))
    BY <2>3 DEF Submitted, Confirmed
  <2>7. UnlockInv(p)'
    BY <1>1, <2>2, <2>3, <2>4, <2>5, <2>6 DEF SessionOf, UnlockInv
  <2> QED BY <2>1, <2>2, <2>3, <2>7, SessionQuiet DEF x
<1> QED BY <1>2, <1>3, <1>4

LEMMA SessionRead ==
  ASSUME BrowserTypeOK, SessionInv, NEW p \in Runners, Site, UNCHANGED saved, NEW x, Moves(p, x),
         run[p].pc \notin Brw!Ended, run[p].row.type = "dom",
         x.row = run[p].row, x.jar = run[p].jar, x.dead = run[p].dead
  PROVE  SessionInv'
BY Unlocked, SessionQuiet

\* A row of data reads, or turns the page.
LEMMA SessionPages ==
  ASSUME BrowserTypeOK, SessionInv, NEW p \in Runners,
         \/ Brw!Read(p) \/ Brw!Advance(p) \/ Brw!Settle(p) \/ Brw!NothingFollows(p)
  PROVE  SessionInv'
<1> DEFINE r == run[p]
           Same(x) == x.row = r.row /\ x.jar = r.jar /\ x.dead = r.dead
<1>1. r \in RunState
  BY RunOf
<1>2. Same(Merged(r)) /\ Same(Stopped(r)) /\ Same(Exhausted(r)) /\ Same(Numbered(r)) /\ Same(Clicked(r))
  BY <1>1 DEF RunState, Merged, Stopped, Exhausted, Numbered, Clicked
<1>3. Merged(r) \in RunState
  BY <1>1, MergedType
<1>4. Same(Handed(r)) /\ Same(Turning(r))
  BY <1>2, <1>3 DEF RunState, Handed, Turning
<1>5. Same(Brw!ReadOn(r))
  BY <1>1 DEF RunState, Brw!ReadOn
<1>6. r.pc \in Paging /\ r.row.type = "dom" /\ Site /\ UNCHANGED saved
  BY ReadMoves, AdvanceMoves, SettleMoves, NothingMoves DEF Paging
<1>7. r.pc \notin Brw!Ended
  BY <1>6 DEF Paging, Brw!Ended
<1>8. \E x : Moves(p, x) /\ Same(x)
  BY <1>2, <1>4, <1>5, ReadMoves, AdvanceMoves, SettleMoves, NothingMoves
<1> QED BY <1>6, <1>7, <1>8, SessionRead

LEMMA SessionDone ==
  ASSUME LoginsUnlock, BrowserTypeOK, SessionInv, NEW p \in Runners, Brw!BehaviourDone(p)
  PROVE  SessionInv'
<1> DEFINE r == run[p]
<1>1. r \in RunState /\ Placed(r) /\ SessionOf(p) /\ r.row \in AllRows /\ r.job \in AllRows
  BY RunOf, RunFacts DEF SessionInv
<1>2. r.pc = "act" /\ r.step > Len(r.row.steps) /\ Site
  BY DoneMoves
<1>3. r.pc \notin Brw!Ended
  BY <1>2 DEF Brw!Ended
<1>4. CASE Turned(p)
  BY <1>2, <1>4, SessionTurned
<1>5. CASE /\ r.row.type = "session" /\ ~(r.read = 0 /\ r.row.marker /\ r.login)
           /\ saved' = [saved EXCEPT ![r.row.key] = r.jar]
           /\ \/ r.job = r.row /\ Moves(p, Returned(r))
              \/ r.job # r.row /\ Moves(p, Brw!Again(r))
  <2>1. Private(p)
    <3>1. PICK i \in DOMAIN r.row.steps :
            /\ r.row.steps[i] = "submit"
            /\ r.row.marker \/ \E j \in DOMAIN r.row.steps : i < j /\ r.row.steps[j] \in Needs
      BY <1>1, <1>5 DEF LoginsUnlock, Unlocks
    <3>2. DOMAIN r.row.steps = 1..Len(r.row.steps) /\ Len(r.row.steps) \in Nat /\ r.step \in Nat
      BY <1>1, RowFacts, RunFacts
    <3>3. \A j \in DOMAIN r.row.steps : j \in 1..(r.step - 1)
      BY <1>2, <3>2
    <3>4. /\ r.read = 0
          /\ Submitted(r) /\ ~r.login => Private(p)
          /\ Confirmed(r) => Private(p)
      BY <1>1, <1>2, <1>3, <1>5 DEF SessionOf, UnlockInv
    <3>5. CASE r.row.marker
      <4>1. ~r.login
        BY <1>5, <3>4, <3>5
      <4>2. Submitted(r)
        BY <3>1, <3>3 DEF Submitted
      <4> QED BY <3>4, <4>1, <4>2
    <3>6. CASE \E j \in DOMAIN r.row.steps : i < j /\ r.row.steps[j] \in Needs
      <4>1. Confirmed(r)
        BY <3>1, <3>3, <3>6 DEF Confirmed
      <4> QED BY <3>4, <4>1
    <3> QED BY <3>1, <3>5, <3>6
  <2>2. r.row.key \in Keys /\ DOMAIN saved = Keys
    BY <1>1, RowFacts DEF BrowserTypeOK
  <2>3. saved'[r.row.key] = r.jar /\ \A k \in Keys : saved'[k] \in {saved[k], r.jar}
    BY <1>5, <2>2
  <2>4. /\ r.jar \notin r.dead /\ 0 \notin r.dead
        /\ r.dead \subseteq (r.dead \cup {r.jar}) \ {0}
    BY <1>1 DEF SessionOf
  <2>5. CASE r.job = r.row /\ Moves(p, Returned(r))
    <3> DEFINE x == Returned(r)
    <3>1. x.jar = r.jar /\ x.dead = r.dead /\ x.row = r.row /\ x.pc = "returned"
      BY <1>1 DEF RunState, Returned
    <3>2. UnlockInv(p)' /\ x.pc \in Brw!Ended
      BY <2>5, <3>1, Unlocked DEF Brw!Ended
    <3> HIDE DEF x
    <3>3. Moves(p, x) /\ issued' = issued
      BY <1>2, <2>5 DEF x, Site
    <3> HIDE DEF r
    <3> QED BY <2>1, <2>3, <2>4, <3>1, <3>2, <3>3, SessionStep DEF r
  <2>6. CASE r.job # r.row /\ Moves(p, Brw!Again(r))
    <3> DEFINE x == Brw!Again(r)
    <3>1. /\ x.jar = 0 /\ x.dead = r.dead /\ x.row = r.job /\ x.pc = "look" /\ x.read = 0
          /\ x.coming = 0
      BY DEF Brw!Again, Brw!Start
    <3> HIDE DEF x
    <3>2. r.row = LoginRow /\ r.job.login
      BY <1>1, <2>6 DEF Placed
    <3>3. r.job.key = r.row.key
      BY <1>1, <3>2 DEF LoginsUnlock
    <3>4. run'[p] = x /\ Moves(p, x) /\ issued' = issued
      BY <1>2, <2>6, Updated DEF Moves, x, Site
    <3>5. UnlockInv(p)'
      BY <3>1, <3>4 DEF UnlockInv, Paging
    <3>6. saved'[x.row.key] \notin x.dead /\ x.jar \notin x.dead
      BY <2>3, <2>4, <3>1, <3>3
    <3> HIDE DEF r
    <3> QED BY <2>1, <2>3, <2>4, <3>1, <3>4, <3>5, <3>6, SessionStep DEF r
  <2> QED BY <1>5, <2>5, <2>6
<1>6. CASE r.row.type = "binary" /\ UNCHANGED saved /\ Moves(p, Returned(r))
  <2> DEFINE x == Returned(r)
  <2>1. x.jar = r.jar /\ x.dead = r.dead /\ x.row = r.row /\ x.pc = "returned"
    BY <1>1 DEF RunState, Returned
  <2>2. UnlockInv(p)' /\ x.pc \in Brw!Ended
    BY <1>6, <2>1, Unlocked DEF Brw!Ended
  <2> HIDE DEF x
  <2> QED BY <1>2, <1>6, <2>1, <2>2, SessionQuiet DEF x
<1>7. CASE r.row.type = "dom" /\ UNCHANGED saved /\ Moves(p, Brw!ReadOn(r))
  <2>1. Brw!ReadOn(r).row = r.row /\ Brw!ReadOn(r).jar = r.jar /\ Brw!ReadOn(r).dead = r.dead
    BY <1>1 DEF RunState, Brw!ReadOn
  <2> QED BY <1>2, <1>3, <1>7, <2>1, SessionRead
<1>8. CASE r.row.type = "xhr" /\ UNCHANGED saved /\ Moves(p, HandedOver(r))
  <2> DEFINE x == HandedOver(r)
  <2>1. x.jar = r.jar /\ x.dead = r.dead /\ x.row = r.row /\ x.pc = "returned"
    BY <1>1 DEF RunState, HandedOver
  <2>2. UnlockInv(p)' /\ x.pc \in Brw!Ended
    BY <1>8, <2>1, Unlocked DEF Brw!Ended
  <2> HIDE DEF x
  <2> QED BY <1>2, <1>8, <2>1, <2>2, SessionQuiet DEF x
<1> QED BY <1>4, <1>5, <1>6, <1>7, <1>8, DoneMoves

LEMMA SessionInit == Brw!Init => SessionInv
<1> SUFFICES ASSUME Brw!Init PROVE SessionInv
  OBVIOUS
<1>1. PICK j : run = [p \in Runners |-> Brw!Start(j[p])]
  BY DEF Brw!Init
<1>2. issued = 1 /\ saved \in [Keys -> {-1, 1}]
  BY DEF Brw!Init
<1>3. \A k \in Keys : saved[k] <= issued
  BY <1>2
<1>4. ASSUME NEW p \in Runners PROVE SessionOf(p)
  <2>1. /\ run[p].jar = 0 /\ run[p].dead = {} /\ run[p].pc = "look" /\ run[p].read = 0
        /\ run[p].coming = 0
    BY <1>1 DEF Brw!Start
  <2> QED BY <1>2, <2>1 DEF SessionOf, UnlockInv, Paging
<1> QED BY <1>3, <1>4 DEF SessionInv

LEMMA SessionNext ==
  ASSUME LoginsUnlock, BrowserTypeOK, SessionInv, [Brw!Next]_browser PROVE SessionInv'
<1>1. ASSUME NEW p \in Runners, Brw!Step(p) PROVE SessionInv'
  <2>1. CASE Brw!StepTimesOut(p)
    BY <2>1, TimesOutMoves, SessionTurned
  <2> QED BY <1>1, <2>1, SessionSetup, SessionAct, SessionForm, SessionDone, SessionPages DEF Brw!Step
<1>2. ASSUME NEW p \in Runners, Brw!Render(p) \/ Brw!ReplyArrives(p) \/ Brw!Quiet(p) \/ Brw!BrowserDies(p)
      PROVE  SessionInv'
  <2>1. CASE Brw!BrowserDies(p)
    BY <2>1, DiesMoves, SessionFail
  <2> QED BY <1>2, <2>1, SessionScreen
<1>3. CASE UNCHANGED <<issued, saved, run>>
  BY <1>3 DEF SessionInv, SessionOf, UnlockInv, Private
<1> QED BY <1>1, <1>2, <1>3 DEF Brw!Next, Brw!SessionDies, browser

LEMMA BrowserEngineStep ==
  ASSUME [Next]_vars, engine = "BROWSER"
  PROVE  engine' = "BROWSER" /\ [Brw!Next]_browser
BY DEF Next, vars

\* Neither a login run nor a second attempt loads the session the first attempt
\* was turned away with, however many runners share the state file and whatever
\* they save meanwhile: what is saved is a session its runner has just opened.
THEOREM SessionsStayFresh == LoginsUnlock => (Spec => []FreshSession)
<1> SUFFICES ASSUME LoginsUnlock PROVE Spec => []FreshSession
  OBVIOUS
<1> DEFINE Inv == engine = "BROWSER" => BrowserTypeOK /\ SessionInv
<1>1. Init => Inv
  BY BrowserTypeInit, SessionInit DEF Init
<1>2. Inv /\ [Next]_vars => Inv'
  BY BrowserEngineStep, BrowserTypeNext, SessionNext DEF Next, vars
<1>3. Inv => FreshSession
  BY DEF FreshSession, Brw!FreshSession, SessionInv, SessionOf
<1> QED BY <1>1, <1>2, <1>3, PTL DEF Spec

-----------------------------------------------------------------------------
(* Pages and replies: what has been acted out of a behaviour before step n. *)

Followed(steps, a, b) ==
  \A i \in DOMAIN steps : steps[i] = a => \E j \in DOMAIN steps : i < j /\ steps[j] = b

\* An a with no b since.
Pending(steps, n, a, b) ==
  \E k \in 1..(n - 1) : steps[k] = a /\ \A j \in (k + 1)..(n - 1) : steps[j] # b

Never(steps, n, b) == \A j \in 1..(n - 1) : steps[j] # b

\* What the argument needs of the rows: the page a row counts up to is asked
\* for by a script, after any login of its own.
Asks ==
  /\ LoginRow.type = "session"
  /\ \A w \in AllRows : w.type = "dom" /\ w.mode = "page" =>
       /\ \E i \in DOMAIN w.steps : w.steps[i] = "script"
       /\ Followed(w.steps, "submit", "script")

\* The document has not been idle, and the behaviour has still to wait for it.
Waiting(r) == r.pc = "act" /\ ~r.idle /\ Never(r.row.steps, r.step, "idle")

\* Of a row that asks at once and waits, whatever happens; of another, as long
\* as nothing has been held against its run.
Sure(r) == Brw!Prompt(r.row) \/ r.excuse = {}

\* Pages asked for by number: those from .from on, one after the other.
NumberedInv(r) ==
  (r.row.type = "dom" /\ r.row.mode = "page" /\ r.pc \notin Brw!Ended /\ Sure(r)) =>
    /\ r.at = r.from + r.read - (IF r.pc = "advance" THEN 1 ELSE 0)
    /\ r.got = r.from..(r.from + r.read - 1)
    /\ IF r.read = 0 THEN r.previous = {}
       ELSE r.from + r.read - 1 <= Pages /\ r.previous = {r.from + r.read - 1}
    /\ r.pc = "advance" => r.read > 0
    /\ r.pc \in {"act", "read"} =>
         /\ r.coming # 0 => r.coming = r.at /\ ~r.login /\ (Brw!Prompt(r.row) => Waiting(r))
         /\ \/ r.login \/ r.coming = r.at \/ r.shown = r.at
            \/ /\ r.pc = "act"
               /\ \/ Never(r.row.steps, r.step, "script")
                  \/ Pending(r.row.steps, r.step, "submit", "script")

Screen(mode, n) == (1..Pages) \cap (IF mode = "scroll" THEN 1..n ELSE {n})

\* A control clicked, a list scrolled: one page more each time, or none.
ClickedInv(r) ==
  (r.row.type = "dom" /\ r.row.mode \in {"click", "scroll"} /\ r.pc \notin Brw!Ended) =>
    /\ r.from = 1
    /\ r.got = 1..r.read /\ r.read <= Pages /\ r.previous = Screen(r.row.mode, r.read)
    /\ r.pc \in Setup \cup {"act"} => r.read = 0
    /\ r.pc = "act" =>
         /\ r.shown = 1
         /\ r.coming # 0 => r.coming = 1 /\ ~r.login
    /\ r.pc = "read" /\ r.read = 0 =>
         /\ r.login \/ r.shown = 1
         /\ r.coming # 0 => r.coming = 1 /\ ~r.login
    /\ r.pc = "advance" =>
         /\ r.read > 0
         /\ r.login \/ r.shown = r.read
         /\ r.coming # 0 => r.coming = r.read /\ ~r.login
    /\ r.pc = "settle" => r.read > 0
    /\ r.pc \in {"read", "settle"} /\ r.read > 0 =>
         IF r.coming # 0 THEN ~r.login /\ r.shown = r.read /\ r.coming = r.read + 1 /\ r.read < Pages
         ELSE r.login \/ (r.shown = r.read + 1 /\ r.read < Pages) \/ (r.shown = r.read /\ r.read = Pages)

Among(c) == {c[i] : i \in DOMAIN c}
Replies(r) == Among(r.captured)

\* JSON the page fetches for itself.
CapturedInv(r) ==
  (r.row.type = "xhr" /\ r.pc \notin Brw!Ended) =>
    /\ r.pc \in Setup => r.flying = {} /\ r.captured = <<>>
    /\ r.pc = "act" =>
         /\ r.flying # {} /\ Brw!Prompt(r.row) => Waiting(r)
         /\ r.excuse = {} => Replies(r) \cup r.flying = 1..r.sent
         /\ r.excuse = {} /\ ~r.row.all =>
              \A i \in DOMAIN r.captured : r.captured[i] <= Brw!Last(r.captured)

\* A row that asks at once, and then waits, is never late.
Timely(r) ==
  (Brw!Prompt(r.row) /\ (r.row.type = "xhr" \/ (r.row.type = "dom" /\ r.row.mode = "page"))) =>
    "late" \notin r.excuse

LateInv(r) == r.pc \notin {"failed", "expired"} => Timely(r)

\* The result.
Whole(r) ==
  r.pc = "returned" =>
    /\ Brw!Paged(r.row) /\ Brw!Prompt(r.row) => \E n \in 0..Pages : r.got = r.from..n
    /\ r.excuse = {} =>
         /\ Brw!Paged(r.row) => r.got = r.from..Pages
         /\ r.row.type = "xhr" => r.got = IF r.row.all THEN 1..r.sent ELSE {r.sent}

\* The page number is the job's own; only a numbered list counts it.
NumberInv(r) == r.job.mode # "page" => r.at = 1 /\ r.from = 1

\* A behaviour is acted out step by step, and no further than its last.
StepInv(r) ==
  r.pc = "act" => r.step <= Len(r.row.steps) + 1 /\ (Brw!Early(r) => ~r.idle)

RunInv(r) ==
  /\ NumberInv(r) /\ StepInv(r) /\ NumberedInv(r) /\ ClickedInv(r) /\ CapturedInv(r)
  /\ LateInv(r) /\ Whole(r)

BrowserInv ==
  engine = "BROWSER" => BrowserTypeOK /\ \A p \in Runners : RunInv(run[p])

\* x has read what r has read, and has the same pages under way.
SameList(x, r) ==
  /\ x.row = r.row /\ x.job = r.job /\ x.at = r.at /\ x.from = r.from
  /\ x.read = r.read /\ x.got = r.got /\ x.previous = r.previous
SameScreen(x, r) == x.shown = r.shown /\ x.coming = r.coming /\ x.login = r.login
SameReplies(x, r) ==
  /\ x.sent = r.sent /\ x.flying = r.flying /\ x.captured = r.captured /\ x.excuse = r.excuse

LEMMA PendingHere ==
  ASSUME NEW steps, NEW n \in Nat \ {0}, NEW a, NEW b, steps[n] = a
  PROVE  Pending(steps, n + 1, a, b)
<1>1. n \in 1..((n + 1) - 1) /\ (n + 1)..((n + 1) - 1) = {}
  OBVIOUS
<1> QED BY <1>1 DEF Pending

LEMMA PendingStill ==
  ASSUME NEW steps, NEW n \in Nat \ {0}, NEW a, NEW b, steps[n] # b, Pending(steps, n, a, b)
  PROVE  Pending(steps, n + 1, a, b)
<1>1. PICK k \in 1..(n - 1) : steps[k] = a /\ \A j \in (k + 1)..(n - 1) : steps[j] # b
  BY DEF Pending
<1>2. k \in 1..((n + 1) - 1)
  OBVIOUS
<1>3. ASSUME NEW j \in (k + 1)..((n + 1) - 1) PROVE steps[j] # b
  <2>1. j = n \/ j \in (k + 1)..(n - 1)
    OBVIOUS
  <2> QED BY <1>1, <2>1
<1> QED BY <1>1, <1>2, <1>3 DEF Pending

LEMMA NeverStill ==
  ASSUME NEW steps, NEW n \in Nat \ {0}, NEW b, steps[n] # b, Never(steps, n, b)
  PROVE  Never(steps, n + 1, b)
<1>1. ASSUME NEW j \in 1..((n + 1) - 1) PROVE steps[j] # b
  <2>1. j = n \/ j \in 1..(n - 1)
    OBVIOUS
  <2> QED BY <2>1 DEF Never
<1> QED BY <1>1 DEF Never

\* Nothing is pending at the end of a behaviour that waits for it.
LEMMA NothingPending ==
  ASSUME NEW r \in RunState, r.step > Len(r.row.steps), r.step <= Len(r.row.steps) + 1,
         NEW a, NEW b, Followed(r.row.steps, a, b)
  PROVE  ~Pending(r.row.steps, r.step, a, b)
<1> DEFINE s == r.row.steps
<1>1. r.step \in Nat /\ Len(s) \in Nat /\ DOMAIN s = 1..Len(s)
  BY RunFacts, RowFacts
<1>2. 1..(r.step - 1) = DOMAIN s /\ r.step - 1 = Len(s)
  BY <1>1
<1>3. SUFFICES ASSUME NEW k \in DOMAIN s, s[k] = a, \A j \in (k + 1)..Len(s) : s[j] # b
               PROVE  FALSE
  BY <1>2 DEF Pending
<1>4. PICK j \in DOMAIN s : k < j /\ s[j] = b
  BY <1>3 DEF Followed
<1>5. j \in (k + 1)..Len(s)
  BY <1>1, <1>3, <1>4
<1> QED BY <1>3, <1>4, <1>5

LEMMA NotNever ==
  ASSUME NEW r \in RunState, r.step > Len(r.row.steps), NEW b,
         \E i \in DOMAIN r.row.steps : r.row.steps[i] = b
  PROVE  ~Never(r.row.steps, r.step, b)
<1>1. r.step \in Nat /\ Len(r.row.steps) \in Nat /\ DOMAIN r.row.steps = 1..Len(r.row.steps)
  BY RunFacts, RowFacts
<1> QED BY <1>1 DEF Never

\* A row that asks at once asks with its first step, before anything is idle.
LEMMA AsksFirst ==
  ASSUME NEW r \in RunState, r.pc = "act", r.step <= Len(r.row.steps), Brw!Prompt(r.row),
         r.row.steps[r.step] \in {"script", "request"}
  PROVE  r.row.steps[r.step] = "script" /\ Brw!Early(r)
<1>1. /\ r.step \in Nat \ {0} /\ Len(r.row.steps) \in Nat
      /\ DOMAIN r.row.steps = 1..Len(r.row.steps)
  BY RunFacts, RowFacts
<1>2. r.step = 1 /\ r.row.steps[1] = "script"
  BY <1>1 DEF Brw!Prompt
<1>3. r.row.steps # <<>>
  <2>1. Len(r.row.steps) # 0
    BY <1>1, <1>2
  <2>2. Len(<<>>) = 0
    OBVIOUS
  <2> QED BY <2>1, <2>2
<1> QED BY <1>2, <1>3 DEF Brw!Early

\* It does not reach the end of its behaviour without having waited.
LEMMA PromptAsks ==
  ASSUME NEW r \in RunState, r.step > Len(r.row.steps), Brw!Prompt(r.row),
         r.row.type = "xhr" \/ \E i \in DOMAIN r.row.steps : r.row.steps[i] = "script"
  PROVE  ~Waiting(r)
<1>1. \E k \in DOMAIN r.row.steps : r.row.steps[k] = "idle"
  BY DEF Brw!Prompt
<1> QED BY <1>1, NotNever DEF Waiting

\* It has waited until it has acted on a networkidle.
LEMMA WaitingStill ==
  ASSUME NEW r \in RunState, Waiting(r), r.row.steps[r.step] # "idle",
         NEW x, x.row = r.row, x.pc = "act", x.step = r.step + 1, x.idle => r.idle,
         x.idle \in BOOLEAN
  PROVE  Waiting(x)
<1>1. r.step \in Nat \ {0}
  BY RunFacts
<1>2. Never(r.row.steps, r.step + 1, "idle")
  BY <1>1, NeverStill DEF Waiting
<1> QED BY <1>2 DEF Waiting

LEMMA StepIsLater ==
  ASSUME NEW r \in RunState, r.pc = "act", r.step <= Len(r.row.steps),
         NEW x, x.row = r.row, x.step = r.step + 1
  PROVE  StepInv(x)
<1>1. r.step \in Nat \ {0} /\ Len(r.row.steps) \in Nat
  BY RunFacts, RowFacts
<1>2. x.step # 1 /\ x.step <= Len(x.row.steps) + 1
  BY <1>1
<1> QED BY <1>2 DEF StepInv, Brw!Early

\* A list is the job's own: the login row is none.
LEMMA ListRow ==
  ASSUME Asks, NEW r \in RunState, Placed(r), NumberInv(r), r.row.type = "dom"
  PROVE  /\ r.row = r.job /\ r.row \in AllRows
         /\ r.row.mode # "page" => r.at = 1 /\ r.from = 1
BY RunFacts DEF Asks, Placed, NumberInv

\* Unbroken so far.
LEMMA Unbroken ==
  ASSUME Asks, NEW r \in RunState, Placed(r), RunInv(r), r.pc \notin Brw!Ended,
         Brw!Paged(r.row), Brw!Prompt(r.row)
  PROVE  \E n \in 0..Pages : r.got = r.from..n
<1>1. r.row.type = "dom" /\ r.row.mode \in {"click", "scroll", "page"}
  BY RunFacts, RowFacts DEF Brw!Paged
<1>2. Pages \in Nat /\ r.from \in Nat \ {0} /\ r.read \in Nat
  BY PagesType, RunFacts
<1>3. CASE r.row.mode = "page"
  <2>1. /\ r.got = r.from..(r.from + r.read - 1)
        /\ r.read = 0 \/ r.from + r.read - 1 <= Pages
    BY <1>1, <1>3 DEF RunInv, NumberedInv, Sure
  <2>2. CASE r.read = 0
    <3>1. r.got = r.from..0 /\ 0 \in 0..Pages
      BY <1>2, <2>1, <2>2
    <3> QED BY <3>1
  <2>3. CASE r.read # 0
    <3>1. r.from + r.read - 1 \in 0..Pages
      BY <1>2, <2>1, <2>3
    <3> QED BY <2>1, <3>1
  <2> QED BY <2>2, <2>3
<1>4. CASE r.row.mode \in {"click", "scroll"}
  <2>1. r.from = 1 /\ r.got = 1..r.read /\ r.read <= Pages
    BY <1>1, <1>4 DEF RunInv, ClickedInv
  <2> QED BY <1>2, <2>1
<1> QED BY <1>1, <1>3, <1>4

\* A run that has ended without a result.
LEMMA RunEnded ==
  ASSUME NEW r, NEW x, NumberInv(r), x.job = r.job, x.at = r.at, x.from = r.from,
         x.pc \in {"failed", "expired"}
  PROVE  RunInv(x)
BY DEF RunInv, NumberInv, StepInv, NumberedInv, ClickedInv, CapturedInv, LateInv, Whole, Brw!Ended

\* A run that has returned its result.
LEMMA RunReturned ==
  ASSUME NEW r, NEW x, NumberInv(r), x.job = r.job, x.at = r.at, x.from = r.from,
         x.pc = "returned", Timely(x), Whole(x)
  PROVE  RunInv(x)
BY DEF RunInv, NumberInv, StepInv, NumberedInv, ClickedInv, CapturedInv, LateInv, Brw!Ended

\* A run that has not begun.
LEMMA RunStarts ==
  ASSUME NEW x, x.pc = "look", x.job.mode # "page" => x.at = 1 /\ x.from = 1,
         x.row = x.job \/ x.row.type = "session", x.at = x.from \/ x.row.type = "session",
         x.from \in Nat \ {0}, x.read = 0, x.got = {}, x.previous = {}, x.flying = {}, x.captured = <<>>,
         x.excuse = {}
  PROVE  RunInv(x)
<1>1. x.from..(x.from + 0 - 1) = {} /\ 1..0 = {}
  OBVIOUS
<1>2. Screen("click", 0) = {} /\ Screen("scroll", 0) = {}
  BY PagesType DEF Screen
<1>3. NumberedInv(x)
  BY <1>1 DEF NumberedInv
<1>4. ClickedInv(x)
  <2>1. SUFFICES ASSUME x.row.type = "dom", x.row.mode \in {"click", "scroll"} PROVE ClickedInv(x)
    BY DEF ClickedInv
  <2>2. x.from = 1
    BY <2>1
  <2>3. x.got = 1..x.read /\ x.read <= Pages /\ x.previous = Screen(x.row.mode, x.read)
    BY <1>1, <1>2, <2>1, PagesType
  <2> QED BY <2>2, <2>3 DEF ClickedInv
<1> QED BY <1>3, <1>4 DEF RunInv, NumberInv, StepInv, CapturedInv, LateInv, Timely, Whole

\* Before the behaviour is acted out.
LEMMA RunSetup ==
  ASSUME NEW r \in RunState, RunInv(r), r.pc \in Setup, NEW x, SameList(x, r), SameReplies(x, r),
         x.pc \in Setup
  PROVE  RunInv(x)
<1>1. /\ r.pc \notin Brw!Ended \cup Paging \cup {"act"} /\ x.pc \notin Brw!Ended \cup Paging \cup {"act"}
      /\ r.pc \notin {"failed", "expired"}
  BY DEF Setup, Brw!Ended, Paging
<1>2. NumberInv(x) /\ StepInv(x) /\ LateInv(x) /\ Whole(x)
  BY <1>1 DEF RunInv, NumberInv, StepInv, LateInv, Timely, Whole, SameList, SameReplies, Brw!Ended
<1>3. NumberedInv(x)
  BY <1>1 DEF RunInv, NumberedInv, Sure, SameList, SameReplies, Paging
<1>4. ClickedInv(x)
  BY <1>1 DEF RunInv, ClickedInv, SameList, Paging
<1>5. CapturedInv(x)
  BY <1>1 DEF RunInv, CapturedInv, SameList, SameReplies
<1> QED BY <1>2, <1>3, <1>4, <1>5 DEF RunInv

LEMMA RunLoaded ==
  ASSUME NEW r \in RunState, RunInv(r), r.pc = "goto"
  PROVE  RunInv(Loaded(r))
<1> DEFINE x == Loaded(r)
<1>1. /\ SameList(x, r) /\ x.pc = "act" /\ x.step = 1 /\ x.shown = 1 /\ x.coming = 0 /\ x.idle = FALSE
      /\ x.captured = r.captured /\ x.excuse = r.excuse
      /\ x.row.type = "xhr" => x.sent = 1 /\ x.flying = {1}
  BY DEF RunState, Loaded, SameList
<1>2. Len(r.row.steps) \in Nat
  BY RunFacts, RowFacts
<1> HIDE DEF x
<1>3. /\ r.pc \in Setup /\ r.pc \notin Brw!Ended \cup Paging /\ x.pc \notin Brw!Ended \cup Paging
      /\ r.pc \notin {"failed", "expired"}
  BY <1>1 DEF Setup, Brw!Ended, Paging
<1>4. NumberInv(x) /\ StepInv(x) /\ LateInv(x) /\ Whole(x)
  BY <1>1, <1>2, <1>3 DEF RunInv, NumberInv, StepInv, LateInv, Timely, Whole, SameList
<1>5. \A b : Never(x.row.steps, x.step, b)
  BY <1>1 DEF Never
<1>6. NumberedInv(x)
  BY <1>1, <1>3, <1>5 DEF RunInv, NumberedInv, Sure, SameList
<1>7. ClickedInv(x)
  BY <1>1, <1>3 DEF RunInv, ClickedInv, SameList, Paging, Setup
<1>8. CapturedInv(x)
  <2>1. SUFFICES ASSUME x.row.type = "xhr" PROVE CapturedInv(x)
    BY DEF CapturedInv
  <2>2. r.captured = <<>>
    BY <1>1, <1>3, <2>1 DEF RunInv, CapturedInv, SameList
  <2>3. Replies(x) \cup x.flying = 1..x.sent /\ DOMAIN x.captured = {}
    BY <1>1, <2>1, <2>2 DEF Replies, Among
  <2>4. Waiting(x)
    BY <1>1, <1>5 DEF Waiting
  <2> QED BY <1>1, <2>3, <2>4 DEF CapturedInv, Setup
<1> QED BY <1>4, <1>6, <1>7, <1>8 DEF RunInv, x

\* A step of the behaviour, or of the login form.
LEMMA RunStepped ==
  ASSUME Asks, NEW r \in RunState, Placed(r), RunInv(r), r.pc = "act",
         r.step <= Len(r.row.steps), r.row.steps[r.step] # "submit",
         Brw!Met(r, r.row.steps[r.step])
  PROVE  RunInv(Stepped(r))
<1> DEFINE s == r.row.steps[r.step]
           x == Stepped(r)
<1>1. /\ SameList(x, r) /\ x.pc = "act" /\ x.step = r.step + 1
      /\ x.login = r.login /\ x.shown = r.shown /\ x.idle = r.idle
      /\ x.captured = r.captured /\ x.excuse = r.excuse
      /\ x.coming = IF s = "script" /\ r.row.type # "xhr"
                    THEN (IF r.login THEN 0 ELSE r.at) ELSE r.coming
      /\ x.sent = IF Brw!Fetches(r, s) THEN r.sent + 1 ELSE r.sent
      /\ x.flying = IF Brw!Fetches(r, s) THEN r.flying \cup {r.sent + 1} ELSE r.flying
  BY SteppedFields DEF SameList
<1>2. /\ Len(r.row.steps) \in Nat /\ r.step \in Nat \ {0} /\ r.at \in Nat \ {0} /\ r.sent \in Nat
      /\ r.login \in BOOLEAN /\ r.idle \in BOOLEAN
  BY RunFacts, RowFacts
<1>3. s = "idle" => r.idle
  BY DEF Brw!Met
<1>4. x.row = r.row
  BY <1>1 DEF SameList
<1> HIDE DEF x
<1>5. /\ r.pc \notin Brw!Ended \cup Setup \cup Paging /\ x.pc \notin Brw!Ended \cup Setup \cup Paging
      /\ r.pc \notin {"failed", "expired"}
  BY <1>1 DEF Setup, Brw!Ended, Paging
<1>6. NumberInv(x) /\ LateInv(x) /\ Whole(x)
  BY <1>1, <1>5 DEF RunInv, NumberInv, LateInv, Timely, Whole, SameList
<1>7. StepInv(x)
  BY <1>1, <1>4, StepIsLater
<1>8. Sure(x) <=> Sure(r)
  BY <1>1, <1>4 DEF Sure
<1>9. \A a, b : s # b /\ Pending(r.row.steps, r.step, a, b) => Pending(x.row.steps, x.step, a, b)
  BY <1>1, <1>2, PendingStill DEF SameList
<1>10. \A b : s # b /\ Never(r.row.steps, r.step, b) => Never(x.row.steps, x.step, b)
  BY <1>1, <1>2, NeverStill DEF SameList
<1>11. Waiting(r) => Waiting(x)
  <2>1. x.idle \in BOOLEAN /\ (x.idle => r.idle)
    BY <1>1, <1>2
  <2>2. Waiting(r) => s # "idle"
    BY <1>3 DEF Waiting
  <2> QED BY <1>1, <1>4, <2>1, <2>2, WaitingStill
<1>12. ASSUME Brw!Prompt(r.row), s \in {"script", "request"} PROVE s = "script" /\ Waiting(x)
  <2>1. s = "script" /\ Brw!Early(r)
    BY <1>12, AsksFirst
  <2>2. r.step = 1 /\ ~r.idle
    BY <2>1 DEF RunInv, StepInv, Brw!Early
  <2>3. Waiting(r)
    BY <2>2 DEF Waiting, Never
  <2> QED BY <1>11, <2>1, <2>3
<1>13. NumberedInv(x)
  <2>1. SUFFICES ASSUME r.row.type = "dom", r.row.mode = "page", Sure(r) PROVE NumberedInv(x)
    BY <1>4, <1>8 DEF NumberedInv
  <2>2. r.from \in Nat /\ r.read \in Nat
    BY RunFacts
  <2>3. /\ r.at = r.from + r.read - 0
        /\ r.got = r.from..(r.from + r.read - 1)
        /\ IF r.read = 0 THEN r.previous = {}
           ELSE r.from + r.read - 1 <= Pages /\ r.previous = {r.from + r.read - 1}
        /\ r.coming # 0 => r.coming = r.at /\ ~r.login /\ (Brw!Prompt(r.row) => Waiting(r))
        /\ \/ r.login \/ r.coming = r.at \/ r.shown = r.at
           \/ Never(r.row.steps, r.step, "script")
           \/ Pending(r.row.steps, r.step, "submit", "script")
    BY <1>5, <2>1 DEF RunInv, NumberedInv
  <2>4. \/ x.login \/ x.coming = x.at \/ x.shown = x.at
        \/ Never(x.row.steps, x.step, "script")
        \/ Pending(x.row.steps, x.step, "submit", "script")
    <3>1. CASE s = "script"
      BY <1>1, <2>1, <3>1 DEF SameList
    <3>2. CASE s # "script"
      BY <1>1, <1>9, <1>10, <2>3, <3>2 DEF SameList
    <3> QED BY <3>1, <3>2
  <2>5. x.coming # 0 => x.coming = r.at /\ ~x.login /\ (Brw!Prompt(x.row) => Waiting(x))
    <3>1. CASE s = "script"
      BY <1>1, <1>4, <1>12, <2>1, <3>1
    <3>2. CASE s # "script"
      BY <1>1, <1>4, <1>11, <2>3, <3>2
    <3> QED BY <3>1, <3>2
  <2> QED BY <1>1, <1>5, <2>3, <2>4, <2>5 DEF NumberedInv, SameList, Paging
<1>14. ClickedInv(x)
  <2>1. SUFFICES ASSUME r.row.type = "dom", r.row.mode \in {"click", "scroll"} PROVE ClickedInv(x)
    BY <1>4 DEF ClickedInv
  <2>2. r.at = 1
    BY <2>1, ListRow DEF RunInv
  <2>3. /\ r.from = 1 /\ r.got = 1..r.read /\ r.read <= Pages
        /\ r.previous = Screen(r.row.mode, r.read) /\ r.read = 0 /\ r.shown = 1
        /\ r.coming # 0 => r.coming = 1 /\ ~r.login
    BY <1>5, <2>1 DEF RunInv, ClickedInv
  <2>4. x.coming # 0 => x.coming = 1 /\ ~x.login
    BY <1>1, <2>2, <2>3
  <2> QED BY <1>1, <1>5, <2>3, <2>4 DEF ClickedInv, SameList, Paging
<1>15. CapturedInv(x)
  <2>1. SUFFICES ASSUME r.row.type = "xhr" PROVE CapturedInv(x)
    BY <1>4 DEF CapturedInv
  <2>2. /\ r.flying # {} /\ Brw!Prompt(r.row) => Waiting(r)
        /\ r.excuse = {} => Replies(r) \cup r.flying = 1..r.sent
        /\ r.excuse = {} /\ ~r.row.all =>
              \A i \in DOMAIN r.captured : r.captured[i] <= Brw!Last(r.captured)
    BY <1>5, <2>1 DEF RunInv, CapturedInv
  <2>3. x.flying # {} /\ Brw!Prompt(x.row) => Waiting(x)
    <3>1. CASE Brw!Fetches(r, s)
      BY <1>4, <1>12, <3>1 DEF Brw!Fetches
    <3>2. CASE ~Brw!Fetches(r, s)
      BY <1>1, <1>4, <1>11, <2>2, <3>2
    <3> QED BY <3>1, <3>2
  <2>4. x.excuse = {} => Replies(x) \cup x.flying = 1..x.sent
    <3>1. 1..(r.sent + 1) = 1..r.sent \cup {r.sent + 1}
      BY <1>2
    <3>2. Replies(x) = Replies(r)
      BY <1>1 DEF Replies
    <3>3. CASE Brw!Fetches(r, s)
      BY <1>1, <2>2, <3>1, <3>2, <3>3
    <3>4. CASE ~Brw!Fetches(r, s)
      BY <1>1, <2>2, <3>2, <3>4
    <3> QED BY <3>3, <3>4
  <2> QED BY <1>1, <1>4, <1>5, <2>2, <2>3, <2>4 DEF CapturedInv
<1> QED BY <1>6, <1>7, <1>13, <1>14, <1>15 DEF RunInv, x

LEMMA RunForm ==
  ASSUME Asks, NEW r \in RunState, RunInv(r), r.pc = "act",
         r.step <= Len(r.row.steps), r.row.steps[r.step] = "submit", r.login,
         NEW x, SameList(x, r), SameReplies(x, r), x.pc = "act", x.step = r.step + 1,
         x.shown = r.shown, x.coming = r.coming, x.idle \in BOOLEAN, x.idle => r.idle
  PROVE  RunInv(x)
<1>1. /\ Len(r.row.steps) \in Nat /\ r.step \in Nat \ {0} /\ r.at \in Nat \ {0}
      /\ r.from \in Nat /\ r.read \in Nat
  BY RunFacts, RowFacts
<1>2. /\ r.pc \notin Brw!Ended \cup Setup \cup Paging /\ x.pc \notin Brw!Ended \cup Setup \cup Paging
      /\ r.pc \notin {"failed", "expired"} /\ x.row = r.row
  BY DEF Setup, Brw!Ended, Paging, SameList
<1>3. NumberInv(x) /\ StepInv(x) /\ LateInv(x) /\ Whole(x)
  <2>1. StepInv(x)
    BY <1>2, StepIsLater
  <2> QED BY <1>2, <2>1 DEF RunInv, NumberInv, LateInv, Timely, Whole, SameList, SameReplies
<1>4. NumberedInv(x)
  <2>1. SUFFICES ASSUME r.row.type = "dom", r.row.mode = "page", Sure(r) PROVE NumberedInv(x)
    BY DEF NumberedInv, Sure, SameList, SameReplies
  <2>2. /\ r.at = r.from + r.read - 0
        /\ r.got = r.from..(r.from + r.read - 1)
        /\ IF r.read = 0 THEN r.previous = {}
           ELSE r.from + r.read - 1 <= Pages /\ r.previous = {r.from + r.read - 1}
        /\ r.coming = 0
    BY <1>2, <2>1 DEF RunInv, NumberedInv
  <2>3. Pending(x.row.steps, x.step, "submit", "script")
    BY <1>1, PendingHere DEF SameList
  <2> QED BY <1>2, <2>2, <2>3 DEF NumberedInv, SameList, Paging
<1>5. ClickedInv(x)
  <2>1. r.row.type = "dom" /\ r.row.mode \in {"click", "scroll"} => r.coming = 0
    BY <1>2 DEF RunInv, ClickedInv
  <2> QED BY <1>2, <2>1 DEF RunInv, ClickedInv, SameList, Paging
<1>6. CapturedInv(x)
  <2>1. SUFFICES ASSUME r.row.type = "xhr" PROVE CapturedInv(x)
    BY DEF CapturedInv, SameList
  <2>2. Waiting(r) => Waiting(x)
    BY <1>2, WaitingStill
  <2>3. Replies(x) = Replies(r)
    BY DEF Replies, SameReplies
  <2> QED BY <1>2, <2>1, <2>2, <2>3 DEF RunInv, CapturedInv, SameReplies
<1> QED BY <1>3, <1>4, <1>5, <1>6 DEF RunInv

LEMMA RunRendered ==
  ASSUME NEW r \in RunState, RunInv(r), r.pc \notin Brw!Ended, r.coming # 0
  PROVE  RunInv(Rendered(r))
<1> DEFINE x == Rendered(r)
<1>1. /\ SameList(x, r) /\ SameReplies(x, r) /\ x.pc = r.pc /\ x.step = r.step /\ x.idle = r.idle
      /\ x.coming = 0
      /\ x.shown = IF Brw!Known(r) THEN r.coming ELSE r.shown
      /\ x.login = ~Brw!Known(r)
  BY DEF RunState, Rendered, SameList, SameReplies
<1>2. /\ Brw!Known(r) \in BOOLEAN /\ r.read \in Nat /\ r.at \in Nat
      /\ r.pc \notin {"failed", "expired", "returned"}
  BY KnownType, RunFacts DEF Brw!Ended
<1> HIDE DEF x
<1>3. x.login \/ x.shown = r.coming
  BY <1>1, <1>2
<1>4. NumberInv(x) /\ StepInv(x) /\ LateInv(x) /\ Whole(x)
  BY <1>1, <1>2 DEF RunInv, NumberInv, StepInv, Brw!Early, LateInv, Timely, Whole, SameList, SameReplies
<1>5. NumberedInv(x)
  <2>1. SUFFICES ASSUME r.row.type = "dom", r.row.mode = "page", Sure(r) PROVE NumberedInv(x)
    BY <1>1 DEF NumberedInv, Sure, SameList, SameReplies
  <2>2. r.pc \in {"act", "read"} => r.coming = r.at
    BY <2>1 DEF RunInv, NumberedInv
  <2>3. r.pc \in {"act", "read"} => x.login \/ x.shown = x.at
    BY <1>1, <1>3, <2>2 DEF SameList
  <2> QED BY <1>1, <2>1, <2>3 DEF RunInv, NumberedInv, SameList
<1>6. ClickedInv(x)
  <2>1. SUFFICES ASSUME r.row.type = "dom", r.row.mode \in {"click", "scroll"} PROVE ClickedInv(x)
    BY <1>1 DEF ClickedInv, SameList
  <2>2. /\ r.from = 1 /\ r.got = 1..r.read /\ r.read <= Pages
        /\ r.previous = Screen(r.row.mode, r.read)
        /\ r.pc \in Setup \cup {"act"} => r.read = 0
        /\ r.pc = "act" => r.shown = 1 /\ r.coming = 1
        /\ r.pc = "read" /\ r.read = 0 => r.coming = 1
        /\ r.pc = "advance" => r.read > 0 /\ r.coming = r.read
        /\ r.pc = "settle" => r.read > 0
    BY <2>1 DEF RunInv, ClickedInv
  <2>3. r.pc \in {"read", "settle"} /\ r.read > 0 =>
          r.shown = r.read /\ r.coming = r.read + 1 /\ r.read < Pages
    BY <2>1 DEF RunInv, ClickedInv
  <2>4. r.pc = "act" => x.shown = 1
    BY <1>1, <1>2, <2>2
  <2>5. r.pc \in {"read", "settle"} /\ r.read > 0 =>
          x.login \/ (x.shown = r.read + 1 /\ r.read < Pages)
    BY <1>3, <2>3
  <2>6. /\ r.pc = "read" /\ r.read = 0 => x.login \/ x.shown = 1
        /\ r.pc = "advance" => x.login \/ x.shown = r.read
    BY <1>3, <2>2
  <2> QED BY <1>1, <2>2, <2>4, <2>5, <2>6 DEF ClickedInv, SameList
<1>7. CapturedInv(x)
  BY <1>1 DEF RunInv, CapturedInv, Waiting, Replies, SameList, SameReplies
<1> QED BY <1>4, <1>5, <1>6, <1>7 DEF RunInv, x

\* The document is idle: nothing is under way, and what asks at once has asked.
LEMMA RunQuiet ==
  ASSUME NEW r \in RunState, RunInv(r), r.pc \in {"act"} \cup Paging,
         r.coming = 0, r.flying = {}, ~Brw!Early(r)
  PROVE  RunInv([r EXCEPT !.idle = TRUE])
<1> DEFINE x == [r EXCEPT !.idle = TRUE]
<1>1. SameList(x, r) /\ SameScreen(x, r) /\ SameReplies(x, r) /\ x.pc = r.pc /\ x.step = r.step
  BY DEF RunState, SameList, SameScreen, SameReplies
<1> HIDE DEF x
<1>2. r.pc \notin {"failed", "expired", "returned"}
  BY DEF Paging
<1>3. NumberInv(x) /\ StepInv(x) /\ LateInv(x) /\ Whole(x)
  BY <1>1, <1>2 DEF RunInv, NumberInv, StepInv, Brw!Early, LateInv, Timely, Whole, SameList, SameReplies
<1>4. NumberedInv(x)
  BY <1>1 DEF RunInv, NumberedInv, Sure, SameList, SameScreen, SameReplies
<1>5. ClickedInv(x)
  BY <1>1 DEF RunInv, ClickedInv, SameList, SameScreen
<1>6. CapturedInv(x)
  BY <1>1 DEF RunInv, CapturedInv, Replies, SameList, SameReplies
<1> QED BY <1>3, <1>4, <1>5, <1>6 DEF RunInv, x

\* The last of the captured replies is the latest, if none was overtaken.
LEMMA LastIsLatest ==
  ASSUME NEW c \in Seq(Nat), NEW n \in Nat, NEW d, d = Append(c, n)
  PROVE  /\ Among(d) = Among(c) \cup {n}
         /\ (/\ \A i \in DOMAIN c : c[i] <= Brw!Last(c)
             /\ c # <<>> => ~(n < Brw!Last(c))) =>
               \A i \in DOMAIN d : d[i] <= Brw!Last(d)
<1>1. /\ DOMAIN d = 1..(Len(c) + 1) /\ Len(c) \in Nat /\ Len(d) = Len(c) + 1
      /\ DOMAIN c = 1..Len(c)
      /\ \A i \in 1..Len(c) : d[i] = c[i] /\ c[i] \in Nat
      /\ d[Len(c) + 1] = n
  BY AppendProperties
<1>2. 1..(Len(c) + 1) = 1..Len(c) \cup {Len(c) + 1}
  BY <1>1
<1>3. Among(d) = Among(c) \cup {n}
  BY <1>1, <1>2 DEF Among
<1>4. ASSUME \A i \in DOMAIN c : c[i] <= Brw!Last(c), c # <<>> => ~(n < Brw!Last(c)),
             NEW i \in DOMAIN d
      PROVE  d[i] <= n
  <2>1. CASE i = Len(c) + 1
    BY <1>1, <2>1
  <2>2. CASE i \in 1..Len(c)
    <3>1. c # <<>> /\ Len(c) \in 1..Len(c)
      BY <1>1, <2>2
    <3>2. Brw!Last(c) \in Nat /\ c[i] \in Nat /\ d[i] = c[i]
      BY <1>1, <2>2, <3>1 DEF Brw!Last
    <3>3. c[i] <= Brw!Last(c) /\ ~(n < Brw!Last(c))
      BY <1>1, <1>4, <2>2, <3>1
    <3> QED BY <3>2, <3>3
  <2> QED BY <1>1, <1>2, <2>1, <2>2
<1>5. Brw!Last(d) = n
  BY <1>1 DEF Brw!Last
<1> QED BY <1>3, <1>4, <1>5

LEMMA RunReplied ==
  ASSUME NEW r \in RunState, RunInv(r), r.pc \notin Brw!Ended, NEW n \in r.flying
  PROVE  RunInv(Replied(r, n))
<1> DEFINE x == Replied(r, n)
<1>1. /\ SameList(x, r) /\ SameScreen(x, r) /\ x.pc = r.pc /\ x.step = r.step /\ x.sent = r.sent
      /\ x.idle = r.idle
      /\ x.flying = r.flying \ {n}
      /\ x.captured = IF Brw!Known(r) THEN Append(r.captured, n) ELSE r.captured
      /\ x.excuse = r.excuse \cup Marred(r, n)
  BY DEF RunState, Replied, SameList, SameScreen
<1> HIDE DEF x
<1>2. r.pc \notin {"failed", "expired", "returned"} /\ x.row = r.row
  BY <1>1 DEF Brw!Ended, SameList
<1>3. Sure(x) => Sure(r)
  BY <1>1, <1>2 DEF Sure
<1>4. NumberInv(x) /\ StepInv(x) /\ Whole(x)
  BY <1>1, <1>2 DEF RunInv, NumberInv, StepInv, Brw!Early, Whole, SameList
<1>5. LateInv(x)
  <2>1. "late" \notin Marred(r, n)
    BY DEF Marred
  <2> QED BY <1>1, <1>2, <2>1 DEF RunInv, LateInv, Timely
<1>6. NumberedInv(x)
  BY <1>1, <1>3 DEF RunInv, NumberedInv, Waiting, SameList, SameScreen
<1>7. ClickedInv(x)
  BY <1>1 DEF RunInv, ClickedInv, SameList, SameScreen
<1>8. CapturedInv(x)
  <2>1. SUFFICES ASSUME r.row.type = "xhr" PROVE CapturedInv(x)
    BY <1>2 DEF CapturedInv
  <2>2. r.pc \notin Setup
    BY <2>1 DEF RunInv, CapturedInv
  <2>3. SUFFICES ASSUME r.pc = "act" PROVE CapturedInv(x)
    BY <1>1, <2>2 DEF CapturedInv
  <2>4. /\ Brw!Prompt(r.row) => Waiting(r)
        /\ r.excuse = {} => Replies(r) \cup r.flying = 1..r.sent
        /\ r.excuse = {} /\ ~r.row.all =>
              \A i \in DOMAIN r.captured : r.captured[i] <= Brw!Last(r.captured)
    BY <2>1, <2>3 DEF RunInv, CapturedInv
  <2>5. Brw!Prompt(x.row) => Waiting(x)
    BY <1>1, <1>2, <2>4 DEF Waiting
  <2>6. ASSUME x.excuse = {}
        PROVE  /\ Replies(x) \cup x.flying = 1..x.sent
               /\ ~x.row.all => \A i \in DOMAIN x.captured : x.captured[i] <= Brw!Last(x.captured)
    <3>1. r.excuse = {} /\ Marred(r, n) = {}
      BY <1>1, <2>6
    <3>2. Brw!Known(r) /\ (~r.row.all => ~Brw!Overtaken(r, n))
      BY <3>1 DEF Marred
    <3>3. r.captured \in Seq(Nat) /\ n \in Nat /\ x.captured = Append(r.captured, n)
      BY <1>1, <3>2, RunFacts
    <3>4. Replies(x) = Replies(r) \cup {n}
      BY <3>3, LastIsLatest DEF Replies
    <3>5. Replies(x) \cup x.flying = 1..x.sent
      BY <1>1, <2>4, <3>1, <3>4
    <3>6. ASSUME ~x.row.all
          PROVE  \A i \in DOMAIN x.captured : x.captured[i] <= Brw!Last(x.captured)
      <4>1. \A i \in DOMAIN r.captured : r.captured[i] <= Brw!Last(r.captured)
        BY <1>2, <2>4, <3>1, <3>6
      <4>2. r.captured # <<>> => ~(n < Brw!Last(r.captured))
        BY <1>2, <3>2, <3>6 DEF Brw!Overtaken
      <4> QED BY <3>3, <4>1, <4>2, LastIsLatest
    <3> QED BY <3>5, <3>6
  <2> QED BY <1>1, <2>3, <2>5, <2>6 DEF CapturedInv, Setup
<1> QED BY <1>4, <1>5, <1>6, <1>7, <1>8 DEF RunInv, x

\* A result that is neither a list nor replies.
LEMMA RunDone ==
  ASSUME NEW r \in RunState, RunInv(r), r.row.type \in {"session", "binary"}
  PROVE  RunInv(Returned(r))
<1> DEFINE x == Returned(r)
<1>1. SameList(x, r) /\ x.pc = "returned"
  BY DEF RunState, Returned, SameList
<1> HIDE DEF x
<1>2. Whole(x) /\ Timely(x)
  BY <1>1 DEF Whole, Timely, SameList, Brw!Paged
<1> QED BY <1>1, <1>2, RunReturned DEF RunInv, SameList, x

\* The replies are handed over: all of them, or the last.
LEMMA RunHandedOver ==
  ASSUME NEW r \in RunState, RunInv(r), r.pc = "act", r.step > Len(r.row.steps),
         r.row.type = "xhr", r.captured # <<>>
  PROVE  RunInv(HandedOver(r))
<1> DEFINE x == HandedOver(r)
<1>1. /\ x.row = r.row /\ x.job = r.job /\ x.at = r.at /\ x.from = r.from /\ x.pc = "returned"
      /\ x.got = Brw!Bodies(r) /\ x.sent = r.sent
      /\ x.excuse = r.excuse \cup (IF r.flying # {} THEN {"late"} ELSE {})
  BY DEF RunState, HandedOver
<1> HIDE DEF x
<1>2. r.pc \notin Brw!Ended \cup {"failed", "expired"}
  BY DEF Brw!Ended
<1>3. Timely(x)
  <2>1. SUFFICES ASSUME Brw!Prompt(r.row) PROVE "late" \notin x.excuse
    BY <1>1 DEF Timely
  <2>2. ~Waiting(r)
    BY <2>1, PromptAsks
  <2>3. r.flying = {}
    BY <1>2, <2>1, <2>2 DEF RunInv, CapturedInv
  <2>4. "late" \notin r.excuse
    BY <1>2, <2>1 DEF RunInv, LateInv, Timely
  <2> QED BY <1>1, <2>3, <2>4
<1>4. ASSUME x.excuse = {} PROVE x.got = IF r.row.all THEN 1..r.sent ELSE {r.sent}
  <2>1. r.excuse = {} /\ r.flying = {}
    BY <1>1, <1>4
  <2>2. /\ Replies(r) = 1..r.sent
        /\ ~r.row.all => \A i \in DOMAIN r.captured : r.captured[i] <= Brw!Last(r.captured)
    BY <1>2, <2>1 DEF RunInv, CapturedInv
  <2>3. CASE r.row.all
    BY <1>1, <2>2, <2>3 DEF Brw!Bodies, Replies, Among
  <2>4. CASE ~r.row.all
    <3> DEFINE last == Brw!Last(r.captured)
    <3>1. last \in Replies(r)
      BY BodiesType DEF Replies, Among, Brw!Last
    <3>2. r.sent \in Nat /\ last \in 1..r.sent
      BY <2>2, <3>1, RunFacts
    <3>3. r.sent \in Replies(r)
      BY <2>2, <3>2
    <3>4. PICK i \in DOMAIN r.captured : r.captured[i] = r.sent
      BY <3>3 DEF Replies, Among
    <3>5. r.sent <= last
      BY <2>2, <2>4, <3>4
    <3> HIDE DEF last
    <3>6. last = r.sent
      BY <3>2, <3>5
    <3> QED BY <1>1, <2>4, <3>6 DEF Brw!Bodies, last
  <2> QED BY <2>3, <2>4
<1>5. Whole(x)
  BY <1>1, <1>4 DEF Whole, Brw!Paged
<1> QED BY <1>1, <1>3, <1>5, RunReturned DEF RunInv, x

\* The next page is read, or the pages are used up.
LEMMA RunReadOn ==
  ASSUME Asks, NEW r \in RunState, Placed(r), RunInv(r), r.row.type = "dom",
         \/ r.pc = "act" /\ r.step > Len(r.row.steps)
         \/ r.pc = "settle"
  PROVE  RunInv(Brw!ReadOn(r))
<1> DEFINE x == Brw!ReadOn(r)
<1>1. r.pc \notin Brw!Ended /\ r.pc \notin Setup /\ r.pc \notin {"failed", "expired"}
  BY DEF Brw!Ended, Setup
<1>2. CASE x = [r EXCEPT !.pc = "returned", !.excuse = @ \cup {"cut"}]
  <2>1. SameList(x, r) /\ x.pc = "returned" /\ x.excuse = r.excuse \cup {"cut"}
    BY <1>2 DEF RunState, SameList
  <2> HIDE DEF x
  <2>2. Whole(x)
    BY <1>1, <2>1, Unbroken DEF Whole, SameList
  <2>3. Timely(x)
    BY <1>1, <2>1 DEF RunInv, LateInv, Timely, SameList
  <2> QED BY <2>1, <2>2, <2>3, RunReturned DEF RunInv, SameList, x
<1>3. CASE x = [r EXCEPT !.pc = "read"]
  <2>1. SameList(x, r) /\ SameScreen(x, r) /\ SameReplies(x, r) /\ x.pc = "read"
    BY <1>3 DEF RunState, SameList, SameScreen, SameReplies
  <2> HIDE DEF x
  <2>2. NumberInv(x) /\ StepInv(x) /\ LateInv(x) /\ Whole(x)
    BY <1>1, <2>1 DEF RunInv, NumberInv, StepInv, LateInv, Timely, Whole, SameList, SameReplies
  <2>3. r.row \in AllRows /\ r.at \in Nat \ {0} /\ r.from \in Nat /\ r.read \in Nat
    BY RunFacts
  <2>4. NumberedInv(x)
    <3>1. SUFFICES ASSUME r.row.mode = "page", Sure(r) PROVE NumberedInv(x)
      BY <2>1 DEF NumberedInv, Sure, SameList, SameReplies
    <3>2. r.pc = "act" /\ r.step > Len(r.row.steps)
      BY <3>1 DEF Placed
    <3>3. \E i \in DOMAIN r.row.steps : r.row.steps[i] = "script"
      BY <2>3, <3>1 DEF Asks
    <3>4. ~Never(r.row.steps, r.step, "script")
      BY <3>2, <3>3, NotNever
    <3>5. ~Pending(r.row.steps, r.step, "submit", "script")
      BY <2>3, <3>1, <3>2, NothingPending DEF Asks, RunInv, StepInv
    <3>6. Brw!Prompt(r.row) => ~Waiting(r)
      BY <3>2, <3>3, PromptAsks
    <3>7. /\ r.at = r.from + r.read - 0
          /\ r.got = r.from..(r.from + r.read - 1)
          /\ IF r.read = 0 THEN r.previous = {}
             ELSE r.from + r.read - 1 <= Pages /\ r.previous = {r.from + r.read - 1}
          /\ r.coming # 0 => r.coming = r.at /\ ~r.login /\ (Brw!Prompt(r.row) => Waiting(r))
          /\ \/ r.login \/ r.coming = r.at \/ r.shown = r.at
             \/ Never(r.row.steps, r.step, "script")
             \/ Pending(r.row.steps, r.step, "submit", "script")
      BY <1>1, <3>1, <3>2 DEF RunInv, NumberedInv
    <3> QED BY <2>1, <3>4, <3>5, <3>6, <3>7 DEF NumberedInv, SameList, SameScreen
  <2>5. ClickedInv(x)
    <3>1. SUFFICES ASSUME r.row.mode \in {"click", "scroll"} PROVE ClickedInv(x)
      BY <2>1 DEF ClickedInv, SameList
    <3>2. CASE r.pc = "act"
      BY <1>1, <2>1, <3>1, <3>2 DEF RunInv, ClickedInv, SameList, SameScreen, Setup
    <3>3. CASE r.pc = "settle"
      BY <1>1, <2>1, <2>3, <3>1, <3>3 DEF RunInv, ClickedInv, SameList, SameScreen, Setup
    <3> QED BY <3>2, <3>3
  <2>6. CapturedInv(x)
    BY <2>1 DEF CapturedInv, SameList
  <2> QED BY <2>2, <2>4, <2>5, <2>6 DEF RunInv, x
<1> QED BY <1>2, <1>3 DEF Brw!ReadOn

\* What the screen shows a row that reads it.
LEMMA Shown ==
  ASSUME NEW r \in RunState
  PROVE  Brw!Visible(r) = IF r.login THEN {} ELSE Screen(r.row.mode, r.shown)
BY DEF Brw!Visible, Screen

LEMMA ScreenFacts ==
  ASSUME NEW n \in Nat
  PROVE  /\ Screen("page", n) = IF n \in 1..Pages THEN {n} ELSE {}
         /\ Screen("click", n) = IF n \in 1..Pages THEN {n} ELSE {}
         /\ n <= Pages => Screen("scroll", n) = 1..n
BY PagesType DEF Screen

\* A page more than was read before is a page that reading does not stop at.
LEMMA NextScreen ==
  ASSUME NEW n \in Nat, n < Pages, NEW mode \in {"click", "scroll"}
  PROVE  /\ Screen(mode, n + 1) \notin {{}, Screen(mode, n)}
         /\ 1..n \cup Screen(mode, n + 1) = 1..(n + 1)
<1>1. n + 1 \in Nat /\ n + 1 \in 1..Pages /\ n <= Pages /\ n + 1 <= Pages
  BY PagesType
<1>2. n + 1 \in Screen(mode, n + 1) /\ Screen(mode, n + 1) \subseteq 1..(n + 1)
  BY <1>1, ScreenFacts
<1>3. n + 1 \notin Screen(mode, n)
  <2>1. Screen(mode, n) \subseteq 1..n
    BY <1>1, ScreenFacts
  <2> QED BY <2>1
<1>4. 1..n \cup {n + 1} = 1..(n + 1)
  OBVIOUS
<1> QED BY <1>2, <1>3, <1>4

\* What reading finds of a list whose control is clicked, or that is scrolled.
LEMMA ClickedScreen ==
  ASSUME NEW r \in RunState, RunInv(r), r.pc = "read",
         r.row.type = "dom", r.row.mode \in {"click", "scroll"}
  PROVE  IF Brw!StopAt(r)
         THEN r.login \/ r.coming # 0 \/ r.read = Pages
         ELSE /\ ~r.login /\ r.coming \in {0, r.read + 1}
              /\ r.shown = r.read + 1 /\ r.read < Pages
<1>1. r.shown \in Nat /\ r.read \in Nat /\ Pages \in Nat /\ Pages >= 1 /\ r.login \in BOOLEAN
  BY RunFacts, PagesType
<1>2. r.pc \notin Brw!Ended
  BY DEF Brw!Ended
<1>3. r.read <= Pages /\ r.previous = Screen(r.row.mode, r.read)
  BY <1>2 DEF RunInv, ClickedInv
<1>4. CASE r.login
  <2>1. Brw!StopAt(r)
    BY <1>4, Shown DEF Brw!StopAt
  <2> QED BY <1>4, <2>1
<1>5. CASE ~r.login /\ r.read = 0
  <2>1. r.coming \in {0, 1} /\ r.shown = 1
    BY <1>2, <1>5 DEF RunInv, ClickedInv
  <2>2. r.shown = r.read + 1 /\ r.read + 1 = 1 /\ r.read < Pages
    BY <1>1, <1>5, <2>1
  <2>3. ~Brw!StopAt(r)
    BY <1>1, <1>3, <1>5, <2>2, Shown, NextScreen DEF Brw!StopAt
  <2> QED BY <1>5, <2>1, <2>2, <2>3
<1>6. CASE ~r.login /\ r.read > 0
  <2>1. IF r.coming # 0 THEN r.shown = r.read
        ELSE (r.shown = r.read + 1 /\ r.read < Pages) \/ (r.shown = r.read /\ r.read = Pages)
    BY <1>2, <1>6 DEF RunInv, ClickedInv
  <2>2. CASE r.shown = r.read
    <3>1. Brw!StopAt(r)
      BY <1>3, <1>6, <2>2, Shown DEF Brw!StopAt
    <3> QED BY <1>1, <2>1, <2>2, <3>1
  <2>3. CASE r.coming = 0 /\ r.shown = r.read + 1 /\ r.read < Pages
    <3>1. ~Brw!StopAt(r)
      BY <1>1, <1>3, <1>6, <2>3, Shown, NextScreen DEF Brw!StopAt
    <3> QED BY <1>6, <2>3, <3>1
  <2> QED BY <2>1, <2>2, <2>3
<1> QED BY <1>1, <1>4, <1>5, <1>6

\* What reading finds of a page asked for by its number, if it has come.
LEMMA NumberedScreen ==
  ASSUME NEW r \in RunState, RunInv(r), r.pc = "read",
         r.row.type = "dom", r.row.mode = "page", Sure(r), r.coming = 0
  PROVE  IF Brw!StopAt(r)
         THEN r.login \/ r.got = r.from..Pages
         ELSE ~r.login /\ r.at <= Pages /\ Brw!Visible(r) = {r.at}
<1>1. /\ r.shown \in Nat /\ r.read \in Nat /\ r.at \in Nat \ {0} /\ r.from \in Nat \ {0}
      /\ Pages \in Nat /\ r.login \in BOOLEAN
  BY RunFacts, PagesType
<1>2. r.pc \notin Brw!Ended
  BY DEF Brw!Ended
<1>3. /\ r.at = r.from + r.read
      /\ r.got = r.from..(r.from + r.read - 1)
      /\ IF r.read = 0 THEN r.previous = {}
         ELSE r.from + r.read - 1 <= Pages /\ r.previous = {r.from + r.read - 1}
      /\ r.login \/ r.shown = r.at
  <2>1. /\ r.at = r.from + r.read - 0
        /\ r.got = r.from..(r.from + r.read - 1)
        /\ IF r.read = 0 THEN r.previous = {}
           ELSE r.from + r.read - 1 <= Pages /\ r.previous = {r.from + r.read - 1}
        /\ r.login \/ r.coming = r.at \/ r.shown = r.at
    BY <1>2 DEF RunInv, NumberedInv
  <2>2. r.from + r.read - 0 = r.from + r.read /\ r.coming # r.at
    BY <1>1
  <2> QED BY <2>1, <2>2
<1>4. CASE r.login
  <2>1. Brw!StopAt(r)
    BY <1>4, Shown DEF Brw!StopAt
  <2> QED BY <1>4, <2>1
<1>5. CASE ~r.login /\ r.at <= Pages
  <2>1. Brw!Visible(r) = {r.at}
    BY <1>1, <1>3, <1>5, Shown, ScreenFacts
  <2>2. r.at \notin r.previous
    BY <1>1, <1>3
  <2>3. ~Brw!StopAt(r)
    BY <2>1, <2>2 DEF Brw!StopAt
  <2> QED BY <1>5, <2>1, <2>3
<1>6. CASE ~r.login /\ r.at > Pages
  <2>1. Brw!Visible(r) = {}
    BY <1>1, <1>3, <1>6, Shown, ScreenFacts
  <2>2. Brw!StopAt(r)
    BY <2>1 DEF Brw!StopAt
  <2>3. r.got = r.from..Pages
    <3>1. CASE r.read = 0
      <4>1. r.from..(r.from + r.read - 1) = {} /\ r.from..Pages = {}
        BY <1>1, <1>3, <1>6, <3>1
      <4> QED BY <1>3, <4>1
    <3>2. CASE r.read # 0
      <4>1. r.from + r.read - 1 = Pages
        BY <1>1, <1>3, <1>6, <3>2
      <4> QED BY <1>3, <4>1
    <3> QED BY <3>1, <3>2
  <2> QED BY <2>2, <2>3
<1> QED BY <1>1, <1>4, <1>5, <1>6

\* A list that is returned without an excuse ends at the last page.
LEMMA RunStopped ==
  ASSUME Asks, NEW r \in RunState, Placed(r), RunInv(r), r.pc \notin Brw!Ended,
         Brw!Paged(r.row), NEW x, SameList(x, r), x.pc = "returned", Timely(x),
         x.excuse = {} => r.got = r.from..Pages
  PROVE  RunInv(x)
<1>1. Brw!Prompt(r.row) => \E n \in 0..Pages : r.got = r.from..n
  BY Unbroken
<1>2. Whole(x)
  BY <1>1 DEF Whole, SameList, Brw!Paged
<1> QED BY <1>2, RunReturned DEF RunInv, SameList

\* A read of a page asked for by number does not come too early, if the row
\* asks at once and waits.
LEMMA PromptReads ==
  ASSUME NEW r \in RunState, RunInv(r), r.pc = "read", Brw!Prompt(r.row),
         r.row.type = "dom", r.row.mode = "page"
  PROVE  r.coming = 0 /\ "late" \notin Brw!Blame(r)
<1>1. r.pc \notin Brw!Ended \cup {"failed", "expired"} /\ ~Waiting(r) /\ Sure(r)
  BY DEF Brw!Ended, Waiting, Sure
<1>2. r.coming = 0
  BY <1>1 DEF RunInv, NumberedInv
<1>3. "late" \notin r.excuse
  BY <1>1 DEF RunInv, LateInv, Timely
<1> QED BY <1>2, <1>3 DEF Brw!Blame

LEMMA RunRead ==
  ASSUME Asks, NEW r \in RunState, Placed(r), RunInv(r), r.pc = "read", Brw!Paged(r.row)
  PROVE  /\ Brw!StopAt(r) => RunInv(Stopped(r))
         /\ ~Brw!StopAt(r) => RunInv(Turning(r))
<1>1. r.row.type = "dom" /\ r.row.mode \in {"click", "scroll", "page"}
  BY RunFacts, RowFacts DEF Brw!Paged
<1>2. r.pc \notin Brw!Ended /\ r.login \in BOOLEAN
  BY RunFacts DEF Brw!Ended
<1>3. ASSUME NEW x, x.row = r.row, x.excuse = Brw!Blame(r)
      PROVE  /\ Timely(x)
             /\ x.excuse = {} => ~r.login /\ r.coming = 0 /\ r.excuse = {}
  BY <1>1, <1>2, <1>3, PromptReads DEF Timely, Brw!Blame
<1>4. ASSUME Brw!StopAt(r) PROVE RunInv(Stopped(r))
  <2> DEFINE x == Stopped(r)
  <2>1. SameList(x, r) /\ x.pc = "returned" /\ x.excuse = Brw!Blame(r)
    BY DEF RunState, Stopped, SameList
  <2> HIDE DEF x
  <2>2. x.excuse = {} => ~r.login /\ r.coming = 0 /\ r.excuse = {}
    BY <1>3, <2>1 DEF SameList
  <2>3. ASSUME x.excuse = {} PROVE r.got = r.from..Pages
    <3>1. CASE r.row.mode = "page"
      BY <1>1, <1>4, <2>2, <2>3, <3>1, NumberedScreen DEF Sure
    <3>2. CASE r.row.mode \in {"click", "scroll"}
      <4>1. r.read = Pages
        BY <1>1, <1>4, <2>2, <2>3, <3>2, ClickedScreen
      <4> QED BY <1>1, <1>2, <3>2, <4>1 DEF RunInv, ClickedInv
    <3> QED BY <1>1, <3>1, <3>2
  <2>4. Timely(x)
    BY <1>3, <2>1 DEF SameList
  <2> QED BY <1>2, <2>1, <2>3, <2>4, RunStopped DEF x
<1>5. ASSUME ~Brw!StopAt(r) PROVE RunInv(Turning(r))
  <2> DEFINE m == Merged(r)
             x == Turning(r)
             v == Brw!Visible(r)
  <2>1. m \in RunState
    BY MergedType
  <2>2. /\ m.row = r.row /\ m.job = r.job /\ m.at = r.at /\ m.from = r.from
        /\ m.read = r.read + 1 /\ m.got = r.got \cup v /\ m.previous = v
        /\ SameScreen(m, r) /\ m.excuse = Brw!Blame(r)
    BY DEF RunState, Merged, SameScreen
  <2>3. /\ x.row = r.row /\ x.job = r.job /\ x.at = r.at /\ x.from = r.from
        /\ x.read = r.read + 1 /\ x.got = r.got \cup v /\ x.previous = v
        /\ SameScreen(x, r) /\ x.pc = "advance" /\ x.excuse = Brw!Blame(r)
    BY <2>1, <2>2 DEF RunState, Turning, SameScreen
  <2> HIDE DEF x, m, v
  <2>4. /\ r.read \in Nat /\ r.from \in Nat \ {0} /\ r.at \in Nat \ {0} /\ Pages \in Nat
    BY RunFacts, PagesType
  <2>5. x.pc \notin Setup \cup {"act", "read", "settle"} \cup Brw!Ended
    BY <2>3 DEF Setup, Brw!Ended
  <2>6. NumberInv(x) /\ StepInv(x) /\ LateInv(x) /\ Whole(x) /\ CapturedInv(x)
    BY <1>1, <1>3, <2>3 DEF RunInv, NumberInv, StepInv, LateInv, Whole, CapturedInv
  <2>7. NumberedInv(x)
    <3>1. SUFFICES ASSUME r.row.mode = "page", Sure(x) PROVE NumberedInv(x)
      BY <2>3 DEF NumberedInv
    <3>2. Sure(r) /\ r.coming = 0
      BY <1>1, <1>3, <2>3, <3>1, PromptReads DEF Sure
    <3>3. r.at <= Pages /\ v = {r.at}
      BY <1>1, <1>5, <3>1, <3>2, NumberedScreen DEF v
    <3>4. r.at = r.from + r.read - 0 /\ r.got = r.from..(r.from + r.read - 1)
      BY <1>1, <1>2, <3>1, <3>2 DEF RunInv, NumberedInv
    <3>5. r.from..(r.from + r.read - 1) \cup {r.from + r.read} = r.from..(r.from + (r.read + 1) - 1)
      BY <2>4
    <3>6. /\ r.at = r.from + (r.read + 1) - 1 /\ r.at = r.from + r.read
          /\ r.read + 1 > 0 /\ r.read + 1 # 0
      BY <2>4, <3>4
    <3> QED BY <2>3, <2>5, <3>3, <3>4, <3>5, <3>6 DEF NumberedInv, SameScreen
  <2>8. ClickedInv(x)
    <3>1. SUFFICES ASSUME r.row.mode \in {"click", "scroll"} PROVE ClickedInv(x)
      BY <2>3 DEF ClickedInv
    <3>2. ~r.login /\ r.coming \in {0, r.read + 1} /\ r.shown = r.read + 1 /\ r.read < Pages
      BY <1>1, <1>5, <3>1, ClickedScreen
    <3>3. r.from = 1 /\ r.got = 1..r.read
      BY <1>1, <1>2, <3>1 DEF RunInv, ClickedInv
    <3>4. v = Screen(r.row.mode, r.read + 1)
      BY <3>2, Shown DEF v
    <3>5. r.got \cup v = 1..(r.read + 1)
      BY <2>4, <3>1, <3>2, <3>3, <3>4, NextScreen
    <3>6. r.read + 1 <= Pages /\ r.read + 1 > 0
      BY <2>4, <3>2
    <3> QED BY <2>3, <2>5, <3>2, <3>3, <3>4, <3>5, <3>6 DEF ClickedInv, SameScreen
  <2> QED BY <2>6, <2>7, <2>8 DEF RunInv, x
<1> QED BY <1>4, <1>5

LEMMA RunHanded ==
  ASSUME NEW r \in RunState, RunInv(r), r.row.type = "dom", ~Brw!Paged(r.row)
  PROVE  RunInv(Handed(r))
<1> DEFINE m == Merged(r)
           x == Handed(r)
<1>1. m \in RunState
  BY MergedType
<1>2. m.row = r.row /\ m.job = r.job /\ m.at = r.at /\ m.from = r.from
  BY DEF RunState, Merged
<1>3. x.row = r.row /\ x.job = r.job /\ x.at = r.at /\ x.from = r.from /\ x.pc = "returned"
  BY <1>1, <1>2 DEF RunState, Handed
<1> HIDE DEF x
<1>4. Whole(x) /\ Timely(x)
  BY <1>3 DEF Whole, Timely, Brw!Paged
<1> QED BY <1>3, <1>4, RunReturned DEF RunInv, x

\* The page number counts up, the control is clicked, the list is scrolled.
LEMMA RunAdvanced ==
  ASSUME Asks, NEW r \in RunState, Placed(r), RunInv(r), r.pc = "advance", r.row.type = "dom"
  PROVE  /\ r.row.mode = "page" => RunInv(Numbered(r))
         /\ r.row.mode = "click" /\ ~Brw!Control(r) => RunInv(Stopped(r))
         /\ r.row.mode \in {"click", "scroll"} => RunInv(Clicked(r))
<1>1. /\ r.read \in Nat /\ r.from \in Nat \ {0} /\ r.at \in Nat \ {0} /\ r.shown \in Nat
      /\ Pages \in Nat /\ r.login \in BOOLEAN
  BY RunFacts, PagesType
<1>2. r.pc \notin Brw!Ended \cup {"failed", "expired"}
  BY DEF Brw!Ended
<1>3. ASSUME r.row.mode = "page" PROVE RunInv(Numbered(r))
  <2> DEFINE x == Numbered(r)
  <2>1. /\ x.row = r.row /\ x.job = r.job /\ x.at = r.at + 1 /\ x.from = r.from
        /\ x.read = r.read /\ x.got = r.got /\ x.previous = r.previous /\ x.pc = "goto"
        /\ x.excuse = r.excuse
    BY DEF RunState, Numbered
  <2> HIDE DEF x
  <2>2. x.pc \notin {"act", "read", "advance"}
    BY <2>1
  <2>3. r.job.mode = "page"
    BY <1>3, ListRow DEF RunInv
  <2>4. NumberInv(x) /\ StepInv(x) /\ LateInv(x) /\ Whole(x) /\ ClickedInv(x) /\ CapturedInv(x)
    BY <1>2, <1>3, <2>1, <2>3
    DEF RunInv, NumberInv, StepInv, LateInv, Timely, Whole, ClickedInv, CapturedInv
  <2>5. NumberedInv(x)
    <3>1. SUFFICES ASSUME Sure(r) PROVE NumberedInv(x)
      BY <2>1 DEF NumberedInv, Sure
    <3>2. /\ r.at = r.from + r.read - 1
          /\ r.got = r.from..(r.from + r.read - 1)
          /\ IF r.read = 0 THEN r.previous = {}
             ELSE r.from + r.read - 1 <= Pages /\ r.previous = {r.from + r.read - 1}
      BY <1>2, <1>3, <3>1 DEF RunInv, NumberedInv
    <3>3. x.at = x.from + x.read - 0
      BY <1>1, <2>1, <3>2
    <3> QED BY <2>1, <2>2, <3>2, <3>3 DEF NumberedInv
  <2> QED BY <2>4, <2>5 DEF RunInv, x
<1>4. ASSUME r.row.mode \in {"click", "scroll"}
      PROVE  /\ r.from = 1 /\ r.got = 1..r.read /\ r.read <= Pages /\ r.read > 0
             /\ r.previous = Screen(r.row.mode, r.read)
             /\ r.login \/ r.shown = r.read
  BY <1>2, <1>4 DEF RunInv, ClickedInv
<1>5. ASSUME r.row.mode = "click", ~Brw!Control(r) PROVE RunInv(Stopped(r))
  <2> DEFINE x == Stopped(r)
  <2>1. SameList(x, r) /\ x.pc = "returned" /\ x.excuse = Brw!Blame(r)
    BY DEF RunState, Stopped, SameList
  <2> HIDE DEF x
  <2>2. ASSUME x.excuse = {} PROVE r.got = r.from..Pages
    <3>1. ~r.login
      BY <2>1, <2>2 DEF Brw!Blame
    <3>2. r.read = Pages
      BY <1>1, <1>4, <1>5, <3>1 DEF Brw!Control
    <3> QED BY <1>4, <1>5, <3>2
  <2>3. Brw!Paged(r.row) /\ Timely(x)
    BY <1>5, <2>1 DEF Brw!Paged, Timely, SameList
  <2> QED BY <1>2, <2>1, <2>2, <2>3, RunStopped DEF x
<1>6. ASSUME r.row.mode \in {"click", "scroll"} PROVE RunInv(Clicked(r))
  <2> DEFINE x == Clicked(r)
  <2>1. /\ SameList(x, r) /\ x.shown = r.shown /\ x.login = r.login /\ x.pc = "settle"
        /\ x.coming = IF Brw!Control(r) THEN r.shown + 1 ELSE 0
    BY DEF RunState, Clicked, SameList
  <2> HIDE DEF x
  <2>2. NumberInv(x) /\ StepInv(x) /\ LateInv(x) /\ Whole(x) /\ NumberedInv(x) /\ CapturedInv(x)
    BY <1>6, <2>1
    DEF RunInv, NumberInv, StepInv, LateInv, Timely, Whole, NumberedInv, CapturedInv, SameList
  <2>3. IF x.coming # 0 THEN ~x.login /\ x.shown = x.read /\ x.coming = x.read + 1 /\ x.read < Pages
        ELSE x.login \/ (x.shown = x.read /\ x.read = Pages)
    <3>1. CASE Brw!Control(r)
      BY <1>1, <1>4, <1>6, <2>1, <3>1 DEF Brw!Control, SameList
    <3>2. CASE ~Brw!Control(r)
      BY <1>1, <1>4, <1>6, <2>1, <3>2 DEF Brw!Control, SameList
    <3> QED BY <3>1, <3>2
  <2>4. x.pc \notin Setup \cup {"act", "read", "advance"}
    BY <2>1 DEF Setup
  <2>5. ClickedInv(x)
    BY <1>4, <1>6, <2>1, <2>3, <2>4 DEF ClickedInv, SameList
  <2> QED BY <2>2, <2>5 DEF RunInv, x
<1> QED BY <1>3, <1>5, <1>6

\* "Nothing followed the last page".
LEMMA RunExhausted ==
  ASSUME Asks, NEW r \in RunState, Placed(r), RunInv(r), r.pc = "settle"
  PROVE  RunInv(Exhausted(r))
<1> DEFINE x == Exhausted(r)
<1>1. /\ SameList(x, r) /\ x.pc = "returned"
      /\ x.excuse = Brw!Blame(r) \cup (IF Pages \in r.got THEN {} ELSE {"late"})
  BY DEF RunState, Exhausted, SameList
<1> HIDE DEF x
<1>2. r.row.type = "dom" /\ r.row.mode \in {"click", "scroll"}
  BY RunFacts, RowFacts DEF Placed, Paging
<1>3. r.pc \notin Brw!Ended /\ r.read \in Nat /\ Pages \in Nat
  BY RunFacts, PagesType DEF Brw!Ended
<1>4. r.from = 1 /\ r.got = 1..r.read /\ r.read <= Pages
  BY <1>2, <1>3 DEF RunInv, ClickedInv
<1>5. ASSUME x.excuse = {} PROVE r.got = r.from..Pages
  <2>1. Pages \in 1..r.read
    BY <1>1, <1>4, <1>5
  <2>2. r.read = Pages
    BY <1>3, <1>4, <2>1
  <2> QED BY <1>4, <2>2
<1>6. Brw!Paged(r.row) /\ Timely(x)
  BY <1>1, <1>2 DEF Brw!Paged, Timely, SameList
<1> QED BY <1>1, <1>3, <1>5, <1>6, RunStopped DEF x

\* A login, and the attempt after it.
LEMMA RunLogin ==
  ASSUME Asks, NEW r \in RunState, Placed(r), RunInv(r)
  PROVE  RunInv(Brw!LoginRun(r)) /\ RunInv(Brw!Again(r))
<1>1. r.at \in Nat \ {0}
  BY RunFacts
<1>2. r.job.mode # "page" => r.at = 1 /\ r.from = 1
  BY DEF RunInv, NumberInv
<1>3. RunInv(Brw!LoginRun(r))
  <2> DEFINE x == Brw!LoginRun(r)
  <2>1. /\ x.pc = "look" /\ x.job = r.job /\ x.row = LoginRow /\ x.at = r.at /\ x.from = 1
        /\ x.read = 0 /\ x.got = {} /\ x.previous = {} /\ x.flying = {} /\ x.captured = <<>>
        /\ x.excuse = {}
    BY DEF Brw!LoginRun, Brw!Start
  <2>2. x.row.type = "session"
    BY <2>1 DEF Asks
  <2> HIDE DEF x
  <2>3. x.from \in Nat \ {0}
    BY <2>1
  <2> QED BY <1>2, <2>1, <2>2, <2>3, RunStarts DEF x
<1>4. RunInv(Brw!Again(r))
  <2> DEFINE x == Brw!Again(r)
  <2>1. /\ x.pc = "look" /\ x.job = r.job /\ x.row = r.job /\ x.at = r.at /\ x.from = r.at
        /\ x.read = 0 /\ x.got = {} /\ x.previous = {} /\ x.flying = {} /\ x.captured = <<>>
        /\ x.excuse = {}
    BY DEF Brw!Again, Brw!Start
  <2> HIDE DEF x
  <2> QED BY <1>1, <1>2, <2>1, RunStarts DEF x
<1> QED BY <1>3, <1>4

RunsInv == \A p \in Runners : RunInv(run[p])

LEMMA RunsMove ==
  ASSUME BrowserTypeOK, RunsInv, NEW p \in Runners, NEW x, Moves(p, x), RunInv(x)
  PROVE  RunsInv'
<1>1. run'[p] = x /\ \A q \in Runners : q # p => run'[q] = run[q]
  BY Updated DEF Moves
<1>2. ASSUME NEW q \in Runners PROVE RunInv(run'[q])
  BY <1>1 DEF RunsInv
<1> QED BY <1>2 DEF RunsInv

LEMMA RunsEnd ==
  ASSUME BrowserTypeOK, RunsInv, NEW p \in Runners, NEW e \in {"failed", "expired"},
         Moves(p, [run[p] EXCEPT !.pc = e])
  PROVE  RunsInv'
<1> DEFINE r == run[p]
           x == [r EXCEPT !.pc = e]
<1>1. r \in RunState /\ RunInv(r)
  BY RunOf DEF RunsInv
<1>2. x.job = r.job /\ x.at = r.at /\ x.from = r.from /\ x.pc = e
  BY <1>1 DEF RunState
<1> HIDE DEF x
<1>3. RunInv(x)
  BY <1>1, <1>2, RunEnded DEF RunInv
<1> QED BY <1>3, RunsMove DEF x

LEMMA RunsTurned ==
  ASSUME Asks, BrowserTypeOK, RunsInv, NEW p \in Runners, Turned(p)
  PROVE  RunsInv'
<1>1. RunInv(Brw!LoginRun(run[p]))
  BY RunOf, RunLogin DEF RunsInv
<1> QED BY <1>1, RunsEnd, RunsMove DEF Turned

LEMMA RunsSetup ==
  ASSUME BrowserTypeOK, RunsInv, NEW p \in Runners,
         Brw!LookForState(p) \/ Brw!NewContext(p) \/ Brw!Goto(p)
  PROVE  RunsInv'
<1> DEFINE r == run[p]
<1>1. r \in RunState /\ RunInv(r)
  BY RunOf DEF RunsInv
<1>2. CASE Brw!LookForState(p)
  <2>1. PICK e \in {"fresh", "load"} : Moves(p, [r EXCEPT !.pc = e])
    BY <1>2, LookMoves
  <2> DEFINE x == [r EXCEPT !.pc = e]
  <2>2. SameList(x, r) /\ SameReplies(x, r) /\ x.pc = e
    BY <1>1 DEF RunState, SameList, SameReplies
  <2>3. r.pc \in Setup /\ e \in Setup
    BY <1>2, LookMoves DEF Setup
  <2> HIDE DEF x
  <2>4. RunInv(x)
    BY <1>1, <2>2, <2>3, RunSetup
  <2> QED BY <2>1, <2>4, RunsMove DEF x
<1>3. CASE Brw!NewContext(p)
  <2>1. CASE Moves(p, [r EXCEPT !.pc = "failed"])
    BY <2>1, RunsEnd
  <2>2. CASE \E j : Moves(p, [r EXCEPT !.pc = "goto", !.jar = j])
    <3>1. PICK j : Moves(p, [r EXCEPT !.pc = "goto", !.jar = j])
      BY <2>2
    <3> DEFINE x == [r EXCEPT !.pc = "goto", !.jar = j]
    <3>2. SameList(x, r) /\ SameReplies(x, r) /\ x.pc = "goto"
      BY <1>1 DEF RunState, SameList, SameReplies
    <3>3. r.pc \in Setup /\ "goto" \in Setup
      BY <1>3, NewContextMoves DEF Setup
    <3> HIDE DEF x
    <3>4. RunInv(x)
      BY <1>1, <3>2, <3>3, RunSetup
    <3> QED BY <3>1, <3>4, RunsMove DEF x
  <2> QED BY <1>3, <2>1, <2>2, NewContextMoves
<1>4. CASE Brw!Goto(p)
  BY <1>1, <1>4, GotoMoves, RunLoaded, RunsMove
<1> QED BY <1>2, <1>3, <1>4

LEMMA RunsAct ==
  ASSUME Asks, BrowserTypeOK, RunsInv, NEW p \in Runners,
         Brw!Act(p) \/ Brw!Submit(p) \/ Brw!Rejected(p)
  PROVE  RunsInv'
<1> DEFINE r == run[p]
<1>1. r \in RunState /\ Placed(r) /\ RunInv(r)
  BY RunOf DEF RunsInv
<1>2. CASE Brw!Act(p)
  <2>1. CASE Moves(p, [r EXCEPT !.pc = "failed"])
    BY <2>1, RunsEnd
  <2>2. CASE Moves(p, Stepped(r))
    <3>1. RunInv(Stepped(r))
      BY <1>1, <1>2, ActMoves, RunStepped
    <3> QED BY <2>2, <3>1, RunsMove
  <2> QED BY <1>2, <2>1, <2>2, ActMoves
<1>3. CASE Brw!Submit(p)
  <2> DEFINE x == [r EXCEPT !.jar = issued + 1, !.login = FALSE, !.idle = FALSE, !.step = @ + 1]
  <2>1. r.pc = "act" /\ r.row.steps[r.step] = "submit" /\ r.login /\ Moves(p, x)
    BY <1>3, SubmitMoves
  <2>2. r.step <= Len(r.row.steps)
    BY <1>3 DEF Brw!Submit
  <2>3. /\ SameList(x, r) /\ SameReplies(x, r) /\ x.pc = "act" /\ x.step = r.step + 1
        /\ x.shown = r.shown /\ x.coming = r.coming
        /\ x.idle \in BOOLEAN /\ (x.idle => r.idle)
    BY <1>1, <2>1 DEF RunState, SameList, SameReplies
  <2> HIDE DEF x
  <2>4. RunInv(x)
    BY <1>1, <2>1, <2>2, <2>3, RunForm
  <2> QED BY <2>1, <2>4, RunsMove
<1>4. CASE Brw!Rejected(p)
  <2> DEFINE x == [r EXCEPT !.step = @ + 1]
  <2>1. r.pc = "act" /\ r.row.steps[r.step] = "submit" /\ r.login /\ Moves(p, x)
    BY <1>4, RejectedMoves
  <2>2. r.step <= Len(r.row.steps)
    BY <1>4 DEF Brw!Rejected
  <2>3. /\ SameList(x, r) /\ SameReplies(x, r) /\ x.pc = "act" /\ x.step = r.step + 1
        /\ x.shown = r.shown /\ x.coming = r.coming
        /\ x.idle \in BOOLEAN /\ (x.idle => r.idle)
    BY <1>1, <2>1 DEF RunState, SameList, SameReplies
  <2> HIDE DEF x
  <2>4. RunInv(x)
    BY <1>1, <2>1, <2>2, <2>3, RunForm
  <2> QED BY <2>1, <2>4, RunsMove
<1> QED BY <1>2, <1>3, <1>4

LEMMA RunsScreen ==
  ASSUME BrowserTypeOK, RunsInv, NEW p \in Runners,
         Brw!Render(p) \/ Brw!ReplyArrives(p) \/ Brw!Quiet(p)
  PROVE  RunsInv'
<1>1. run[p] \in RunState /\ RunInv(run[p])
  BY RunOf DEF RunsInv
<1>2. CASE Brw!Render(p)
  BY <1>1, <1>2, RenderMoves, RunRendered, RunsMove
<1>3. CASE Brw!ReplyArrives(p)
  BY <1>1, <1>3, ReplyMoves, RunReplied, RunsMove
<1>4. CASE Brw!Quiet(p)
  BY <1>1, <1>4, QuietMoves, RunQuiet, RunsMove
<1> QED BY <1>2, <1>3, <1>4

LEMMA RunsDone ==
  ASSUME Asks, BrowserTypeOK, RunsInv, NEW p \in Runners, Brw!BehaviourDone(p)
  PROVE  RunsInv'
<1> DEFINE r == run[p]
<1>1. r \in RunState /\ Placed(r) /\ RunInv(r) /\ r.pc = "act" /\ r.step > Len(r.row.steps)
  BY RunOf, DoneMoves DEF RunsInv
<1>2. CASE Turned(p)
  BY <1>2, RunsTurned
<1>3. CASE r.row.type \in {"session", "binary"} /\ Moves(p, Returned(r))
  BY <1>1, <1>3, RunDone, RunsMove
<1>4. CASE r.row.type = "xhr" /\ r.captured # <<>> /\ Moves(p, HandedOver(r))
  BY <1>1, <1>4, RunHandedOver, RunsMove
<1>5. CASE Moves(p, Brw!Again(r))
  BY <1>1, <1>5, RunLogin, RunsMove
<1>6. CASE r.row.type = "dom" /\ Moves(p, Brw!ReadOn(r))
  BY <1>1, <1>6, RunReadOn, RunsMove
<1> QED BY <1>2, <1>3, <1>4, <1>5, <1>6, DoneMoves

LEMMA RunsPages ==
  ASSUME Asks, BrowserTypeOK, RunsInv, NEW p \in Runners,
         \/ Brw!Read(p) \/ Brw!Advance(p) \/ Brw!Settle(p) \/ Brw!NothingFollows(p)
  PROVE  RunsInv'
<1> DEFINE r == run[p]
<1>1. r \in RunState /\ Placed(r) /\ RunInv(r)
  BY RunOf DEF RunsInv
<1>2. CASE Brw!Read(p)
  <2>1. r.pc = "read" /\ r.row.type = "dom"
    BY <1>2, ReadMoves
  <2>2. Brw!Paged(r.row) /\ Brw!StopAt(r) => RunInv(Stopped(r))
    BY <1>1, <2>1, RunRead
  <2>3. Brw!Paged(r.row) /\ ~Brw!StopAt(r) => RunInv(Turning(r))
    BY <1>1, <2>1, RunRead
  <2>4. ~Brw!Paged(r.row) => RunInv(Handed(r))
    BY <1>1, <2>1, RunHanded
  <2> QED BY <1>2, <2>2, <2>3, <2>4, ReadMoves, RunsMove
<1>3. CASE Brw!Advance(p)
  BY <1>1, <1>3, AdvanceMoves, RunAdvanced, RunsMove
<1>4. CASE Brw!Settle(p)
  BY <1>1, <1>4, SettleMoves, RunReadOn, RunsMove
<1>5. CASE Brw!NothingFollows(p)
  BY <1>1, <1>5, NothingMoves, RunExhausted, RunsMove
<1> QED BY <1>2, <1>3, <1>4, <1>5

LEMMA RunsInit ==
  ASSUME Brw!Init PROVE RunsInv
<1>1. PICK j : run = [p \in Runners |-> Brw!Start(j[p])]
  BY DEF Brw!Init
<1>2. ASSUME NEW p \in Runners PROVE RunInv(run[p])
  <2> DEFINE x == run[p]
  <2>1. /\ x.pc = "look" /\ x.job = j[p] /\ x.row = j[p] /\ x.at = 1 /\ x.from = 1
        /\ x.read = 0 /\ x.got = {} /\ x.previous = {} /\ x.flying = {} /\ x.captured = <<>>
        /\ x.excuse = {}
    BY <1>1 DEF Brw!Start
  <2> HIDE DEF x
  <2>2. x.from \in Nat \ {0}
    BY <2>1
  <2>3. RunInv(x)
    BY <2>1, <2>2, RunStarts
  <2> QED BY <2>3 DEF x
<1> QED BY <1>2 DEF RunsInv

LEMMA RunsNext ==
  ASSUME Asks, BrowserTypeOK, RunsInv, [Brw!Next]_browser PROVE RunsInv'
<1>1. ASSUME NEW p \in Runners, Brw!Step(p) PROVE RunsInv'
  <2>1. CASE Brw!StepTimesOut(p)
    BY <2>1, TimesOutMoves, RunsTurned
  <2> QED BY <1>1, <2>1, RunsSetup, RunsAct, RunsDone, RunsPages DEF Brw!Step
<1>2. ASSUME NEW p \in Runners, Brw!Render(p) \/ Brw!ReplyArrives(p) \/ Brw!Quiet(p) \/ Brw!BrowserDies(p)
      PROVE  RunsInv'
  <2>1. CASE Brw!BrowserDies(p)
    BY <2>1, DiesMoves, RunsEnd
  <2> QED BY <1>2, <2>1, RunsScreen
<1>3. CASE UNCHANGED run
  BY <1>3 DEF RunsInv
<1> QED BY <1>1, <1>2, <1>3 DEF Brw!Next, Brw!SessionDies, browser

LEMMA BrowserInvariant == Asks => (Spec => []BrowserInv)
<1> SUFFICES ASSUME Asks PROVE Spec => []BrowserInv
  OBVIOUS
<1>1. Init => BrowserInv
  BY BrowserTypeInit, RunsInit DEF Init, BrowserInv, RunsInv
<1>2. BrowserInv /\ [Next]_vars => BrowserInv'
  BY BrowserEngineStep, BrowserTypeNext, RunsNext DEF BrowserInv, RunsInv, Next, vars
<1> QED BY <1>1, <1>2, PTL DEF Spec

\* Whatever is under way on the page while it is read, and however often the
\* session dies under it: a paged row that asks for its page at once, and then
\* waits, returns an unbroken run of pages from the one it began at
\* (browser.py, _collect_dom and _advance).
THEOREM PagesUnbroken == Asks => (Spec => []Gapless)
<1> SUFFICES ASSUME Asks PROVE Spec => []Gapless
  OBVIOUS
<1>1. BrowserInv => Gapless
  BY DEF BrowserInv, RunInv, Whole, Gapless, Brw!Gapless
<1> QED BY <1>1, BrowserInvariant, PTL

\* Of any row, waits or none: a result that says nothing of an expired session,
\* a late or overtaken answer or pages cut off ends at the last page of the
\* site, or has the reply to the last request the page made (every reply, with
\* 'pick' of 'all'); and a row that asks at once, and then waits, is not late
\* (browser.py, _collect_page, _collect_dom and the pick of the replies).
THEOREM ResultWholeOrNamed == Asks => (Spec => []WholeOrNamed)
<1> SUFFICES ASSUME Asks PROVE Spec => []WholeOrNamed
  OBVIOUS
<1>1. ASSUME NEW r, RunInv(r), r.pc = "returned"
      PROVE  /\ r.excuse = {} =>
                  /\ Brw!Paged(r.row) => r.got = r.from..Pages
                  /\ r.row.type = "xhr" => r.got = IF r.row.all THEN 1..r.sent ELSE {r.sent}
             /\ /\ Brw!Prompt(r.row)
                /\ r.row.type = "xhr" \/ (Brw!Paged(r.row) /\ r.row.mode = "page")
                => "late" \notin r.excuse
  BY <1>1 DEF RunInv, Whole, LateInv, Timely, Brw!Paged
<1>2. BrowserInv => WholeOrNamed
  BY <1>1 DEF BrowserInv, WholeOrNamed, Brw!WholeOrNamed
<1> QED BY <1>2, BrowserInvariant, PTL
=============================================================================
