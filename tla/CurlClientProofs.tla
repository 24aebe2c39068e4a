-------------------------- MODULE CurlClientProofs --------------------------
(***************************************************************************)
(* Proofs about CurlClient for any number of threads, CurlManagers,        *)
(* requests and any limits: wait_rsp_ is exact, the limits hold although   *)
(* they are tested outside of the locks, a CurlRequest is in one place at  *)
(* a time, and no accepted request is stranded.                            *)
(***************************************************************************)
EXTENDS CurlClient, FiniteSetTheorems, SequenceTheorems, TLAPS

-----------------------------------------------------------------------------
(* The inductive invariant.                                                *)

NoTwice(s) == \A i, j \in DOMAIN s : i # j => s[i] # s[j]

\* What a thread and an I/O thread hold, by where they are.
ControlInv ==
    /\ \A u \in Users :
          /\ user[u].pc = "idle" => user[u].req = None
          /\ user[u].pc \notin {"idle", "notify"} => user[u].req # None
    /\ \A m \in Managers : io[m].req # None <=> io[m].pc \in {"send", "after"}

\* Requests that wait, are on their way to libcurl, run or are finished are
\* due, and each is in one of these places.
DueInv ==
    /\ NoTwice(waiting)
    /\ \A r \in Elements(waiting) :
          /\ r \in due
          /\ \A m \in Managers : r \notin active[m] /\ r \notin finished[m] /\ io[m].req # r
    /\ \A m \in Managers :
          /\ active[m] \subseteq due /\ finished[m] \subseteq due
          /\ \A r \in active[m] : r \notin finished[m]
          /\ io[m].pc = "send" => io[m].req \in due
    /\ \A m, n \in Managers :
          /\ io[m].req \notin active[n] /\ io[m].req \notin finished[n]
          /\ m # n => /\ \A r \in active[m] \cup finished[m] : r \notin active[n] /\ r \notin finished[n]
                      /\ io[m].req # None => io[m].req # io[n].req

\* Requests that are recycled, in the hands of a thread or called back are not
\* due, and each is in one of these places.
FreeInv ==
    /\ NoTwice(recycle)
    /\ \A m \in Managers : io[m].pc = "after" => io[m].req \notin due
    /\ \A r \in Elements(recycle) :
          /\ r \notin due
          /\ \A m \in Managers : io[m].req # r
          /\ \A u \in Users : user[u].req # r
    /\ \A u \in Users : user[u].req # None =>
          /\ user[u].req \notin due
          /\ \A m \in Managers : io[m].req # user[u].req
          /\ \A v \in Users : u # v => user[u].req # user[v].req

\* What requestings_ holds has been given to libcurl; until ExitHttpClient it
\* holds all of that, and no request is forgotten.
RunInv ==
    /\ \A r \in requestings :
          \E m \in Managers : r \in active[m] \/ r \in finished[m] \/ (io[m].pc = "after" /\ io[m].req = r)
    /\ exitPc = "no" =>
          /\ \A m \in Managers : active[m] \subseteq requestings /\ finished[m] \subseteq requestings
          /\ \A r \in due : \/ r \in Elements(waiting)
                            \/ \E m \in Managers : r \in active[m] \/ r \in finished[m] \/ io[m].req = r

CountInv == IsFiniteSet(due) /\ WaitRspExact

\* Threads past the test of wait_rsp_ that have not counted themselves yet, and
\* I/O threads past the test of isFull that have not added their request yet.
Counting == {u \in Users : user[u].pc = "counted"}
Taking == {m \in Managers : io[m].pc \in {"get", "send"}}

LimitInv ==
    /\ Len(waiting) <= MaxReqQueSize /\ Len(recycle) <= MaxTotalConns
    /\ IsFiniteSet(requestings)
    /\ Cardinality(requestings) + Cardinality(Taking) <= MaxTotalConns + Cardinality(Managers)
    /\ wait_rsp + Cardinality(Counting) <= MaxTotalConns + Cardinality(Users) - 1

IInv == TypeOK /\ ControlInv /\ DueInv /\ FreeInv /\ RunInv /\ CountInv /\ LimitInv

-----------------------------------------------------------------------------
(* Sequences without repetition.                                           *)

LEMMA ElementsAppend ==
  ASSUME NEW S, NEW s \in Seq(S), NEW x \in S, NoTwice(s), x \notin Elements(s)
  PROVE  /\ Append(s, x) \in Seq(S) /\ Len(Append(s, x)) = Len(s) + 1 /\ Len(s) \in Nat
         /\ Elements(Append(s, x)) = Elements(s) \cup {x}
         /\ NoTwice(Append(s, x))
<1>1. /\ Append(s, x) \in Seq(S) /\ DOMAIN Append(s, x) = 1..Len(s) + 1 /\ DOMAIN s = 1..Len(s)
      /\ Len(s) \in Nat /\ Append(s, x)[Len(s) + 1] = x /\ Len(Append(s, x)) = Len(s) + 1
      /\ \A i \in 1..Len(s) : Append(s, x)[i] = s[i]
  BY AppendProperties
<1>2. \A i \in 1..Len(s) + 1 : i \in 1..Len(s) \/ i = Len(s) + 1
  BY <1>1
<1>3. Len(s) + 1 \in 1..Len(s) + 1 /\ \A i \in 1..Len(s) : i \in 1..Len(s) + 1
  BY <1>1
<1>4. Elements(Append(s, x)) = Elements(s) \cup {x}
  BY <1>1, <1>2, <1>3 DEF Elements
<1>5. \A i \in 1..Len(s) : s[i] # x
  BY <1>1 DEF Elements
<1>6. NoTwice(Append(s, x))
  BY <1>1, <1>2, <1>5 DEF NoTwice
<1> QED BY <1>1, <1>4, <1>6

LEMMA ElementsTail ==
  ASSUME NEW S, NEW s \in Seq(S), s # <<>>, NoTwice(s)
  PROVE  /\ Tail(s) \in Seq(S) /\ Len(Tail(s)) = Len(s) - 1 /\ Len(s) \in Nat
         /\ Head(s) \in S /\ Head(s) \in Elements(s) /\ Head(s) \notin Elements(Tail(s))
         /\ Elements(s) = Elements(Tail(s)) \cup {Head(s)}
         /\ NoTwice(Tail(s))
<1>1. /\ Tail(s) \in Seq(S) /\ Len(Tail(s)) = Len(s) - 1 /\ Len(s) \in Nat /\ Len(s) >= 1
      /\ \A i \in 1..Len(s) - 1 : Tail(s)[i] = s[i + 1]
      /\ s[1] = Head(s) /\ DOMAIN s = 1..Len(s) /\ Head(s) \in S
  BY HeadTailProperties
<1>2. DOMAIN Tail(s) = 1..Len(s) - 1
  BY <1>1
<1>3. \A i \in DOMAIN Tail(s) : i + 1 \in DOMAIN s /\ i + 1 # 1 /\ i \in Int /\ Tail(s)[i] = s[i + 1]
  BY <1>1, <1>2
<1>4. 1 \in DOMAIN s /\ \A i \in DOMAIN s : i = 1 \/ (i - 1 \in DOMAIN Tail(s) /\ Tail(s)[i - 1] = s[i])
  BY <1>1, <1>2
<1>5. Elements(s) = Elements(Tail(s)) \cup {Head(s)}
  <2>1. ASSUME NEW y \in Elements(s) PROVE y \in Elements(Tail(s)) \cup {Head(s)}
    <3>1. PICK i \in DOMAIN s : y = s[i]
      BY DEF Elements
    <3>2. CASE i = 1
      BY <1>1, <3>1, <3>2
    <3>3. CASE i - 1 \in DOMAIN Tail(s) /\ Tail(s)[i - 1] = s[i]
      BY <3>1, <3>3 DEF Elements
    <3> QED BY <1>4, <3>2, <3>3
  <2>2. \A y \in Elements(Tail(s)) \cup {Head(s)} : y \in Elements(s)
    BY <1>1, <1>3, <1>4 DEF Elements
  <2> QED BY <2>1, <2>2
<1>6. Head(s) \notin Elements(Tail(s))
  BY <1>1, <1>3, <1>4 DEF Elements, NoTwice
<1>7. NoTwice(Tail(s))
  <2> SUFFICES ASSUME NEW i \in DOMAIN Tail(s), NEW j \in DOMAIN Tail(s), i # j
               PROVE  Tail(s)[i] # Tail(s)[j]
    BY DEF NoTwice
  <2>1. i + 1 # j + 1
    BY <1>3
  <2> QED BY <1>3, <2>1 DEF NoTwice
<1> QED BY <1>1, <1>5, <1>6, <1>7

\* A sequence without repetition has as many elements as its length.
LEMMA ElementsCount ==
  ASSUME NEW S, NEW s \in Seq(S), NoTwice(s)
  PROVE  Cardinality(Elements(s)) = Len(s) /\ Len(s) \in Nat
<1>1. Len(s) \in Nat /\ DOMAIN s = 1..Len(s) /\ s \in [1..Len(s) -> Elements(s)]
  BY SeqDef DEF Elements
<1>2. s \in Bijection(1..Len(s), Elements(s))
  BY <1>1 DEF Bijection, Injection, Surjection, NoTwice, Elements, IsInjective
<1>3. ExistsBijection(1..Len(s), Elements(s))
  BY <1>2 DEF ExistsBijection
<1> QED BY <1>1, <1>3, FS_CountingElements

\* HttpRecycleRequest::recycle drops the oldest request at the limit.
LEMMA RecycledHas ==
  ASSUME recycle \in Seq(Objects), NoTwice(recycle), NEW r \in Objects, r \notin Elements(recycle),
         Len(recycle) <= MaxTotalConns
  PROVE  /\ Recycled(r) \in Seq(Objects) /\ NoTwice(Recycled(r)) /\ Len(Recycled(r)) <= MaxTotalConns
         /\ \A x \in Elements(Recycled(r)) : x \in Elements(recycle) \/ x = r
<1> DEFINE t == IF Len(recycle) >= MaxTotalConns THEN Tail(recycle) ELSE recycle
<1>0. Len(recycle) \in Nat /\ MaxTotalConns \in Nat \ {0}
  BY CurlClientConstants
<1>1. /\ t \in Seq(Objects) /\ NoTwice(t) /\ Len(t) < MaxTotalConns
      /\ \A x \in Elements(t) : x \in Elements(recycle)
  <2>1. CASE Len(recycle) >= MaxTotalConns
    <3>1. recycle # <<>>
      BY <1>0, <2>1
    <3> QED BY <1>0, <2>1, <3>1, ElementsTail
  <2>2. CASE ~(Len(recycle) >= MaxTotalConns)
    BY <1>0, <2>2
  <2> QED BY <2>1, <2>2
<1>2. r \notin Elements(t)
  BY <1>1
<1>3. Recycled(r) = Append(t, r)
  BY DEF Recycled
<1> HIDE DEF t
<1>4. Append(t, r) \in Seq(Objects) /\ NoTwice(Append(t, r)) /\ Len(Append(t, r)) = Len(t) + 1 /\ Len(t) \in Nat
      /\ Elements(Append(t, r)) = Elements(t) \cup {r}
  BY <1>1, <1>2, ElementsAppend
<1> QED BY <1>0, <1>1, <1>3, <1>4

-----------------------------------------------------------------------------
(* What a step leaves alone.                                               *)

UserRecs == [pc : UserPcs, req : Objects \cup {None}, wait : BOOLEAN, ret : {0, 2, 3}, to : Managers]
IoRecs == [pc : {"idle", "check", "get", "send", "read", "after"}, wake : BOOLEAN,
           req : Objects \cup {None}, info : BOOLEAN, running : Nat, prev : Nat, early : BOOLEAN]

\* No thread changes hands with a request.
RequestsSame == \A u \in Users : user'[u].req = user[u].req

\* No I/O thread takes or gives a request.
HandsSame ==
    \A m \in Managers :
        /\ io'[m].req = io[m].req
        /\ io[m].pc \in {"send", "after"} => io'[m].pc = io[m].pc
        /\ io'[m].pc \in {"send", "after"} => io'[m].pc = io[m].pc

LEMMA DueFrame ==
  ASSUME DueInv, HandsSame, UNCHANGED <<waiting, due, active, finished>>
  PROVE  DueInv'
<1>1. NoTwice(waiting) /\ NoTwice(waiting)'
  BY DEF DueInv, NoTwice
<1>2. Elements(waiting)' = Elements(waiting)
  BY DEF Elements
<1> QED BY <1>1, <1>2 DEF DueInv, HandsSame

LEMMA FreeFrame ==
  ASSUME FreeInv, HandsSame, RequestsSame, UNCHANGED <<recycle, due>>
  PROVE  FreeInv'
<1>1. NoTwice(recycle) /\ NoTwice(recycle)'
  BY DEF FreeInv, NoTwice
<1>2. Elements(recycle)' = Elements(recycle)
  BY DEF Elements
<1> QED BY <1>1, <1>2 DEF FreeInv, HandsSame, RequestsSame

LEMMA RunFrame ==
  ASSUME RunInv, HandsSame, UNCHANGED <<requestings, active, finished, waiting, due>>,
         exitPc' = "no" => exitPc = "no"
  PROVE  RunInv'
<1>1. Elements(waiting)' = Elements(waiting)
  BY DEF Elements
<1> QED BY <1>1 DEF RunInv, HandsSame

LEMMA SameIo ==
  ASSUME io' = io
  PROVE  HandsSame
BY DEF HandsSame

LEMMA ControlIo ==
  ASSUME ControlInv, HandsSame, UNCHANGED user
  PROVE  ControlInv'
BY DEF ControlInv, HandsSame

\* Facts about the constants.
LEMMA Constants ==
  /\ IsFiniteSet(Users) /\ Cardinality(Users) \in Nat
  /\ IsFiniteSet(Managers) /\ Cardinality(Managers) \in Nat \ {0} /\ 0 \in Managers
  /\ MaxTotalConns \in Nat \ {0} /\ MaxReqQueSize \in Nat
<1>1. IsFiniteSet(Managers) /\ 0 \in Managers
  <2>1. Cardinality(Managers) \in Nat \ {0} /\ Managers = 0..Cardinality(Managers) - 1
    BY CurlClientConstants
  <2> QED BY <2>1, FS_Interval
<1> QED BY <1>1, CurlClientConstants, FS_CardinalityType

\* The sets the counters are compared with are finite.
LEMMA SomeUsers ==
  ASSUME NEW S \in SUBSET Users
  PROVE  IsFiniteSet(S) /\ Cardinality(S) \in Nat /\ Cardinality(S) <= Cardinality(Users)
BY Constants, FS_Subset, FS_CardinalityType

LEMMA SomeManagers ==
  ASSUME NEW S \in SUBSET Managers
  PROVE  IsFiniteSet(S) /\ Cardinality(S) \in Nat /\ Cardinality(S) <= Cardinality(Managers)
BY Constants, FS_Subset, FS_CardinalityType

\* Adding and removing one element.
LEMMA OneMore ==
  ASSUME NEW S, IsFiniteSet(S), NEW x, x \notin S
  PROVE  /\ IsFiniteSet(S \cup {x}) /\ Cardinality(S \cup {x}) = Cardinality(S) + 1
         /\ Cardinality(S) \in Nat
BY FS_AddElement, FS_CardinalityType

LEMMA OneLess ==
  ASSUME NEW S, IsFiniteSet(S), NEW x, x \in S
  PROVE  /\ IsFiniteSet(S \ {x}) /\ Cardinality(S \ {x}) = Cardinality(S) - 1
         /\ Cardinality(S) \in Nat
BY FS_RemoveElement, FS_CardinalityType

\* One element joins a set, leaves it, or neither.
One(b) == IF b THEN 1 ELSE 0

LEMMA ButOne ==
  ASSUME NEW A, NEW B, NEW x, IsFiniteSet(A), \A y : y # x => (y \in A <=> y \in B)
  PROVE  /\ IsFiniteSet(B) /\ Cardinality(A) \in Nat
         /\ Cardinality(B) = Cardinality(A) + One(x \in B) - One(x \in A)
<1>0. Cardinality(A) \in Nat
  BY FS_CardinalityType
<1>1. CASE x \in A /\ x \notin B
  <2>1. B = A \ {x}
    BY <1>1
  <2> QED BY <1>0, <1>1, <2>1, OneLess DEF One
<1>2. CASE x \notin A /\ x \in B
  <2>1. B = A \cup {x}
    BY <1>2
  <2> QED BY <1>0, <1>2, <2>1, OneMore DEF One
<1>3. CASE x \in A <=> x \in B
  <2>1. B = A
    BY <1>3
  <2> QED BY <1>0, <1>3, <2>1 DEF One
<1> QED BY <1>1, <1>2, <1>3

\* The counts when one thread takes a step.
LEMMA UserCounts ==
  ASSUME NEW u \in Users, \A v \in Users : v # u => user'[v] = user[v]
  PROVE  /\ Cardinality(Sending) \in Nat /\ Cardinality(Counting) \in Nat
         /\ Cardinality(Sending)' = Cardinality(Sending) + One(u \in Sending') - One(u \in Sending)
         /\ Cardinality(Counting)' = Cardinality(Counting) + One(u \in Counting') - One(u \in Counting)
         /\ Cardinality(Counting)' <= Cardinality(Users)
<1>1. Sending \in SUBSET Users /\ Counting \in SUBSET Users /\ Counting' \in SUBSET Users
  BY DEF Sending, Counting
<1>2. \A v : v # u => (v \in Sending <=> v \in Sending') /\ (v \in Counting <=> v \in Counting')
  BY DEF Sending, Counting
<1>3. IsFiniteSet(Sending) /\ IsFiniteSet(Counting) /\ Cardinality(Counting') <= Cardinality(Users)
  BY <1>1, SomeUsers
<1>4. Cardinality(Sending') = Cardinality(Sending) + One(u \in Sending') - One(u \in Sending)
      /\ Cardinality(Sending) \in Nat
  BY <1>2, <1>3, ButOne
<1>5. Cardinality(Counting') = Cardinality(Counting) + One(u \in Counting') - One(u \in Counting)
      /\ Cardinality(Counting) \in Nat
  BY <1>2, <1>3, ButOne
<1> QED BY <1>3, <1>4, <1>5

\* notifyAll changes nothing but blocked threads, which do not count.
LEMMA NotifiedSame ==
  ASSUME TypeOK, user' = Notified
  PROVE  /\ user' \in [Users -> UserRecs] /\ RequestsSame
         /\ \A u \in Users : user'[u].pc = (IF user[u].pc = "blocked" THEN "woken" ELSE user[u].pc)
         /\ Sending' = Sending /\ Counting' = Counting
<1>1. user \in [Users -> UserRecs]
  BY DEF TypeOK, UserRecs
<1>2. ASSUME NEW u \in Users
      PROVE  /\ user'[u] \in UserRecs /\ user'[u].req = user[u].req /\ user'[u].ret = user[u].ret
             /\ user'[u].pc = (IF user[u].pc = "blocked" THEN "woken" ELSE user[u].pc)
  <2>1. user'[u] = IF user[u].pc = "blocked" THEN [user[u] EXCEPT !.pc = "woken"] ELSE user[u]
    BY DEF Notified
  <2> QED BY <1>1, <2>1 DEF UserRecs, UserPcs
<1>3. user' \in [Users -> UserRecs]
  <2>1. user' = [u \in Users |-> user'[u]]
    BY DEF Notified
  <2> QED BY <1>2, <2>1
<1>4. Sending' = Sending /\ Counting' = Counting
  BY <1>2 DEF Sending, Counting
<1> QED BY <1>2, <1>3, <1>4 DEF RequestsSame

-----------------------------------------------------------------------------
(* Steps of SendHttpRequest.                                               *)

WithPc(f, u, p) == [f EXCEPT ![u].pc = p]

LEMMA SetPc ==
  ASSUME NEW f \in [Users -> UserRecs], NEW u \in Users, NEW p \in UserPcs
  PROVE  LET g == WithPc(f, u, p)
         IN  /\ g \in [Users -> UserRecs] /\ g[u].pc = p /\ g[u].req = f[u].req /\ g[u].ret = f[u].ret
             /\ \A v \in Users : v # u => g[v] = f[v]
BY DEF UserRecs, WithPc

\* A thread that keeps its request takes a step on its own.
LEMMA UserMoves ==
  ASSUME IInv, NEW u \in Users, user' \in [Users -> UserRecs],
         \A v \in Users : v # u => user'[v] = user[v],
         user'[u].req = user[u].req, user[u].pc \notin {"idle", "notify"}, user'[u].pc # "idle",
         mutex' \in BOOLEAN, wait_rsp' \in Int,
         UNCHANGED <<calls, total_req, waiting, requestings, recycle, io, active, finished, exitPc,
                     rounds, due>>,
         wait_rsp' = wait_rsp + One(u \in Sending') - One(u \in Sending),
         \/ wait_rsp' + One(u \in Counting') - One(u \in Counting) = wait_rsp
         \/ wait_rsp' < MaxTotalConns
  PROVE  IInv'
<1> TypeOK /\ ControlInv /\ DueInv /\ FreeInv /\ RunInv /\ CountInv /\ LimitInv
  BY DEF IInv
<1>1. TypeOK'
  BY DEF TypeOK, UserRecs
<1>2. HandsSame /\ RequestsSame
  BY SameIo DEF RequestsSame
<1>3. DueInv' /\ FreeInv' /\ RunInv'
  BY <1>2, DueFrame, FreeFrame, RunFrame
<1>4. ControlInv'
  BY DEF ControlInv
<1>5. /\ Cardinality(Sending) \in Nat /\ Cardinality(Counting) \in Nat
      /\ Cardinality(Sending)' = Cardinality(Sending) + One(u \in Sending') - One(u \in Sending)
      /\ Cardinality(Counting)' = Cardinality(Counting) + One(u \in Counting') - One(u \in Counting)
      /\ Cardinality(Counting)' <= Cardinality(Users)
  BY UserCounts
<1>6. Cardinality(due) \in Nat /\ One(u \in Sending') \in Int /\ One(u \in Sending) \in Int
      /\ One(u \in Counting') \in Int /\ One(u \in Counting) \in Int
  BY FS_CardinalityType DEF CountInv, One
<1>7. CountInv'
  BY <1>5, <1>6 DEF CountInv, WaitRspExact
<1>8. wait_rsp' + Cardinality(Counting)' <= MaxTotalConns + Cardinality(Users) - 1
  <2>1. wait_rsp \in Int /\ MaxTotalConns \in Nat /\ Cardinality(Users) \in Nat
        /\ wait_rsp + Cardinality(Counting) <= MaxTotalConns + Cardinality(Users) - 1
    BY Constants DEF TypeOK, LimitInv
  <2> QED BY <1>5, <1>6, <2>1
<1>9. LimitInv'
  <2>1. Taking' = Taking
    BY DEF Taking
  <2> QED BY <1>8, <2>1 DEF LimitInv
<1> QED BY <1>1, <1>3, <1>4, <1>7, <1>9 DEF IInv

LEMMA TestWaitRspStep ==
  ASSUME IInv, NEW u \in Users, TestWaitRsp(u)
  PROVE  IInv'
<1> TypeOK
  BY DEF IInv
<1>1. /\ user[u].pc = "test"
      /\ UNCHANGED <<wait_rsp, calls, mutex, total_req, waiting, requestings, recycle, io, active, finished,
                     exitPc, rounds, due>>
  BY DEF TestWaitRsp, ioVars, exitVars
<1>2. \/ user' = WithPc(user, u, "wait")
      \/ user' = WithPc(user, u, "counted") /\ ~(wait_rsp >= MaxTotalConns)
  BY Zenon DEF TestWaitRsp, OverMaxTotalConns, WithPc
<1>3. PICK p \in {"wait", "counted"} : user' = WithPc(user, u, p) /\ (p = "counted" => ~(wait_rsp >= MaxTotalConns))
  BY <1>2
<1>4. /\ user' \in [Users -> UserRecs] /\ user'[u].pc = p /\ user'[u].req = user[u].req
      /\ \A v \in Users : v # u => user'[v] = user[v]
  <2>1. p \in UserPcs /\ user \in [Users -> UserRecs] /\ user' = WithPc(user, u, p)
    BY <1>3 DEF UserPcs, TypeOK, UserRecs
  <2> QED BY <2>1, SetPc
<1>5. u \notin Sending /\ u \notin Sending' /\ u \notin Counting /\ (u \in Counting' <=> p = "counted")
  BY <1>1, <1>4 DEF Sending, Counting
<1>6. wait_rsp \in Int /\ mutex \in BOOLEAN /\ MaxTotalConns \in Nat
  BY Constants DEF TypeOK
<1>7. wait_rsp' = wait_rsp + One(u \in Sending') - One(u \in Sending)
  BY <1>1, <1>5, <1>6 DEF One
<1>8. \/ wait_rsp' + One(u \in Counting') - One(u \in Counting) = wait_rsp
      \/ wait_rsp' < MaxTotalConns
  BY <1>1, <1>3, <1>5, <1>6 DEF One
<1> QED BY <1>1, <1>3, <1>4, <1>6, <1>7, <1>8, UserMoves

LEMMA WaitStep ==
  ASSUME IInv, NEW u \in Users, Wait(u) \/ WaitReturns(u)
  PROVE  IInv'
<1> TypeOK
  BY DEF IInv
<1>1. /\ user[u].pc \in {"wait", "woken"} /\ mutex' \in BOOLEAN
      /\ UNCHANGED <<wait_rsp, calls, total_req, waiting, requestings, recycle, io, active, finished,
                     exitPc, rounds, due>>
  BY DEF Wait, WaitReturns, ioVars, exitVars
<1>2. user' = WithPc(user, u, "blocked") \/ user' = WithPc(user, u, "test")
  BY Zenon DEF Wait, WaitReturns, WithPc
<1>3. PICK p \in {"blocked", "test"} : user' = WithPc(user, u, p)
  BY <1>2
<1>4. /\ user' \in [Users -> UserRecs] /\ user'[u].pc = p /\ user'[u].req = user[u].req
      /\ \A v \in Users : v # u => user'[v] = user[v]
  <2>1. p \in UserPcs /\ user \in [Users -> UserRecs] /\ user' = WithPc(user, u, p)
    BY <1>3 DEF UserPcs, TypeOK, UserRecs
  <2> QED BY <2>1, SetPc
<1>5. u \notin Sending /\ u \notin Sending' /\ u \notin Counting /\ u \notin Counting'
  BY <1>1, <1>4 DEF Sending, Counting
<1>6. wait_rsp \in Int
  BY DEF TypeOK
<1>7. /\ wait_rsp' = wait_rsp + One(u \in Sending') - One(u \in Sending)
      /\ wait_rsp' + One(u \in Counting') - One(u \in Counting) = wait_rsp
  BY <1>1, <1>5, <1>6 DEF One
<1> QED BY <1>1, <1>3, <1>4, <1>6, <1>7, UserMoves

WithSend(f, u, p, n, t) == [f EXCEPT ![u] = [@ EXCEPT !.pc = p, !.ret = n, !.to = t]]
WithResult(f, u, n) == [f EXCEPT ![u] = [@ EXCEPT !.pc = "notify", !.ret = n]]
WithAdded(f, u) == [f EXCEPT ![u] = [@ EXCEPT !.pc = "notify", !.ret = 0, !.req = None]]
WithRequest(f, u, r, w) == [f EXCEPT ![u] = [@ EXCEPT !.pc = "test", !.req = r, !.wait = w]]
WithIdle(f, u) == [f EXCEPT ![u] = Idle]

LEMMA SetSend ==
  ASSUME NEW f \in [Users -> UserRecs], NEW u \in Users, NEW p \in UserPcs, NEW n \in {0, 2, 3},
         NEW t \in Managers
  PROVE  LET g == WithSend(f, u, p, n, t)
         IN  /\ g \in [Users -> UserRecs] /\ g[u].pc = p /\ g[u].req = f[u].req /\ g[u].ret = n
             /\ \A v \in Users : v # u => g[v] = f[v]
BY DEF UserRecs, WithSend

LEMMA SetResult ==
  ASSUME NEW f \in [Users -> UserRecs], NEW u \in Users, NEW n \in {0, 2, 3}
  PROVE  LET g == WithResult(f, u, n)
         IN  /\ g \in [Users -> UserRecs] /\ g[u].pc = "notify" /\ g[u].req = f[u].req /\ g[u].ret = n
             /\ \A v \in Users : v # u => g[v] = f[v]
BY DEF UserRecs, UserPcs, WithResult

LEMMA SetAdded ==
  ASSUME NEW f \in [Users -> UserRecs], NEW u \in Users
  PROVE  LET g == WithAdded(f, u)
         IN  /\ g \in [Users -> UserRecs] /\ g[u].pc = "notify" /\ g[u].req = None /\ g[u].ret = 0
             /\ \A v \in Users : v # u => g[v] = f[v]
BY DEF UserRecs, UserPcs, WithAdded

LEMMA SetRequest ==
  ASSUME NEW f \in [Users -> UserRecs], NEW u \in Users, NEW r \in Objects, NEW w \in BOOLEAN
  PROVE  LET g == WithRequest(f, u, r, w)
         IN  /\ g \in [Users -> UserRecs] /\ g[u].pc = "test" /\ g[u].req = r
             /\ \A v \in Users : v # u => g[v] = f[v]
BY DEF UserRecs, UserPcs, WithRequest

LEMMA SetIdle ==
  ASSUME NEW f \in [Users -> UserRecs], NEW u \in Users
  PROVE  LET g == WithIdle(f, u)
         IN  /\ g \in [Users -> UserRecs] /\ g[u].pc = "idle" /\ g[u].req = None
             /\ \A v \in Users : v # u => g[v] = f[v]
BY Constants DEF UserRecs, UserPcs, WithIdle, Idle

LEMMA SendRequestStep ==
  ASSUME IInv, NEW u \in Users, SendRequest(u)
  PROVE  IInv'
<1> TypeOK
  BY DEF IInv
<1>1. /\ user[u].pc = "counted" /\ wait_rsp' = wait_rsp + 1
      /\ UNCHANGED <<calls, mutex, total_req, waiting, requestings, recycle, io, active, finished,
                     exitPc, rounds, due>>
  BY DEF SendRequest, ioVars, exitVars
<1>2. user' = WithSend(user, u, IF RequestingFull THEN "notify" ELSE "add", IF RequestingFull THEN 3 ELSE 0, total_req)
  BY Zenon DEF SendRequest, WithSend
<1>3. PICK p \in {"add", "notify"}, n \in {0, 3} :
         user' = WithSend(user, u, p, n, total_req) /\ (p = "notify" => n = 3)
  BY <1>2
<1>4. /\ user' \in [Users -> UserRecs] /\ user'[u].pc = p /\ user'[u].req = user[u].req /\ user'[u].ret = n
      /\ \A v \in Users : v # u => user'[v] = user[v]
  <2>1. p \in UserPcs /\ n \in {0, 2, 3} /\ user \in [Users -> UserRecs] /\ total_req \in Managers
        /\ user' = WithSend(user, u, p, n, total_req)
    BY <1>3 DEF UserPcs, TypeOK, UserRecs
  <2> QED BY <2>1, SetSend
<1>5. u \notin Sending /\ u \in Sending' /\ u \in Counting /\ u \notin Counting'
  BY <1>1, <1>3, <1>4 DEF Sending, Counting
<1>6. wait_rsp \in Int /\ mutex \in BOOLEAN
  BY DEF TypeOK
<1>7. /\ wait_rsp' = wait_rsp + One(u \in Sending') - One(u \in Sending)
      /\ wait_rsp' + One(u \in Counting') - One(u \in Counting) = wait_rsp
      /\ wait_rsp' \in Int
  BY <1>1, <1>5, <1>6 DEF One
<1> QED BY <1>1, <1>3, <1>4, <1>6, <1>7, UserMoves

LEMMA AddToWaitingStep ==
  ASSUME IInv, NEW u \in Users, AddToWaiting(u)
  PROVE  IInv'
<1> TypeOK /\ ControlInv /\ DueInv /\ FreeInv /\ RunInv /\ CountInv /\ LimitInv
  BY DEF IInv
<1>0. user \in [Users -> UserRecs]
  BY DEF TypeOK, UserRecs
<1>1. /\ user[u].pc = "add"
      /\ UNCHANGED <<calls, wait_rsp, mutex, total_req, requestings, recycle, io, active, finished,
                     exitPc, rounds>>
  BY DEF AddToWaiting, ioVars, exitVars
<1>2. CASE ~HasRoom
  <2>1. user' = WithResult(user, u, 2) /\ UNCHANGED <<waiting, due>>
    BY Zenon, <1>2 DEF AddToWaiting, WithResult
  <2>2. /\ user' \in [Users -> UserRecs] /\ user'[u].pc = "notify" /\ user'[u].req = user[u].req
        /\ user'[u].ret = 2 /\ \A v \in Users : v # u => user'[v] = user[v]
    BY <1>0, <2>1, SetResult
  <2>3. u \in Sending /\ u \in Sending' /\ u \notin Counting /\ u \notin Counting'
    BY <1>1, <2>2 DEF Sending, Counting
  <2>4. wait_rsp \in Int /\ mutex \in BOOLEAN
    BY DEF TypeOK
  <2>5. /\ wait_rsp' = wait_rsp + One(u \in Sending') - One(u \in Sending)
        /\ wait_rsp' + One(u \in Counting') - One(u \in Counting) = wait_rsp
    BY <1>1, <2>3, <2>4 DEF One
  <2> QED BY <1>1, <2>1, <2>2, <2>4, <2>5, UserMoves
<1>3. CASE HasRoom
  <2> DEFINE r == user[u].req
  <2>1. user' = WithAdded(user, u)
    BY Zenon, <1>3 DEF AddToWaiting, WithAdded
  <2>2. waiting' = Append(waiting, r) /\ due' = due \cup {r}
    BY <1>3 DEF AddToWaiting
  <2>3. /\ user' \in [Users -> UserRecs] /\ user'[u].pc = "notify" /\ user'[u].req = None
        /\ user'[u].ret = 0 /\ \A v \in Users : v # u => user'[v] = user[v]
    BY <1>0, <2>1, SetAdded
  <2>4. r # None /\ r \in Objects
    BY <1>0, <1>1 DEF ControlInv, UserRecs
  <2>5. /\ r \notin due
        /\ \A m \in Managers : io[m].req # r
        /\ \A v \in Users : u # v => user[v].req # r
        /\ r \notin Elements(recycle)
    BY <2>4 DEF FreeInv
  <2>6. r \notin Elements(waiting) /\ \A m \in Managers : r \notin active[m] /\ r \notin finished[m]
    BY <2>5 DEF DueInv
  <2> HIDE DEF r
  <2>7. /\ waiting' \in Seq(Objects) /\ Len(waiting') = Len(waiting) + 1 /\ Len(waiting) \in Nat
        /\ Elements(waiting') = Elements(waiting) \cup {r} /\ NoTwice(waiting')
    <3>1. waiting \in Seq(Objects) /\ NoTwice(waiting)
      BY DEF TypeOK, DueInv
    <3> QED BY <2>2, <2>4, <2>6, <3>1, ElementsAppend
  <2>8. TypeOK'
    BY <1>1, <2>2, <2>3, <2>4, <2>7 DEF TypeOK, UserRecs
  <2>9. ControlInv'
    BY <1>1, <2>3 DEF ControlInv
  <2>10. DueInv'
    BY <1>1, <2>2, <2>5, <2>6, <2>7 DEF DueInv
  <2>11. FreeInv'
    <3>1. Elements(recycle)' = Elements(recycle) /\ NoTwice(recycle)'
      BY <1>1 DEF FreeInv, Elements, NoTwice
    <3>2. \A m \in Managers : io'[m].pc = "after" => io'[m].req \notin due'
      BY <1>1, <2>2, <2>5 DEF FreeInv
    <3>3. \A x \in Elements(recycle) :
             /\ x \notin due'
             /\ \A m \in Managers : io'[m].req # x
             /\ \A v \in Users : user'[v].req # x
      <4>1. None \notin Elements(recycle)
        BY CurlClientConstants DEF TypeOK, Elements
      <4>2. \A v \in Users : user'[v].req = user[v].req \/ user'[v].req = None
        BY <2>3
      <4> QED BY <1>1, <2>2, <2>5, <4>1, <4>2 DEF FreeInv
    <3>4. \A v \in Users : user'[v].req # None =>
             /\ user'[v].req \notin due'
             /\ \A m \in Managers : io'[m].req # user'[v].req
             /\ \A y \in Users : v # y => user'[v].req # user'[y].req
      <4>1. \A v \in Users : user'[v].req # None => v # u /\ user'[v].req = user[v].req
        BY <2>3
      <4>2. \A v \in Users : user'[v].req = user[v].req \/ user'[v].req = None
        BY <2>3
      <4> QED BY <1>1, <2>2, <2>5, <4>1, <4>2 DEF FreeInv
    <3> QED BY <3>1, <3>2, <3>3, <3>4 DEF FreeInv
  <2>12. RunInv'
    BY <1>1, <2>2, <2>7 DEF RunInv
  <2>13. u \in Sending /\ u \notin Sending' /\ u \notin Counting /\ u \notin Counting'
    BY <1>1, <2>3 DEF Sending, Counting
  <2>14. Cardinality(Sending)' = Cardinality(Sending) - 1 /\ Cardinality(Counting)' = Cardinality(Counting)
         /\ Cardinality(Sending) \in Nat /\ Cardinality(Counting) \in Nat
    BY <2>3, <2>13, UserCounts DEF One
  <2>15. CountInv'
    <3>1. IsFiniteSet(due') /\ Cardinality(due') = Cardinality(due) + 1 /\ Cardinality(due) \in Nat
      BY <2>2, <2>5, OneMore DEF CountInv
    <3> QED BY <1>1, <2>14, <3>1 DEF CountInv, WaitRspExact
  <2>16. LimitInv'
    <3>1. Taking' = Taking
      BY <1>1 DEF Taking
    <3>2. Len(waiting') <= MaxReqQueSize
      BY <1>3, <2>7, Constants DEF HasRoom
    <3> QED BY <1>1, <2>14, <3>1, <3>2 DEF LimitInv
  <2> QED BY <2>8, <2>9, <2>10, <2>11, <2>12, <2>15, <2>16 DEF IInv
<1> QED BY <1>2, <1>3

\* getRequest returns a request that nobody has.
LEMMA NextIsFree ==
  ASSUME IInv, exitPc = "no", NEW r \in NextRequest
  PROVE  /\ r \in Objects /\ r \notin due
         /\ \A m \in Managers : io[m].req # r
         /\ \A u \in Users : user[u].req # r
         /\ RestOfRecycle \in Seq(Objects) /\ NoTwice(RestOfRecycle)
         /\ Len(RestOfRecycle) <= MaxTotalConns
         /\ r \notin Elements(RestOfRecycle)
         /\ Elements(RestOfRecycle) \subseteq Elements(recycle)
<1> TypeOK /\ ControlInv /\ DueInv /\ FreeInv /\ RunInv /\ CountInv /\ LimitInv
  BY DEF IInv
<1>0. recycle \in Seq(Objects) /\ NoTwice(recycle) /\ Len(recycle) <= MaxTotalConns /\ MaxTotalConns \in Nat
  BY Constants DEF TypeOK, FreeInv, LimitInv
<1>1. CASE recycle # <<>>
  <2>1. r = Head(recycle) /\ RestOfRecycle = Tail(recycle)
    BY <1>1 DEF NextRequest, RestOfRecycle
  <2>2. /\ Tail(recycle) \in Seq(Objects) /\ Len(Tail(recycle)) = Len(recycle) - 1 /\ Len(recycle) \in Nat
        /\ Head(recycle) \in Objects /\ Head(recycle) \in Elements(recycle)
        /\ Head(recycle) \notin Elements(Tail(recycle))
        /\ Elements(recycle) = Elements(Tail(recycle)) \cup {Head(recycle)}
        /\ NoTwice(Tail(recycle))
    BY <1>0, <1>1, ElementsTail
  <2>3. /\ r \notin due /\ \A m \in Managers : io[m].req # r
        /\ \A u \in Users : user[u].req # r
    BY <2>1, <2>2 DEF FreeInv
  <2>4. Len(Tail(recycle)) <= MaxTotalConns
    BY <1>0, <2>2
  <2> QED BY <2>1, <2>2, <2>3, <2>4
<1>2. CASE recycle = <<>>
  <2>1. r \in Objects /\ r \notin InUse
    BY <1>2 DEF NextRequest
  <2>2. /\ \A m \in Managers : io[m].req # r /\ r \notin active[m] /\ r \notin finished[m]
        /\ \A u \in Users : user[u].req # r
        /\ r \notin Elements(waiting) /\ r \notin Elements(recycle)
    BY <2>1 DEF InUse
  <2>3. r \notin due
    BY <2>2 DEF RunInv
  <2> QED BY <1>0, <1>2, <2>1, <2>2, <2>3 DEF RestOfRecycle
<1> QED BY <1>1, <1>2

LEMMA GetHttpRequestStep ==
  ASSUME IInv, NEW u \in Users, NEW w \in Modes, GetHttpRequest(u, w)
  PROVE  IInv'
<1> TypeOK /\ ControlInv /\ DueInv /\ FreeInv /\ RunInv /\ CountInv /\ LimitInv
  BY DEF IInv
<1>1. /\ user[u].pc = "idle" /\ calls < MaxCalls /\ exitPc = "no"
      /\ calls' = calls + 1 /\ recycle' = RestOfRecycle
      /\ UNCHANGED <<wait_rsp, mutex, total_req, waiting, requestings, io, active, finished, exitPc,
                     rounds, due>>
  BY DEF GetHttpRequest, ioVars, exitVars
<1>2. PICK r \in NextRequest : user' = WithRequest(user, u, r, w)
  BY Zenon DEF GetHttpRequest, WithRequest
<1>3. /\ r \in Objects /\ r \notin due
      /\ \A m \in Managers : io[m].req # r
      /\ \A v \in Users : user[v].req # r
      /\ recycle' \in Seq(Objects) /\ NoTwice(recycle') /\ Len(recycle') <= MaxTotalConns
      /\ r \notin Elements(recycle') /\ Elements(recycle') \subseteq Elements(recycle)
  BY <1>1, NextIsFree
<1>4. /\ user' \in [Users -> UserRecs] /\ user'[u].pc = "test" /\ user'[u].req = r
      /\ \A v \in Users : v # u => user'[v] = user[v]
  <2>1. user \in [Users -> UserRecs] /\ w \in BOOLEAN /\ r \in Objects
    BY <1>3, CurlClientConstants DEF TypeOK, UserRecs
  <2> QED BY <1>2, <2>1, SetRequest
<1>5. TypeOK'
  <2>1. calls' \in 0..MaxCalls
    BY <1>1, CurlClientConstants DEF TypeOK
  <2> QED BY <1>1, <1>3, <1>4, <2>1 DEF TypeOK, UserRecs
<1>6. HandsSame
  BY <1>1, SameIo
<1>7. DueInv' /\ RunInv'
  BY <1>1, <1>6, DueFrame, RunFrame
<1>8. ControlInv'
  <2>1. r # None
    BY <1>3, CurlClientConstants
  <2> QED BY <1>1, <1>4, <2>1 DEF ControlInv
<1>9. FreeInv'
  BY <1>1, <1>3, <1>4 DEF FreeInv
<1>10. u \notin Sending /\ u \notin Sending' /\ u \notin Counting /\ u \notin Counting'
  BY <1>1, <1>4 DEF Sending, Counting
<1>11. Cardinality(Sending)' = Cardinality(Sending) /\ Cardinality(Counting)' = Cardinality(Counting)
  BY <1>4, <1>10, UserCounts DEF One
<1>12. CountInv'
  BY <1>1, <1>11 DEF CountInv, WaitRspExact
<1>13. LimitInv'
  <2>1. Taking' = Taking
    BY <1>1 DEF Taking
  <2> QED BY <1>1, <1>3, <1>11, <2>1 DEF LimitInv
<1> QED BY <1>5, <1>7, <1>8, <1>9, <1>12, <1>13 DEF IInv

WithWake(f, m) == [f EXCEPT ![m].wake = TRUE]

LEMMA SetWake ==
  ASSUME NEW f \in [Managers -> IoRecs], NEW m \in Managers
  PROVE  LET g == WithWake(f, m)
         IN  /\ g \in [Managers -> IoRecs]
             /\ \A n \in Managers : g[n].pc = f[n].pc /\ g[n].req = f[n].req /\ g[n].early = f[n].early
             /\ g[m].wake
BY DEF IoRecs, WithWake

\* A thread gives up its request.
LEMMA FreeDropped ==
  ASSUME TypeOK, FreeInv, HandsSame, UNCHANGED <<recycle, due>>,
         \A v \in Users : user'[v].req = user[v].req \/ user'[v].req = None
  PROVE  FreeInv'
<1>1. Elements(recycle)' = Elements(recycle) /\ NoTwice(recycle)'
  BY DEF FreeInv, Elements, NoTwice
<1>2. \A m \in Managers : io'[m].pc = "after" => io'[m].req \notin due'
  BY DEF FreeInv, HandsSame
<1>3. \A x \in Elements(recycle) :
         /\ x \notin due'
         /\ \A m \in Managers : io'[m].req # x
         /\ \A v \in Users : user'[v].req # x
  <2>1. None \notin Elements(recycle)
    BY CurlClientConstants DEF TypeOK, Elements
  <2> QED BY <2>1 DEF FreeInv, HandsSame
<1>4. \A v \in Users : user'[v].req # None =>
         /\ user'[v].req \notin due'
         /\ \A m \in Managers : io'[m].req # user'[v].req
         /\ \A y \in Users : v # y => user'[v].req # user'[y].req
  BY DEF FreeInv, HandsSame
<1> QED BY <1>1, <1>2, <1>3, <1>4 DEF FreeInv

LEMMA NotifySendRequestStep ==
  ASSUME IInv, NEW u \in Users, NotifySendRequest(u)
  PROVE  IInv'
<1> TypeOK /\ ControlInv /\ DueInv /\ FreeInv /\ RunInv /\ CountInv /\ LimitInv
  BY DEF IInv
<1>0. user \in [Users -> UserRecs] /\ io \in [Managers -> IoRecs] /\ user[u].to \in Managers
      /\ user[u].ret \in {0, 2, 3} /\ wait_rsp \in Int
  BY DEF TypeOK, UserRecs, IoRecs
<1>1. /\ user[u].pc = "notify"
      /\ total_req' = IF user[u].ret = 0 THEN (total_req + 1) % Cardinality(Managers) ELSE total_req
      /\ wait_rsp' = wait_rsp - TakenBack(user[u].ret)
      /\ UNCHANGED <<calls, mutex, waiting, requestings, recycle, active, finished, exitPc, rounds, due>>
  BY DEF NotifySendRequest, exitVars
<1>2. user' = WithIdle(user, u) /\ io' = WithWake(io, user[u].to)
  BY Zenon DEF NotifySendRequest, WithIdle, WithWake
<1>3. /\ user' \in [Users -> UserRecs] /\ user'[u].pc = "idle" /\ user'[u].req = None
      /\ \A v \in Users : v # u => user'[v] = user[v]
  BY <1>0, <1>2, SetIdle
<1>4. /\ io' \in [Managers -> IoRecs]
      /\ \A n \in Managers : io'[n].pc = io[n].pc /\ io'[n].req = io[n].req
  BY <1>0, <1>2, SetWake
<1>5. total_req' \in Managers
  <2>1. Cardinality(Managers) \in Nat \ {0} /\ Managers = 0..Cardinality(Managers) - 1 /\ total_req \in Managers
    BY CurlClientConstants DEF TypeOK
  <2> QED BY <1>1, <2>1
<1>6. TakenBack(user[u].ret) \in {0, 1} /\ (TakenBack(user[u].ret) = 1 <=> user[u].ret # 0)
  BY DEF TakenBack
<1>7. TypeOK'
  <2>1. wait_rsp' \in Int
    BY <1>0, <1>1, <1>6
  <2> QED BY <1>1, <1>3, <1>4, <1>5, <2>1 DEF TypeOK, UserRecs, IoRecs
<1>8. HandsSame
  BY <1>4 DEF HandsSame
<1>9. DueInv' /\ RunInv'
  BY <1>1, <1>8, DueFrame, RunFrame
<1>10. FreeInv'
  BY <1>1, <1>3, <1>8, FreeDropped
<1>11. ControlInv'
  BY <1>3, <1>4 DEF ControlInv
<1>12. (u \in Sending <=> user[u].ret # 0) /\ u \notin Sending' /\ u \notin Counting /\ u \notin Counting'
  BY <1>1, <1>3 DEF Sending, Counting
<1>13. /\ Cardinality(Sending) \in Nat /\ Cardinality(Counting) \in Nat
       /\ Cardinality(Sending)' = Cardinality(Sending) - TakenBack(user[u].ret)
       /\ Cardinality(Counting)' = Cardinality(Counting)
  BY <1>3, <1>6, <1>12, UserCounts DEF One
<1>14. CountInv'
  <2>1. Cardinality(due) \in Nat
    BY FS_CardinalityType DEF CountInv
  <2> QED BY <1>1, <1>6, <1>13, <2>1 DEF CountInv, WaitRspExact
<1>15. LimitInv'
  <2>1. Taking' = Taking
    BY <1>4 DEF Taking
  <2>2. wait_rsp' + Cardinality(Counting)' <= MaxTotalConns + Cardinality(Users) - 1
    BY <1>0, <1>1, <1>6, <1>13, Constants DEF LimitInv
  <2> QED BY <1>1, <2>1, <2>2 DEF LimitInv
<1> QED BY <1>7, <1>9, <1>10, <1>11, <1>14, <1>15 DEF IInv

-----------------------------------------------------------------------------
(* Steps of the I/O threads.                                               *)

WithIoPc(f, m, p) == [f EXCEPT ![m].pc = p]
WithWoken(f, m) == [f EXCEPT ![m] = [@ EXCEPT !.pc = "check", !.wake = FALSE]]
WithHand(f, m, p, r) == [f EXCEPT ![m] = [@ EXCEPT !.pc = p, !.req = r]]
WithRead(f, m) == [f EXCEPT ![m] = [@ EXCEPT !.pc = "check", !.early = FALSE]]
WithSent(f, m, n, e) ==
    [f EXCEPT ![m] = [@ EXCEPT !.pc = "check", !.req = None, !.running = n, !.early = e]]

IoPcs == {"idle", "check", "get", "send", "read", "after"}

LEMMA SetIoPc ==
  ASSUME NEW f \in [Managers -> IoRecs], NEW m \in Managers, NEW p \in IoPcs
  PROVE  LET g == WithIoPc(f, m, p)
         IN  /\ g \in [Managers -> IoRecs] /\ g[m].pc = p /\ g[m].req = f[m].req
             /\ \A n \in Managers : n # m => g[n] = f[n]
             /\ g[m].early = f[m].early
BY DEF IoRecs, IoPcs, WithIoPc

LEMMA SetWoken ==
  ASSUME NEW f \in [Managers -> IoRecs], NEW m \in Managers
  PROVE  LET g == WithWoken(f, m)
         IN  /\ g \in [Managers -> IoRecs] /\ g[m].pc = "check" /\ g[m].req = f[m].req
             /\ \A n \in Managers : n # m => g[n] = f[n]
             /\ g[m].early = f[m].early
BY DEF IoRecs, WithWoken

LEMMA SetHand ==
  ASSUME NEW f \in [Managers -> IoRecs], NEW m \in Managers, NEW p \in IoPcs, NEW r \in Objects \cup {None}
  PROVE  LET g == WithHand(f, m, p, r)
         IN  /\ g \in [Managers -> IoRecs] /\ g[m].pc = p /\ g[m].req = r
             /\ \A n \in Managers : n # m => g[n] = f[n]
             /\ g[m].early = f[m].early
BY DEF IoRecs, IoPcs, WithHand

LEMMA SetRead ==
  ASSUME NEW f \in [Managers -> IoRecs], NEW m \in Managers
  PROVE  LET g == WithRead(f, m)
         IN  /\ g \in [Managers -> IoRecs] /\ g[m].pc = "check" /\ g[m].req = f[m].req
             /\ \A n \in Managers : n # m => g[n] = f[n]
BY DEF IoRecs, WithRead

LEMMA SetSent ==
  ASSUME NEW f \in [Managers -> IoRecs], NEW m \in Managers, NEW n \in Nat, NEW e \in BOOLEAN
  PROVE  LET g == WithSent(f, m, n, e)
         IN  /\ g \in [Managers -> IoRecs] /\ g[m].pc = "check" /\ g[m].req = None
             /\ \A j \in Managers : j # m => g[j] = f[j]
             /\ g[m].early = e
BY DEF IoRecs, WithSent

WithChecked(f, m, v) == [f EXCEPT ![m] = [@ EXCEPT !.pc = "idle", !.info = FALSE, !.prev = v]]

LEMMA SetCheckedTo ==
  ASSUME NEW f \in [Managers -> IoRecs], NEW m \in Managers, NEW v \in Nat
  PROVE  LET g == WithChecked(f, m, v)
         IN  /\ g \in [Managers -> IoRecs] /\ g[m].pc = "idle" /\ g[m].req = f[m].req
             /\ \A j \in Managers : j # m => g[j] = f[j]
             /\ g[m].early = f[m].early
BY DEF IoRecs, WithChecked

LEMMA SetChecked ==
  ASSUME TypeOK, NEW m \in Managers
  PROVE  LET g == Checked(m)
         IN  /\ g \in [Managers -> IoRecs] /\ g[m].pc = "idle" /\ g[m].req = io[m].req
             /\ \A j \in Managers : j # m => g[j] = io[j]
             /\ g[m].early = io[m].early
<1> DEFINE v == IF io[m].info THEN io[m].running ELSE io[m].prev
<1>1. io \in [Managers -> IoRecs]
  BY DEF TypeOK, IoRecs
<1>2. v \in Nat
  BY <1>1 DEF IoRecs
<1>3. Checked(m) = WithChecked(io, m, v)
  BY Zenon DEF Checked, WithChecked
<1> HIDE DEF v
<1> QED BY <1>1, <1>2, <1>3, SetCheckedTo

\* The count of I/O threads that may add one more request.
LEMMA ManagerCounts ==
  ASSUME NEW m \in Managers, \A n \in Managers : n # m => io'[n] = io[n]
  PROVE  /\ Cardinality(Taking) \in Nat
         /\ Cardinality(Taking)' = Cardinality(Taking) + One(m \in Taking') - One(m \in Taking)
         /\ Cardinality(Taking)' <= Cardinality(Managers)
<1>1. Taking \in SUBSET Managers /\ Taking' \in SUBSET Managers
  BY DEF Taking
<1>2. \A n : n # m => (n \in Taking <=> n \in Taking')
  BY DEF Taking
<1>3. IsFiniteSet(Taking) /\ Cardinality(Taking') <= Cardinality(Managers)
  BY <1>1, SomeManagers
<1>4. Cardinality(Taking') = Cardinality(Taking) + One(m \in Taking') - One(m \in Taking)
      /\ Cardinality(Taking) \in Nat
  BY <1>2, <1>3, ButOne
<1> QED BY <1>3, <1>4

LEMMA SameUser ==
  ASSUME user' = user
  PROVE  RequestsSame /\ Sending' = Sending /\ Counting' = Counting
BY DEF RequestsSame, Sending, Counting

\* An I/O thread that takes and gives no request takes a step.
LEMMA IoMoves ==
  ASSUME IInv, NEW m \in Managers, io' \in [Managers -> IoRecs],
         \A n \in Managers : n # m => io'[n] = io[n],
         io'[m].req = io[m].req,
         io[m].pc \notin {"send", "after"}, io'[m].pc \notin {"send", "after"},
         m \in Taking' => m \in Taking \/ Cardinality(requestings) <= MaxTotalConns,
         UNCHANGED <<user, calls, total_req, wait_rsp, mutex, waiting, requestings, recycle, active, finished,
                     exitPc, rounds, due>>
  PROVE  IInv'
<1> TypeOK /\ ControlInv /\ DueInv /\ FreeInv /\ RunInv /\ CountInv /\ LimitInv
  BY DEF IInv
<1>1. TypeOK'
  BY DEF TypeOK, IoRecs
<1>2. HandsSame
  BY DEF HandsSame
<1>3. RequestsSame /\ Sending' = Sending /\ Counting' = Counting
  BY SameUser
<1>4. DueInv' /\ FreeInv' /\ RunInv' /\ ControlInv'
  BY <1>2, <1>3, DueFrame, FreeFrame, RunFrame, ControlIo
<1>5. CountInv'
  BY <1>3 DEF CountInv, WaitRspExact
<1>6. Cardinality(requestings) + Cardinality(Taking)' <= MaxTotalConns + Cardinality(Managers)
  <2>1. /\ Cardinality(requestings) \in Nat /\ MaxTotalConns \in Nat /\ Cardinality(Managers) \in Nat
        /\ Cardinality(requestings) + Cardinality(Taking) <= MaxTotalConns + Cardinality(Managers)
    BY Constants, FS_CardinalityType DEF LimitInv
  <2>2. /\ Cardinality(Taking) \in Nat
        /\ Cardinality(Taking)' = Cardinality(Taking) + One(m \in Taking') - One(m \in Taking)
        /\ Cardinality(Taking)' <= Cardinality(Managers)
    BY ManagerCounts
  <2>3. CASE Cardinality(requestings) <= MaxTotalConns
    <3>1. Cardinality(Taking)' \in Int
      BY <2>2 DEF One
    <3> QED BY <2>1, <2>2, <2>3, <3>1
  <2>4. CASE m \in Taking' => m \in Taking
    BY <2>1, <2>2, <2>4 DEF One
  <2> QED BY <2>3, <2>4
<1>7. LimitInv'
  BY <1>3, <1>6 DEF LimitInv
<1> QED BY <1>1, <1>4, <1>5, <1>7 DEF IInv

LEMMA HandleWakeUpStep ==
  ASSUME IInv, NEW m \in Managers, HandleWakeUp(m)
  PROVE  IInv'
<1> TypeOK /\ io \in [Managers -> IoRecs]
  BY DEF IInv, TypeOK, IoRecs
<1>1. /\ io[m].pc = "idle"
      /\ UNCHANGED <<user, calls, total_req, wait_rsp, mutex, waiting, requestings, recycle, active, finished,
                     exitPc, rounds, due>>
  BY DEF HandleWakeUp, sendVars, exitVars
<1>2. io' = WithWoken(io, m)
  BY Zenon DEF HandleWakeUp, WithWoken
<1>3. /\ io' \in [Managers -> IoRecs] /\ io'[m].pc = "check" /\ io'[m].req = io[m].req
      /\ \A n \in Managers : n # m => io'[n] = io[n]
  BY <1>2, SetWoken
<1>4. m \notin Taking'
  BY <1>3 DEF Taking
<1> QED BY <1>1, <1>3, <1>4, IoMoves

\* checkNeedSendRequest, HttpWaitRequest::get of an empty queue, and the end of
\* the messages.
LEMMA CheckNeedSendRequestStep ==
  ASSUME IInv, NEW m \in Managers, CheckNeedSendRequest(m)
  PROVE  IInv'
<1> TypeOK /\ io \in [Managers -> IoRecs]
  BY DEF IInv, TypeOK, IoRecs
<1>1. /\ io[m].pc = "check"
      /\ UNCHANGED <<user, calls, total_req, wait_rsp, mutex, waiting, requestings, recycle, active, finished,
                     exitPc, rounds, due>>
  BY DEF CheckNeedSendRequest, sendVars, exitVars
<1>2. CASE RequestingFull
  <2>1. io' = Checked(m)
    BY <1>2 DEF CheckNeedSendRequest
  <2>2. /\ io' \in [Managers -> IoRecs] /\ io'[m].pc = "idle" /\ io'[m].req = io[m].req
        /\ \A n \in Managers : n # m => io'[n] = io[n]
    BY <2>1, SetChecked
  <2>3. m \notin Taking'
    BY <2>2 DEF Taking
  <2> QED BY <1>1, <2>2, <2>3, IoMoves
<1>3. CASE ~RequestingFull
  <2>1. io' = WithIoPc(io, m, "get")
    BY Zenon, <1>3 DEF CheckNeedSendRequest, WithIoPc
  <2>2. /\ io' \in [Managers -> IoRecs] /\ io'[m].pc = "get" /\ io'[m].req = io[m].req
        /\ \A n \in Managers : n # m => io'[n] = io[n]
    BY <2>1, SetIoPc DEF IoPcs
  <2>3. Cardinality(requestings) <= MaxTotalConns
    <3>1. Cardinality(requestings) \in Nat /\ MaxTotalConns \in Nat
      BY Constants, FS_CardinalityType DEF IInv, LimitInv
    <3> QED BY <1>3, <3>1 DEF RequestingFull
  <2> QED BY <1>1, <2>2, <2>3, IoMoves
<1> QED BY <1>2, <1>3

LEMMA NoMoreMessagesStep ==
  ASSUME IInv, NEW m \in Managers, NoMoreMessages(m)
  PROVE  IInv'
<1> TypeOK /\ io \in [Managers -> IoRecs]
  BY DEF IInv, TypeOK, IoRecs
<1>1. /\ io[m].pc = "read"
      /\ UNCHANGED <<user, calls, total_req, wait_rsp, mutex, waiting, requestings, recycle, active, finished,
                     exitPc, rounds, due>>
  BY DEF NoMoreMessages, sendVars, exitVars
<1>2. io' = WithRead(io, m)
  BY Zenon DEF NoMoreMessages, WithRead
<1>3. /\ io' \in [Managers -> IoRecs] /\ io'[m].pc = "check" /\ io'[m].req = io[m].req
      /\ \A n \in Managers : n # m => io'[n] = io[n]
  BY <1>2, SetRead
<1>4. m \notin Taking'
  BY <1>3 DEF Taking
<1> QED BY <1>1, <1>3, <1>4, IoMoves

\* HttpWaitRequest::get hands the oldest request to an I/O thread.
LEMMA GetWaitingStep ==
  ASSUME IInv, NEW m \in Managers, GetWaiting(m)
  PROVE  IInv'
<1> TypeOK /\ ControlInv /\ DueInv /\ FreeInv /\ RunInv /\ CountInv /\ LimitInv
  BY DEF IInv
<1>0. io \in [Managers -> IoRecs]
  BY DEF TypeOK, IoRecs
<1>1. /\ io[m].pc = "get"
      /\ UNCHANGED <<user, calls, total_req, wait_rsp, mutex, requestings, recycle, active, finished,
                     exitPc, rounds, due>>
  BY DEF GetWaiting, sendVars, exitVars
<1>2. CASE waiting = <<>>
  <2>1. io' = Checked(m) /\ waiting' = waiting
    BY <1>2 DEF GetWaiting
  <2>2. /\ io' \in [Managers -> IoRecs] /\ io'[m].pc = "idle" /\ io'[m].req = io[m].req
        /\ \A n \in Managers : n # m => io'[n] = io[n]
    BY <2>1, SetChecked
  <2>3. m \notin Taking'
    BY <2>2 DEF Taking
  <2> QED BY <1>1, <2>1, <2>2, <2>3, IoMoves
<1>3. CASE waiting # <<>>
  <2> DEFINE r == Head(waiting)
  <2>1. io' = WithHand(io, m, "send", r)
    BY Zenon, <1>3 DEF GetWaiting, WithHand
  <2>2. waiting' = Tail(waiting)
    BY <1>3 DEF GetWaiting
  <2>3. /\ Tail(waiting) \in Seq(Objects) /\ Len(Tail(waiting)) = Len(waiting) - 1 /\ Len(waiting) \in Nat
        /\ r \in Objects /\ r \in Elements(waiting) /\ r \notin Elements(Tail(waiting))
        /\ Elements(waiting) = Elements(Tail(waiting)) \cup {r}
        /\ NoTwice(Tail(waiting))
    <3>1. waiting \in Seq(Objects) /\ NoTwice(waiting)
      BY DEF TypeOK, DueInv
    <3> QED BY <1>3, <3>1, ElementsTail
  <2>4. /\ r \in due /\ r # None
        /\ \A n \in Managers : r \notin active[n] /\ r \notin finished[n] /\ io[n].req # r
    BY <2>3, CurlClientConstants DEF DueInv
  <2> HIDE DEF r
  <2>5. /\ io' \in [Managers -> IoRecs] /\ io'[m].pc = "send" /\ io'[m].req = r
        /\ \A n \in Managers : n # m => io'[n] = io[n]
    BY <1>0, <2>1, <2>3, SetHand DEF IoPcs
  <2>6. TypeOK'
    BY <1>1, <2>2, <2>3, <2>5 DEF TypeOK, IoRecs
  <2>7. ControlInv'
    BY <1>1, <2>4, <2>5 DEF ControlInv
  <2>8. io[m].req = None
    BY <1>1 DEF ControlInv
  <2>9. DueInv'
    <3>1. NoTwice(waiting')
      BY <2>2, <2>3
    <3>2. \A x \in Elements(waiting') :
             x \in due /\ \A n \in Managers : x \notin active[n] /\ x \notin finished[n] /\ io'[n].req # x
      BY <2>2, <2>3, <2>5 DEF DueInv
    <3>3. \A n \in Managers : io'[n].pc = "send" => io'[n].req \in due
      BY <2>4, <2>5 DEF DueInv
    <3>4. \A n, j \in Managers : io'[n].req \notin active[j] /\ io'[n].req \notin finished[j]
      BY <2>4, <2>5 DEF DueInv
    <3>5. \A n, j \in Managers : n # j /\ io'[n].req # None => io'[n].req # io'[j].req
      BY <2>4, <2>5 DEF DueInv
    <3> QED BY <1>1, <3>1, <3>2, <3>3, <3>4, <3>5 DEF DueInv
  <2>10. FreeInv'
    <3>1. NoTwice(recycle)' /\ Elements(recycle)' = Elements(recycle)
      BY <1>1 DEF FreeInv, NoTwice, Elements
    <3>2. \A n \in Managers : io'[n].pc = "after" => io'[n].req \notin due
      BY <2>5 DEF FreeInv
    <3>3. \A x \in Elements(recycle) : \A n \in Managers : io'[n].req # x
      BY <2>4, <2>5 DEF FreeInv
    <3>4. \A u \in Users : user[u].req # None => \A n \in Managers : io'[n].req # user[u].req
      BY <2>4, <2>5 DEF FreeInv
    <3> QED BY <1>1, <3>1, <3>2, <3>3, <3>4 DEF FreeInv
  <2>11. RunInv'
    <3>1. \A x \in requestings :
             \E n \in Managers : x \in active[n] \/ x \in finished[n] \/ (io'[n].pc = "after" /\ io'[n].req = x)
      BY <1>1, <2>5 DEF RunInv
    <3>2. exitPc = "no" =>
             \A x \in due : \/ x \in Elements(waiting')
                            \/ \E n \in Managers : x \in active[n] \/ x \in finished[n] \/ io'[n].req = x
      <4> SUFFICES ASSUME exitPc = "no", NEW x \in due
                   PROVE  \/ x \in Elements(waiting')
                          \/ \E n \in Managers : x \in active[n] \/ x \in finished[n] \/ io'[n].req = x
        OBVIOUS
      <4>1. CASE x \in Elements(waiting)
        BY <2>2, <2>3, <2>5, <4>1
      <4>2. CASE \E n \in Managers : x \in active[n] \/ x \in finished[n] \/ io[n].req = x
        <5>1. x # None
          BY CurlClientConstants DEF TypeOK
        <5> QED BY <2>5, <2>8, <4>2, <5>1
      <4> QED BY <4>1, <4>2 DEF RunInv
    <3> QED BY <1>1, <3>1, <3>2 DEF RunInv
  <2>12. Sending' = Sending /\ Counting' = Counting
    BY <1>1, SameUser
  <2>13. CountInv'
    BY <1>1, <2>12 DEF CountInv, WaitRspExact
  <2>14. LimitInv'
    <3>1. m \in Taking /\ m \in Taking'
      BY <1>1, <2>5 DEF Taking
    <3>2. Cardinality(Taking)' = Cardinality(Taking)
      BY <2>5, <3>1, ManagerCounts DEF One
    <3>3. Len(waiting') <= MaxReqQueSize
      BY <2>2, <2>3, Constants DEF LimitInv
    <3> QED BY <1>1, <2>12, <3>2, <3>3 DEF LimitInv
  <2> QED BY <2>6, <2>7, <2>9, <2>10, <2>11, <2>13, <2>14 DEF IInv
<1> QED BY <1>2, <1>3

\* sendRequestInLoop gives the request to libcurl, which may finish transfers.
LEMMA SendRequestInLoopStep ==
  ASSUME IInv, NEW m \in Managers, SendRequestInLoop(m)
  PROVE  IInv'
<1> TypeOK /\ ControlInv /\ DueInv /\ FreeInv /\ RunInv /\ CountInv /\ LimitInv
  BY DEF IInv
<1> DEFINE r == io[m].req
<1>0. io \in [Managers -> IoRecs]
  BY DEF TypeOK, IoRecs
<1>1. /\ io[m].pc = "send" /\ requestings' = requestings \cup {r}
      /\ UNCHANGED <<user, calls, total_req, wait_rsp, mutex, waiting, recycle, exitPc, rounds, due>>
  BY DEF SendRequestInLoop, sendVars, exitVars
<1>2. PICK S \in SUBSET (active[m] \cup {r}), timerCb \in BOOLEAN :
         /\ active' = [active EXCEPT ![m] = (@ \cup {r}) \ S]
         /\ finished' = [finished EXCEPT ![m] = @ \cup S]
         /\ io' = [io EXCEPT ![m] =
                     [@ EXCEPT !.pc = "check", !.req = None,
                               !.running = IF timerCb THEN Cardinality(active'[m]) ELSE io[m].running,
                               !.early = io[m].early \/ S # {}]]
  BY Zenon DEF SendRequestInLoop
<1> DEFINE k == IF timerCb THEN Cardinality(active'[m]) ELSE io[m].running
           e == io[m].early \/ S # {}
<1>3. io' = WithSent(io, m, k, e)
  BY Zenon, <1>2 DEF WithSent
<1>4. /\ r \in Objects /\ r # None /\ r \in due /\ r \notin Elements(waiting)
      /\ \A n \in Managers : r \notin active[n] /\ r \notin finished[n] /\ (n # m => io[n].req # r)
  BY <1>0, <1>1 DEF ControlInv, DueInv, IoRecs
<1>5. k \in Nat /\ e \in BOOLEAN
  <2>1. active'[m] \in SUBSET due
    BY <1>2, <1>4 DEF TypeOK, DueInv
  <2>2. Cardinality(active'[m]) \in Nat
    BY <2>1, FS_Subset, FS_CardinalityType DEF CountInv
  <2>3. k \in Nat
    BY <1>0, <2>2 DEF IoRecs
  <2>4. e \in BOOLEAN
    BY Zenon
  <2> QED BY <2>3, <2>4
<1> HIDE DEF k, e
<1>6. /\ io' \in [Managers -> IoRecs] /\ io'[m].pc = "check" /\ io'[m].req = None
      /\ \A n \in Managers : n # m => io'[n] = io[n]
  BY <1>0, <1>3, <1>5, SetSent
<1>7. r \notin requestings
  BY <1>1, <1>4 DEF RunInv
<1> HIDE DEF r
<1>8. \A n \in Managers : \A x :
         /\ x \in active'[n] => x \in active[n] \/ (n = m /\ x = r)
         /\ x \in finished'[n] => x \in finished[n] \/ x \in active[n] \/ (n = m /\ x = r)
         /\ ~(x \in active'[n] /\ x \in finished'[n] /\ x \notin finished[n])
         /\ x \in active[n] \/ x \in finished[n] \/ (n = m /\ x = r)
               => x \in active'[n] \/ x \in finished'[n]
  BY <1>2 DEF TypeOK
<1>9. TypeOK'
  <2>1. /\ active' \in [Managers -> SUBSET Objects] /\ finished' \in [Managers -> SUBSET Objects]
        /\ requestings' \subseteq Objects
    BY <1>1, <1>2, <1>4 DEF TypeOK
  <2> QED BY <1>1, <1>6, <2>1 DEF TypeOK, IoRecs
<1>10. ControlInv'
  BY <1>1, <1>6 DEF ControlInv
<1>11. \A n \in Managers : None \notin active'[n] /\ None \notin finished'[n]
  BY <1>9, CurlClientConstants DEF TypeOK
<1>12. DueInv'
  <2>1. NoTwice(waiting)' /\ Elements(waiting)' = Elements(waiting)
    BY <1>1 DEF DueInv, NoTwice, Elements
  <2>2. \A x \in Elements(waiting) :
           x \in due /\ \A n \in Managers : x \notin active'[n] /\ x \notin finished'[n] /\ io'[n].req # x
    <3>1. None \notin Elements(waiting)
      BY CurlClientConstants DEF TypeOK, Elements
    <3> QED BY <1>4, <1>6, <1>8, <3>1 DEF DueInv
  <2>3. \A n \in Managers :
           /\ active'[n] \subseteq due /\ finished'[n] \subseteq due
           /\ io'[n].pc = "send" => io'[n].req \in due
    BY <1>4, <1>6, <1>8 DEF DueInv
  <2>4. \A n \in Managers : \A x \in active'[n] : x \notin finished'[n]
    BY <1>4, <1>8 DEF DueInv
  <2>5. \A n, j \in Managers : io'[n].req \notin active'[j] /\ io'[n].req \notin finished'[j]
    BY <1>4, <1>6, <1>8, <1>11 DEF DueInv
  <2>6. \A n, j \in Managers : n # j =>
           \A x \in active'[n] \cup finished'[n] : x \notin active'[j] /\ x \notin finished'[j]
    BY <1>4, <1>8 DEF DueInv
  <2>7. \A n, j \in Managers : n # j /\ io'[n].req # None => io'[n].req # io'[j].req
    BY <1>6 DEF DueInv
  <2> QED BY <1>1, <2>1, <2>2, <2>3, <2>4, <2>5, <2>6, <2>7 DEF DueInv
<1>13. FreeInv'
  <2>1. NoTwice(recycle)' /\ Elements(recycle)' = Elements(recycle)
    BY <1>1 DEF FreeInv, NoTwice, Elements
  <2>2. None \notin Elements(recycle)
    BY CurlClientConstants DEF TypeOK, Elements
  <2>3. \A n \in Managers : io'[n].pc = "after" => io'[n].req \notin due
    BY <1>6 DEF FreeInv
  <2>4. \A x \in Elements(recycle) : \A n \in Managers : io'[n].req # x
    BY <1>6, <2>2 DEF FreeInv
  <2>5. \A u \in Users : user[u].req # None => \A n \in Managers : io'[n].req # user[u].req
    BY <1>6 DEF FreeInv
  <2> QED BY <1>1, <2>1, <2>3, <2>4, <2>5 DEF FreeInv
<1>14. RunInv'
  <2>1. Elements(waiting)' = Elements(waiting)
    BY <1>1 DEF Elements
  <2>2. \A x \in requestings' :
           \E n \in Managers : x \in active'[n] \/ x \in finished'[n] \/ (io'[n].pc = "after" /\ io'[n].req = x)
    <3>1. \A x \in requestings :
             \E n \in Managers : x \in active[n] \/ x \in finished[n] \/ (io[n].pc = "after" /\ io[n].req = x)
      BY DEF RunInv
    <3> QED BY <1>1, <1>6, <1>8, <3>1
  <2>3. exitPc = "no" => \A n \in Managers : active'[n] \subseteq requestings' /\ finished'[n] \subseteq requestings'
    BY <1>1, <1>8 DEF RunInv
  <2>4. exitPc = "no" =>
           \A x \in due : \/ x \in Elements(waiting)
                          \/ \E n \in Managers : x \in active'[n] \/ x \in finished'[n] \/ io'[n].req = x
    BY <1>6, <1>8 DEF RunInv, r
  <2> QED BY <1>1, <2>1, <2>2, <2>3, <2>4 DEF RunInv
<1>15. Sending' = Sending /\ Counting' = Counting
  BY <1>1, SameUser
<1>16. CountInv'
  BY <1>1, <1>15 DEF CountInv, WaitRspExact
<1>17. LimitInv'
  <2>1. m \in Taking /\ m \notin Taking'
    BY <1>1, <1>6 DEF Taking
  <2>2. Cardinality(Taking)' = Cardinality(Taking) - 1 /\ Cardinality(Taking) \in Nat
    BY <1>6, <2>1, ManagerCounts DEF One
  <2>3. IsFiniteSet(requestings') /\ Cardinality(requestings') = Cardinality(requestings) + 1
        /\ Cardinality(requestings) \in Nat
    BY <1>1, <1>7, OneMore DEF LimitInv
  <2> QED BY <1>1, <1>15, <2>2, <2>3 DEF LimitInv
<1> QED BY <1>9, <1>10, <1>12, <1>13, <1>14, <1>16, <1>17 DEF IInv

WithAction(f, m, n, i, p, v) ==
    [f EXCEPT ![m] = [@ EXCEPT !.running = n, !.info = i, !.pc = p, !.prev = v]]

LEMMA SetAction ==
  ASSUME NEW f \in [Managers -> IoRecs], NEW m \in Managers, NEW n \in Nat, NEW i \in BOOLEAN,
         NEW p \in IoPcs, NEW v \in Nat
  PROVE  LET g == WithAction(f, m, n, i, p, v)
         IN  /\ g \in [Managers -> IoRecs] /\ g[m].pc = p /\ g[m].req = f[m].req
             /\ \A j \in Managers : j # m => g[j] = f[j]
BY DEF IoRecs, IoPcs, WithAction

\* Transfers finish: handles go from active to finished.
LEMMA SocketActionStep ==
  ASSUME IInv, NEW m \in Managers, NEW S \in SUBSET Objects, SocketAction(m, S)
  PROVE  IInv'
<1> TypeOK /\ ControlInv /\ DueInv /\ FreeInv /\ RunInv /\ CountInv /\ LimitInv
  BY DEF IInv
<1> DEFINE n == Cardinality(active[m] \ S)
           i == ReadsMessages(m, n)
           p == IF ReadsMessages(m, n) THEN "read" ELSE "idle"
           v == IF ReadsMessages(m, n) THEN io[m].prev ELSE n
<1>0. io \in [Managers -> IoRecs]
  BY DEF TypeOK, IoRecs
<1>1. /\ io[m].pc = "idle" /\ S \subseteq active[m]
      /\ active' = [active EXCEPT ![m] = @ \ S]
      /\ finished' = [finished EXCEPT ![m] = @ \cup S]
      /\ UNCHANGED <<user, calls, total_req, wait_rsp, mutex, waiting, requestings, recycle, exitPc, rounds, due>>
  BY DEF SocketAction, sendVars, exitVars
<1>2. io' = WithAction(io, m, n, i, p, v)
  BY Zenon DEF SocketAction, WithAction
<1>3. n \in Nat
  <2>1. active[m] \ S \in SUBSET due
    BY DEF DueInv
  <2> QED BY <2>1, FS_Subset, FS_CardinalityType DEF CountInv
<1>4. i \in BOOLEAN
  BY Zenon DEF ReadsMessages
<1>5. p \in {"read", "idle"} /\ v \in Nat
  BY <1>0, <1>3 DEF IoRecs
<1> HIDE DEF n, i, p, v
<1>6. /\ io' \in [Managers -> IoRecs] /\ io'[m].pc = p /\ io'[m].req = io[m].req
      /\ \A j \in Managers : j # m => io'[j] = io[j]
  <2>1. p \in IoPcs
    BY <1>5 DEF IoPcs
  <2> QED BY <1>0, <1>2, <1>3, <1>4, <1>5, <2>1, SetAction
<1>7. \A j \in Managers : \A x : /\ x \in active'[j] => x \in active[j]
                                 /\ x \in finished'[j] => x \in finished[j] \/ x \in active[j]
                                 /\ ~(x \in active'[j] /\ x \in finished'[j] /\ x \notin finished[j])
                                 /\ x \in active[j] \/ x \in finished[j] <=> x \in active'[j] \/ x \in finished'[j]
  BY <1>1 DEF TypeOK
<1>8. TypeOK'
  <2>1. active' \in [Managers -> SUBSET Objects] /\ finished' \in [Managers -> SUBSET Objects]
    BY <1>1 DEF TypeOK
  <2> QED BY <1>1, <1>6, <2>1 DEF TypeOK, IoRecs
<1>9. HandsSame
  BY <1>1, <1>5, <1>6 DEF HandsSame
<1>10. RequestsSame /\ Sending' = Sending /\ Counting' = Counting
  BY <1>1, SameUser
<1>11. FreeInv' /\ ControlInv'
  BY <1>1, <1>9, <1>10, FreeFrame, ControlIo
<1>12. DueInv'
  <2>1. NoTwice(waiting)' /\ Elements(waiting)' = Elements(waiting)
    BY <1>1 DEF DueInv, NoTwice, Elements
  <2>2. \A x \in Elements(waiting) :
           x \in due /\ \A j \in Managers : x \notin active'[j] /\ x \notin finished'[j] /\ io'[j].req # x
    BY <1>7, <1>9 DEF DueInv, HandsSame
  <2>3. \A j \in Managers :
           /\ active'[j] \subseteq due /\ finished'[j] \subseteq due
           /\ io'[j].pc = "send" => io'[j].req \in due
    BY <1>7, <1>9 DEF DueInv, HandsSame
  <2>4. \A j \in Managers : \A x \in active'[j] : x \notin finished'[j]
    BY <1>7 DEF DueInv
  <2>5. \A j, k \in Managers : io'[j].req \notin active'[k] /\ io'[j].req \notin finished'[k]
    BY <1>7, <1>9 DEF DueInv, HandsSame
  <2>6. \A j, k \in Managers : j # k =>
           \A x \in active'[j] \cup finished'[j] : x \notin active'[k] /\ x \notin finished'[k]
    BY <1>7 DEF DueInv
  <2>7. \A j, k \in Managers : j # k /\ io'[j].req # None => io'[j].req # io'[k].req
    BY <1>9 DEF DueInv, HandsSame
  <2> QED BY <1>1, <2>1, <2>2, <2>3, <2>4, <2>5, <2>6, <2>7 DEF DueInv
<1>13. RunInv'
  <2>1. Elements(waiting)' = Elements(waiting)
    BY <1>1 DEF Elements
  <2>2. \A x \in requestings :
           \E j \in Managers : x \in active'[j] \/ x \in finished'[j] \/ (io'[j].pc = "after" /\ io'[j].req = x)
    BY <1>7, <1>9 DEF RunInv, HandsSame
  <2>3. exitPc = "no" => \A j \in Managers : active'[j] \subseteq requestings /\ finished'[j] \subseteq requestings
    BY <1>7 DEF RunInv
  <2>4. exitPc = "no" =>
           \A x \in due : \/ x \in Elements(waiting)
                          \/ \E j \in Managers : x \in active'[j] \/ x \in finished'[j] \/ io'[j].req = x
    BY <1>7, <1>9 DEF RunInv, HandsSame
  <2> QED BY <1>1, <2>1, <2>2, <2>3, <2>4 DEF RunInv
<1>14. CountInv'
  BY <1>1, <1>10 DEF CountInv, WaitRspExact
<1>15. LimitInv'
  <2>1. m \notin Taking /\ m \notin Taking'
    BY <1>1, <1>5, <1>6 DEF Taking
  <2>2. Cardinality(Taking)' = Cardinality(Taking)
    BY <1>6, <2>1, ManagerCounts DEF One
  <2> QED BY <1>1, <1>10, <2>2 DEF LimitInv
<1> QED BY <1>8, <1>11, <1>12, <1>13, <1>14, <1>15 DEF IInv

\* done() calls the user back, or finds the request cleared.
LEMMA ReadMessageStep ==
  ASSUME IInv, NEW m \in Managers, NEW r \in Objects, ReadMessage(m, r)
  PROVE  IInv'
<1> TypeOK /\ ControlInv /\ DueInv /\ FreeInv /\ RunInv /\ CountInv /\ LimitInv
  BY DEF IInv
<1>0. io \in [Managers -> IoRecs]
  BY DEF TypeOK, IoRecs
<1>1. /\ io[m].pc = "read" /\ r \in finished[m]
      /\ finished' = [finished EXCEPT ![m] = @ \ {r}]
      /\ UNCHANGED <<calls, mutex, total_req, waiting, requestings, recycle, active, exitPc, rounds>>
  BY DEF ReadMessage, exitVars
<1>2. \A j \in Managers : \A x : x \in finished'[j] <=> x \in finished[j] /\ ~(j = m /\ x = r)
  BY <1>1 DEF TypeOK
<1>3. finished' \in [Managers -> SUBSET Objects]
  BY <1>1 DEF TypeOK
<1>4. Elements(waiting)' = Elements(waiting) /\ NoTwice(waiting)'
      /\ Elements(recycle)' = Elements(recycle) /\ NoTwice(recycle)'
  BY <1>1 DEF DueInv, FreeInv, NoTwice, Elements
<1>5. CASE r \notin requestings
  <2>1. UNCHANGED <<due, wait_rsp, user, io>>
    BY <1>5 DEF ReadMessage
  <2>2. exitPc # "no"
    BY <1>1, <1>5 DEF RunInv
  <2>3. TypeOK'
    BY <1>1, <1>3, <2>1 DEF TypeOK
  <2>4. HandsSame /\ RequestsSame /\ Sending' = Sending /\ Counting' = Counting
    BY <2>1, SameIo, SameUser
  <2>5. ControlInv' /\ FreeInv'
    BY <1>1, <2>1, <2>4, FreeFrame, ControlIo
  <2>6. DueInv'
    BY <1>1, <1>2, <1>4, <2>1 DEF DueInv
  <2>7. RunInv'
    BY <1>1, <1>2, <1>5, <2>1, <2>2 DEF RunInv
  <2>8. CountInv'
    BY <2>1, <2>4 DEF CountInv, WaitRspExact
  <2>9. LimitInv'
    <3>1. Taking' = Taking
      BY <2>1 DEF Taking
    <3> QED BY <1>1, <2>1, <2>4, <3>1 DEF LimitInv
  <2> QED BY <2>3, <2>5, <2>6, <2>7, <2>8, <2>9 DEF IInv
<1>6. CASE r \in requestings
  <2>1. due' = due \ {r} /\ wait_rsp' = wait_rsp - 1 /\ user' = Notified
    BY <1>6 DEF ReadMessage
  <2>2. io' = WithHand(io, m, "after", r)
    BY Zenon, <1>6 DEF ReadMessage, WithHand
  <2>3. /\ io' \in [Managers -> IoRecs] /\ io'[m].pc = "after" /\ io'[m].req = r
        /\ \A j \in Managers : j # m => io'[j] = io[j]
    BY <1>0, <2>2, SetHand DEF IoPcs
  <2>4. /\ user' \in [Users -> UserRecs] /\ RequestsSame
        /\ \A u \in Users : user'[u].pc = (IF user[u].pc = "blocked" THEN "woken" ELSE user[u].pc)
        /\ Sending' = Sending /\ Counting' = Counting
    BY <2>1, NotifiedSame
  <2>5. /\ r \in due /\ r # None /\ r \notin Elements(waiting) /\ r \notin Elements(recycle)
        /\ \A j \in Managers : io[j].req # r /\ r \notin active[j] /\ r \notin finished'[j]
        /\ \A u \in Users : user[u].req # r
    <3>1. r \in due /\ r # None
      BY <1>1, CurlClientConstants DEF DueInv
    <3>2. \A j \in Managers : io[j].req # r /\ r \notin active[j]
      BY <1>1 DEF DueInv
    <3>3. \A j \in Managers : r \notin finished'[j]
      BY <1>1, <1>2 DEF DueInv
    <3>4. r \notin Elements(waiting)
      BY <1>1 DEF DueInv
    <3>5. r \notin Elements(recycle) /\ \A u \in Users : user[u].req # r
      BY <3>1 DEF FreeInv
    <3> QED BY <3>1, <3>2, <3>3, <3>4, <3>5
  <2>6. TypeOK'
    <3>1. wait_rsp' \in Int
      BY <2>1 DEF TypeOK
    <3> QED BY <1>1, <1>3, <2>1, <2>3, <2>4, <3>1 DEF TypeOK, UserRecs, IoRecs
  <2>7. ControlInv'
    <3>1. \A u \in Users :
             /\ user'[u].pc = "idle" => user'[u].req = None
             /\ user'[u].pc \notin {"idle", "notify"} => user'[u].req # None
      BY <2>4 DEF ControlInv, RequestsSame
    <3>2. \A j \in Managers : io'[j].req # None <=> io'[j].pc \in {"send", "after"}
      BY <2>3, <2>5 DEF ControlInv
    <3> QED BY <3>1, <3>2 DEF ControlInv
  <2>8. DueInv'
    <3>1. \A x \in Elements(waiting) :
             x \in due' /\ \A j \in Managers : x \notin active[j] /\ x \notin finished'[j] /\ io'[j].req # x
      BY <1>2, <2>1, <2>3, <2>5 DEF DueInv
    <3>2. \A j \in Managers :
             /\ active[j] \subseteq due' /\ finished'[j] \subseteq due'
             /\ \A x \in active[j] : x \notin finished'[j]
      BY <1>2, <2>1, <2>5 DEF DueInv
    <3>3. \A j \in Managers : io'[j].pc = "send" => io'[j].req \in due'
      BY <2>1, <2>3, <2>5 DEF DueInv
    <3>4. \A j, k \in Managers : io'[j].req \notin active[k] /\ io'[j].req \notin finished'[k]
      BY <1>2, <2>3, <2>5 DEF DueInv
    <3>5. \A j, k \in Managers : j # k =>
             \A x \in active[j] \cup finished'[j] : x \notin active[k] /\ x \notin finished'[k]
      BY <1>2 DEF DueInv
    <3>6. \A j, k \in Managers : j # k /\ io'[j].req # None => io'[j].req # io'[k].req
      BY <2>3, <2>5 DEF DueInv
    <3> QED BY <1>1, <1>4, <3>1, <3>2, <3>3, <3>4, <3>5, <3>6 DEF DueInv
  <2>9. FreeInv'
    <3>1. \A j \in Managers : io'[j].pc = "after" => io'[j].req \notin due'
      BY <2>1, <2>3 DEF FreeInv
    <3>2. \A x \in Elements(recycle) :
             x \notin due' /\ (\A j \in Managers : io'[j].req # x) /\ (\A u \in Users : user'[u].req # x)
      BY <2>1, <2>3, <2>4, <2>5 DEF FreeInv, RequestsSame
    <3>3. \A u \in Users : user'[u].req # None =>
             /\ user'[u].req \notin due'
             /\ \A j \in Managers : io'[j].req # user'[u].req
             /\ \A w \in Users : u # w => user'[u].req # user'[w].req
      BY <2>1, <2>3, <2>4, <2>5 DEF FreeInv, RequestsSame
    <3> QED BY <1>1, <1>4, <3>1, <3>2, <3>3 DEF FreeInv
  <2>10. RunInv'
    <3>1. io[m].req = None
      BY <1>1 DEF ControlInv
    <3>2. \A x \in requestings :
             \E j \in Managers : x \in active[j] \/ x \in finished'[j] \/ (io'[j].pc = "after" /\ io'[j].req = x)
      <4> SUFFICES ASSUME NEW x \in requestings
                   PROVE  \E j \in Managers : x \in active[j] \/ x \in finished'[j] \/ (io'[j].pc = "after" /\ io'[j].req = x)
        OBVIOUS
      <4>1. PICK j \in Managers : x \in active[j] \/ x \in finished[j] \/ (io[j].pc = "after" /\ io[j].req = x)
        BY DEF RunInv
      <4>2. CASE x = r
        BY <2>3, <4>2
      <4>3. CASE x # r
        BY <1>1, <1>2, <2>3, <4>1, <4>3
      <4> QED BY <4>2, <4>3
    <3>3. exitPc = "no" => \A j \in Managers : active[j] \subseteq requestings /\ finished'[j] \subseteq requestings
      BY <1>2 DEF RunInv
    <3>4. exitPc = "no" =>
             \A x \in due' : \/ x \in Elements(waiting)
                             \/ \E j \in Managers : x \in active[j] \/ x \in finished'[j] \/ io'[j].req = x
      <4> SUFFICES ASSUME exitPc = "no", NEW x \in due', x \notin Elements(waiting)
                   PROVE  \E j \in Managers : x \in active[j] \/ x \in finished'[j] \/ io'[j].req = x
        OBVIOUS
      <4>1. x \in due /\ x # r /\ x # None
        BY <2>1, CurlClientConstants DEF TypeOK
      <4>2. PICK j \in Managers : x \in active[j] \/ x \in finished[j] \/ io[j].req = x
        BY <4>1 DEF RunInv
      <4> QED BY <1>2, <2>3, <3>1, <4>1, <4>2
    <3> QED BY <1>1, <1>4, <3>2, <3>3, <3>4 DEF RunInv
  <2>11. CountInv'
    <3>1. IsFiniteSet(due') /\ Cardinality(due') = Cardinality(due) - 1 /\ Cardinality(due) \in Nat
      BY <2>1, <2>5, OneLess DEF CountInv
    <3>2. Cardinality(Sending) \in Nat
      BY SomeUsers DEF Sending
    <3> QED BY <2>1, <2>4, <3>1, <3>2 DEF CountInv, WaitRspExact
  <2>12. LimitInv'
    <3>1. m \notin Taking /\ m \notin Taking'
      BY <1>1, <2>3 DEF Taking
    <3>2. Cardinality(Taking)' = Cardinality(Taking)
      BY <2>3, <3>1, ManagerCounts DEF One
    <3>3. Cardinality(Counting) \in Nat /\ wait_rsp \in Int
      BY SomeUsers DEF Counting, TypeOK
    <3>4. wait_rsp' + Cardinality(Counting)' <= MaxTotalConns + Cardinality(Users) - 1
      BY <2>1, <2>4, <3>3, Constants DEF LimitInv
    <3> QED BY <1>1, <3>2, <3>4 DEF LimitInv
  <2> QED BY <2>6, <2>7, <2>8, <2>9, <2>10, <2>11, <2>12 DEF IInv
<1> QED BY <1>5, <1>6

LEMMA AfterRequestDoneStep ==
  ASSUME IInv, NEW m \in Managers, AfterRequestDone(m)
  PROVE  IInv'
<1> TypeOK /\ ControlInv /\ DueInv /\ FreeInv /\ RunInv /\ CountInv /\ LimitInv
  BY DEF IInv
<1> DEFINE r == io[m].req
<1>0. io \in [Managers -> IoRecs]
  BY DEF TypeOK, IoRecs
<1>1. /\ io[m].pc = "after" /\ requestings' = requestings \ {r} /\ recycle' = Recycled(r)
      /\ UNCHANGED <<user, calls, total_req, wait_rsp, mutex, waiting, active, finished, exitPc, rounds, due>>
  BY DEF AfterRequestDone, sendVars, exitVars
<1>2. io' = WithHand(io, m, "read", None)
  BY Zenon DEF AfterRequestDone, WithHand
<1>3. /\ io' \in [Managers -> IoRecs] /\ io'[m].pc = "read" /\ io'[m].req = None
      /\ \A j \in Managers : j # m => io'[j] = io[j]
  BY <1>0, <1>2, SetHand DEF IoPcs
<1>4. /\ r \in Objects /\ r # None /\ r \notin due /\ r \notin Elements(recycle)
      /\ \A j \in Managers : j # m => io[j].req # r
      /\ \A u \in Users : user[u].req # r
  <2>1. r # None /\ r \in Objects
    BY <1>0, <1>1 DEF ControlInv, IoRecs
  <2>2. r \notin due /\ r \notin Elements(recycle) /\ \A u \in Users : user[u].req # r
    BY <1>1, <2>1 DEF FreeInv
  <2>3. \A j \in Managers : j # m => io[j].req # r
    BY <2>1 DEF DueInv
  <2> QED BY <2>1, <2>2, <2>3
<1> HIDE DEF r
<1>5. /\ recycle' \in Seq(Objects) /\ NoTwice(recycle') /\ Len(recycle') <= MaxTotalConns
      /\ \A x \in Elements(recycle') : x \in Elements(recycle) \/ x = r
  <2>1. recycle \in Seq(Objects) /\ NoTwice(recycle) /\ Len(recycle) <= MaxTotalConns
    BY DEF TypeOK, FreeInv, LimitInv
  <2> QED BY <1>1, <1>4, <2>1, RecycledHas
<1>6. Elements(waiting)' = Elements(waiting) /\ NoTwice(waiting)'
  BY <1>1 DEF DueInv, NoTwice, Elements
<1>7. TypeOK'
  BY <1>1, <1>3, <1>5 DEF TypeOK, IoRecs
<1>8. ControlInv'
  BY <1>1, <1>3 DEF ControlInv
<1>9. \A j \in Managers : None \notin active[j] /\ None \notin finished[j]
  BY CurlClientConstants DEF TypeOK
<1>10. DueInv'
  <2>1. \A x \in Elements(waiting) : \A j \in Managers : io'[j].req # x
    <3>1. None \notin Elements(waiting)
      BY CurlClientConstants DEF TypeOK, Elements
    <3> QED BY <1>3, <3>1 DEF DueInv
  <2>2. \A j \in Managers : io'[j].pc = "send" => io'[j].req \in due
    BY <1>3 DEF DueInv
  <2>3. \A j, k \in Managers : io'[j].req \notin active[k] /\ io'[j].req \notin finished[k]
    BY <1>3, <1>9 DEF DueInv
  <2>4. \A j, k \in Managers : j # k /\ io'[j].req # None => io'[j].req # io'[k].req
    BY <1>3 DEF DueInv
  <2> QED BY <1>1, <1>6, <2>1, <2>2, <2>3, <2>4 DEF DueInv
<1>11. FreeInv'
  <2>1. \A j \in Managers : io'[j].pc = "after" => io'[j].req \notin due
    BY <1>3 DEF FreeInv
  <2>2. \A x \in Elements(recycle') :
           x \notin due /\ (\A j \in Managers : io'[j].req # x) /\ (\A u \in Users : user[u].req # x)
    <3>1. \A x \in Elements(recycle') : x # None
      BY <1>5, CurlClientConstants DEF Elements
    <3> QED BY <1>3, <1>4, <1>5, <3>1 DEF FreeInv
  <2>3. \A u \in Users : user[u].req # None => \A j \in Managers : io'[j].req # user[u].req
    BY <1>3 DEF FreeInv
  <2> QED BY <1>1, <1>5, <2>1, <2>2, <2>3 DEF FreeInv
<1>12. RunInv'
  <2>1. \A x \in requestings' :
           \E j \in Managers : x \in active[j] \/ x \in finished[j] \/ (io'[j].pc = "after" /\ io'[j].req = x)
    <3> SUFFICES ASSUME NEW x \in requestings'
                 PROVE  \E j \in Managers : x \in active[j] \/ x \in finished[j] \/ (io'[j].pc = "after" /\ io'[j].req = x)
      OBVIOUS
    <3>1. x \in requestings /\ x # r
      BY <1>1
    <3>2. PICK j \in Managers : x \in active[j] \/ x \in finished[j] \/ (io[j].pc = "after" /\ io[j].req = x)
      BY <3>1 DEF RunInv
    <3>3. j = m => io[j].req # x
      BY <3>1 DEF r
    <3> QED BY <1>3, <3>2, <3>3
  <2>2. exitPc = "no" => \A j \in Managers : active[j] \subseteq requestings' /\ finished[j] \subseteq requestings'
    <3>1. \A j \in Managers : r \notin active[j] /\ r \notin finished[j]
      BY DEF DueInv, r
    <3> QED BY <1>1, <3>1 DEF RunInv
  <2>3. exitPc = "no" =>
           \A x \in due : \/ x \in Elements(waiting)
                          \/ \E j \in Managers : x \in active[j] \/ x \in finished[j] \/ io'[j].req = x
    <3> SUFFICES ASSUME exitPc = "no", NEW x \in due, x \notin Elements(waiting)
                 PROVE  \E j \in Managers : x \in active[j] \/ x \in finished[j] \/ io'[j].req = x
      OBVIOUS
    <3>1. PICK j \in Managers : x \in active[j] \/ x \in finished[j] \/ io[j].req = x
      BY DEF RunInv
    <3>2. j = m => io[j].req # x
      BY <1>4 DEF r
    <3> QED BY <1>3, <3>1, <3>2
  <2> QED BY <1>1, <1>6, <2>1, <2>2, <2>3 DEF RunInv
<1>13. Sending' = Sending /\ Counting' = Counting
  BY <1>1, SameUser
<1>14. CountInv'
  BY <1>1, <1>13 DEF CountInv, WaitRspExact
<1>15. LimitInv'
  <2>1. m \notin Taking /\ m \notin Taking'
    BY <1>1, <1>3 DEF Taking
  <2>2. Cardinality(Taking)' = Cardinality(Taking) /\ Cardinality(Taking) \in Nat
    BY <1>3, <2>1, ManagerCounts DEF One
  <2>3. IsFiniteSet(requestings') /\ Cardinality(requestings') <= Cardinality(requestings)
        /\ Cardinality(requestings) \in Nat /\ Cardinality(requestings') \in Nat
    <3>1. requestings' \in SUBSET requestings /\ IsFiniteSet(requestings)
      BY <1>1 DEF LimitInv
    <3> QED BY <3>1, FS_Subset, FS_CardinalityType
  <2>4. Cardinality(requestings') + Cardinality(Taking)' <= MaxTotalConns + Cardinality(Managers)
    BY <2>2, <2>3, Constants DEF LimitInv
  <2> QED BY <1>1, <1>5, <1>13, <2>3, <2>4 DEF LimitInv
<1> QED BY <1>7, <1>8, <1>10, <1>11, <1>12, <1>14, <1>15 DEF IInv

-----------------------------------------------------------------------------
(* Steps of ExitHttpClient.                                                *)

\* Requests are cleared from the collections, or nothing happens to them.
LEMMA ExitClears ==
  ASSUME IInv, exitPc' \in {"test", "requesting", "recycle", "done"}, rounds' \in 0..MaxRounds,
         requestings' = {} \/ UNCHANGED <<requestings, active, finished>>,
         recycle' = <<>> \/ recycle' = recycle,
         active' \in [Managers -> SUBSET Objects], finished' \in [Managers -> SUBSET Objects],
         \A m \in Managers : active'[m] \subseteq active[m] /\ finished'[m] \subseteq finished[m],
         UNCHANGED <<user, calls, total_req, wait_rsp, mutex, waiting, io, due>>
  PROVE  IInv'
<1> TypeOK /\ ControlInv /\ DueInv /\ FreeInv /\ RunInv /\ CountInv /\ LimitInv
  BY DEF IInv
<1>1. HandsSame /\ RequestsSame /\ Sending' = Sending /\ Counting' = Counting /\ Taking' = Taking
  BY SameIo, SameUser DEF Taking
<1>2. /\ recycle' \in Seq(Objects) /\ NoTwice(recycle') /\ Len(recycle') <= MaxTotalConns
      /\ \A x \in Elements(recycle') : x \in Elements(recycle)
  <2>1. CASE recycle' = <<>>
    BY <2>1, Constants DEF NoTwice, Elements
  <2>2. CASE recycle' = recycle
    BY <2>2 DEF TypeOK, FreeInv, LimitInv
  <2> QED BY <2>1, <2>2
<1>3. TypeOK'
  BY <1>2 DEF TypeOK
<1>4. DueInv' /\ ControlInv'
  <2>1. NoTwice(waiting)' /\ Elements(waiting)' = Elements(waiting)
    BY DEF DueInv, NoTwice, Elements
  <2>2. DueInv'
    BY <2>1 DEF DueInv
  <2> QED BY <1>1, <2>2, ControlIo
<1>5. FreeInv'
  BY <1>2 DEF FreeInv
<1>6. RunInv'
  BY DEF RunInv
<1>7. CountInv'
  BY <1>1 DEF CountInv, WaitRspExact
<1>8. IsFiniteSet(requestings') /\ Cardinality(requestings') <= Cardinality(requestings)
      /\ Cardinality(requestings) \in Nat /\ Cardinality(requestings') \in Nat
  <2>1. requestings' \in SUBSET requestings /\ IsFiniteSet(requestings)
    BY DEF LimitInv
  <2> QED BY <2>1, FS_Subset, FS_CardinalityType
<1>9. LimitInv'
  <2>1. Cardinality(Taking) \in Nat
    BY SomeManagers DEF Taking
  <2>2. Cardinality(requestings') + Cardinality(Taking)' <= MaxTotalConns + Cardinality(Managers)
    BY <1>1, <1>8, <2>1, Constants DEF LimitInv
  <2> QED BY <1>1, <1>2, <1>8, <2>2 DEF LimitInv
<1> QED BY <1>3, <1>4, <1>5, <1>6, <1>7, <1>9 DEF IInv

\* HttpWaitRequest::clear calls every waiting request back.
LEMMA ExitRoundStep ==
  ASSUME IInv, ExitRound
  PROVE  IInv'
<1> TypeOK /\ ControlInv /\ DueInv /\ FreeInv /\ RunInv /\ CountInv /\ LimitInv
  BY DEF IInv
<1>0. UNCHANGED <<calls, mutex, total_req, requestings, recycle, io, active, finished>>
  BY DEF ExitRound, ioVars
<1>1. CASE ~(wait_rsp > 0 /\ rounds < MaxRounds)
  <2>1. exitPc' = "done" /\ UNCHANGED <<rounds, waiting, due, wait_rsp, user>>
    BY <1>1 DEF ExitRound
  <2>2. /\ rounds \in 0..MaxRounds
        /\ active \in [Managers -> SUBSET Objects] /\ finished \in [Managers -> SUBSET Objects]
    BY DEF TypeOK
  <2> QED BY <1>0, <2>1, <2>2, ExitClears
<1>2. CASE wait_rsp > 0 /\ rounds < MaxRounds
  <2>1. /\ exitPc' = "requesting" /\ rounds' = rounds + 1 /\ waiting' = <<>>
        /\ due' = due \ Elements(waiting) /\ wait_rsp' = wait_rsp - Len(waiting)
        /\ user' = user \/ user' = Notified
    BY <1>2 DEF ExitRound
  <2>2. /\ user' \in [Users -> UserRecs] /\ RequestsSame
        /\ \A u \in Users : user'[u].pc = user[u].pc \/ (user[u].pc = "blocked" /\ user'[u].pc = "woken")
        /\ Sending' = Sending /\ Counting' = Counting
    <3>1. CASE user' = user
      BY <3>1, SameUser DEF TypeOK, UserRecs
    <3>2. CASE user' = Notified
      BY <3>2, NotifiedSame
    <3> QED BY <2>1, <3>1, <3>2
  <2>3. Cardinality(Elements(waiting)) = Len(waiting) /\ Len(waiting) \in Nat
    <3>1. waiting \in Seq(Objects) /\ NoTwice(waiting)
      BY DEF TypeOK, DueInv
    <3> QED BY <3>1, ElementsCount
  <2>4. IsFiniteSet(due') /\ Cardinality(due') = Cardinality(due) - Len(waiting) /\ Cardinality(due) \in Nat
    <3>1. due \cap Elements(waiting) = Elements(waiting)
      BY DEF DueInv
    <3>2. IsFiniteSet(due)
      BY DEF CountInv
    <3>3. /\ IsFiniteSet(due \ Elements(waiting))
          /\ Cardinality(due \ Elements(waiting)) = Cardinality(due) - Cardinality(due \cap Elements(waiting))
      BY <3>2, FS_Difference
    <3>4. Cardinality(due) \in Nat
      BY <3>2, FS_CardinalityType
    <3> QED BY <2>1, <2>3, <3>1, <3>3, <3>4
  <2>5. waiting' \in Seq(Objects) /\ Len(waiting') = 0 /\ NoTwice(waiting') /\ Elements(waiting') = {}
    BY <2>1 DEF NoTwice, Elements
  <2>6. HandsSame /\ Taking' = Taking
    BY <1>0, SameIo DEF Taking
  <2>7. TypeOK'
    <3>1. wait_rsp' \in Int /\ rounds' \in 0..MaxRounds /\ due' \subseteq Objects
      BY <1>2, <2>1, <2>3, CurlClientConstants DEF TypeOK
    <3> QED BY <1>0, <2>1, <2>2, <2>5, <3>1 DEF TypeOK, UserRecs
  <2>8. ControlInv'
    <3>1. \A u \in Users :
             /\ user'[u].pc = "idle" => user'[u].req = None
             /\ user'[u].pc \notin {"idle", "notify"} => user'[u].req # None
      BY <2>2 DEF ControlInv, RequestsSame
    <3> QED BY <1>0, <3>1 DEF ControlInv
  <2>9. DueInv'
    <3>1. \A j \in Managers :
             /\ active[j] \subseteq due' /\ finished[j] \subseteq due'
             /\ io[j].pc = "send" => io[j].req \in due'
      BY <2>1 DEF DueInv
    <3> QED BY <1>0, <2>5, <3>1 DEF DueInv
  <2>10. FreeInv'
    <3>1. due' \subseteq due
      BY <2>1
    <3>2. NoTwice(recycle)' /\ Elements(recycle)' = Elements(recycle)
      BY <1>0 DEF FreeInv, NoTwice, Elements
    <3>3. \A j \in Managers : io'[j].pc = "after" => io'[j].req \notin due'
      BY <1>0, <3>1 DEF FreeInv
    <3>4. \A x \in Elements(recycle) :
             x \notin due' /\ (\A j \in Managers : io'[j].req # x) /\ (\A u \in Users : user'[u].req # x)
      BY <1>0, <2>2, <3>1 DEF FreeInv, RequestsSame
    <3>5. \A u \in Users : user'[u].req # None =>
             /\ user'[u].req \notin due'
             /\ \A j \in Managers : io'[j].req # user'[u].req
             /\ \A w \in Users : u # w => user'[u].req # user'[w].req
      BY <1>0, <2>2, <3>1 DEF FreeInv, RequestsSame
    <3> QED BY <3>2, <3>3, <3>4, <3>5 DEF FreeInv
  <2>11. RunInv'
    BY <1>0, <2>1 DEF RunInv
  <2>12. CountInv'
    <3>1. Cardinality(Sending) \in Nat
      BY SomeUsers DEF Sending
    <3> QED BY <2>1, <2>2, <2>3, <2>4, <3>1 DEF CountInv, WaitRspExact
  <2>13. LimitInv'
    <3>1. Cardinality(Counting) \in Nat /\ wait_rsp \in Int
      BY SomeUsers DEF Counting, TypeOK
    <3>2. wait_rsp' + Cardinality(Counting)' <= MaxTotalConns + Cardinality(Users) - 1
      BY <2>1, <2>2, <2>3, <3>1, Constants DEF LimitInv
    <3>3. Len(waiting') <= MaxReqQueSize
      BY <2>5, Constants
    <3> QED BY <1>0, <2>6, <3>2, <3>3 DEF LimitInv
  <2> QED BY <2>7, <2>8, <2>9, <2>10, <2>11, <2>12, <2>13 DEF IInv
<1> QED BY <1>1, <1>2

LEMMA ExitOtherStep ==
  ASSUME IInv, ExitBegins \/ ExitClearsRequesting \/ ExitClearsRecycle
  PROVE  IInv'
<1>1. /\ rounds \in 0..MaxRounds
      /\ active \in [Managers -> SUBSET Objects] /\ finished \in [Managers -> SUBSET Objects]
  BY DEF IInv, TypeOK
<1>2. /\ exitPc' \in {"test", "requesting", "recycle", "done"} /\ rounds' = rounds
      /\ recycle' = <<>> \/ recycle' = recycle
      /\ UNCHANGED <<user, calls, total_req, wait_rsp, mutex, waiting, io, due>>
  BY DEF ExitBegins, ExitClearsRequesting, ExitClearsRecycle, sendVars, ioVars
<1>3. CASE ExitBegins \/ ExitClearsRecycle
  <2>1. UNCHANGED <<requestings, active, finished>>
    BY <1>3 DEF ExitBegins, ExitClearsRecycle, ioVars
  <2> QED BY <1>1, <1>2, <2>1, ExitClears
<1>4. CASE ExitClearsRequesting
  <2>1. PICK S : /\ active' = [m \in Managers |-> active[m] \ S]
                 /\ finished' = [m \in Managers |-> finished[m] \ S]
    BY <1>4 DEF ExitClearsRequesting
  <2>2. /\ active' \in [Managers -> SUBSET Objects] /\ finished' \in [Managers -> SUBSET Objects]
        /\ \A m \in Managers : active'[m] \subseteq active[m] /\ finished'[m] \subseteq finished[m]
    BY <1>1, <2>1
  <2>3. requestings' = {}
    BY <1>4 DEF ExitClearsRequesting
  <2> QED BY <1>1, <1>2, <2>2, <2>3, ExitClears
<1> QED BY <1>3, <1>4

-----------------------------------------------------------------------------
(* The invariant holds.                                                    *)

LEMMA InvInit == Init => IInv
<1> SUFFICES ASSUME Init PROVE IInv
  OBVIOUS
<1>1. TypeOK
  <2>1. Idle \in UserRecs
    BY Constants DEF Idle, UserRecs, UserPcs
  <2>2. user \in [Users -> UserRecs]
    BY <2>1 DEF Init
  <2>3. io \in [Managers -> IoRecs]
    BY DEF Init, IoRecs
  <2>4. /\ calls \in 0..MaxCalls /\ rounds \in 0..MaxRounds /\ wait_rsp \in Int /\ mutex \in BOOLEAN
        /\ total_req \in Managers
    <3>1. calls = 0 /\ rounds = 0 /\ wait_rsp = 0 /\ total_req = 0
      BY DEF Init
    <3>2. MaxCalls \in Nat /\ MaxRounds \in Nat /\ 0 \in Managers
      BY Constants, CurlClientConstants
    <3>3. mutex \in BOOLEAN
      BY Zenon DEF Init
    <3>4. calls \in 0..MaxCalls /\ rounds \in 0..MaxRounds /\ wait_rsp \in Int /\ total_req \in Managers
      BY <3>1, <3>2
    <3> QED BY <3>3, <3>4
  <2>5. /\ waiting \in Seq(Objects) /\ requestings \subseteq Objects /\ recycle \in Seq(Objects)
        /\ active \in [Managers -> SUBSET Objects] /\ finished \in [Managers -> SUBSET Objects]
        /\ due \subseteq Objects /\ exitPc \in {"no", "test", "wait", "requesting", "recycle", "done"}
    BY DEF Init
  <2> QED BY <2>2, <2>3, <2>4, <2>5 DEF TypeOK, UserRecs, IoRecs
<1>2. /\ \A u \in Users : user[u].pc = "idle" /\ user[u].req = None
      /\ \A m \in Managers : io[m].pc = "idle" /\ io[m].req = None
  BY DEF Init, Idle
<1>3. ControlInv
  BY <1>2 DEF ControlInv
<1>4. \A m \in Managers : active[m] = {} /\ finished[m] = {}
  BY DEF Init
<1>5. waiting = <<>> /\ recycle = <<>> /\ requestings = {} /\ due = {} /\ wait_rsp = 0
  BY DEF Init
<1>6. Elements(waiting) = {} /\ Elements(recycle) = {} /\ NoTwice(waiting) /\ NoTwice(recycle)
      /\ Len(waiting) = 0 /\ Len(recycle) = 0
  BY <1>5 DEF Elements, NoTwice
<1>7. DueInv
  BY <1>2, <1>4, <1>6 DEF DueInv
<1>8. FreeInv /\ RunInv
  BY <1>2, <1>4, <1>5, <1>6 DEF FreeInv, RunInv
<1>9. Sending = {} /\ Counting = {} /\ Taking = {}
  BY <1>2 DEF Sending, Counting, Taking
<1>10. IsFiniteSet({}) /\ Cardinality({}) = 0
  BY FS_EmptySet
<1>11. CountInv
  BY <1>5, <1>9, <1>10 DEF CountInv, WaitRspExact
<1>12. LimitInv
  <2>1. 0 + Cardinality(Counting) <= MaxTotalConns + Cardinality(Users) - 1
    BY <1>9, <1>10, Constants
  <2>2. Cardinality(requestings) + Cardinality(Taking) <= MaxTotalConns + Cardinality(Managers)
    BY <1>5, <1>9, <1>10, Constants
  <2> QED BY <1>5, <1>6, <1>10, <2>1, <2>2, Constants DEF LimitInv
<1> QED BY <1>1, <1>3, <1>7, <1>8, <1>11, <1>12 DEF IInv

LEMMA InvStep ==
  ASSUME IInv, [Next]_vars
  PROVE  IInv'
<1>1. ASSUME NEW u \in Users, UserStep(u) PROVE IInv'
  BY <1>1, TestWaitRspStep, WaitStep, SendRequestStep, AddToWaitingStep, NotifySendRequestStep DEF UserStep
<1>2. ASSUME NEW u \in Users, NEW w \in Modes, GetHttpRequest(u, w) PROVE IInv'
  BY <1>2, GetHttpRequestStep
<1>3. ASSUME NEW m \in Managers, IoStep(m) PROVE IInv'
  <2>1. CASE HandleWakeUp(m) BY <2>1, HandleWakeUpStep
  <2>2. CASE CheckNeedSendRequest(m) BY <2>2, CheckNeedSendRequestStep
  <2>3. CASE GetWaiting(m) BY <2>3, GetWaitingStep
  <2>4. CASE SendRequestInLoop(m) BY <2>4, SendRequestInLoopStep
  <2>5. CASE \E r \in Objects : ReadMessage(m, r) BY <2>5, ReadMessageStep
  <2>6. CASE AfterRequestDone(m) BY <2>6, AfterRequestDoneStep
  <2>7. CASE NoMoreMessages(m) BY <2>7, NoMoreMessagesStep
  <2> QED BY <1>3, <2>1, <2>2, <2>3, <2>4, <2>5, <2>6, <2>7 DEF IoStep
<1>4. ASSUME NEW m \in Managers, NEW S \in SUBSET Objects, SocketAction(m, S) PROVE IInv'
  BY <1>4, SocketActionStep
<1>5. CASE ExitBegins \/ ExitStep
  BY <1>5, ExitRoundStep, ExitOtherStep DEF ExitStep
<1>6. CASE UNCHANGED vars
  <2>1. UNCHANGED <<user, calls, total_req, wait_rsp, mutex, waiting, requestings, recycle, io, active, finished,
                    exitPc, rounds, due>>
    BY <1>6 DEF vars, sendVars, ioVars, exitVars
  <2>2. HandsSame /\ RequestsSame /\ Sending' = Sending /\ Counting' = Counting /\ Taking' = Taking
    BY <2>1, SameIo, SameUser DEF Taking
  <2>3. DueInv' /\ FreeInv' /\ RunInv' /\ ControlInv'
    BY <2>1, <2>2, DueFrame, FreeFrame, RunFrame, ControlIo DEF IInv
  <2>4. TypeOK'
    BY <2>1 DEF IInv, TypeOK
  <2>5. CountInv' /\ LimitInv'
    BY <2>1, <2>2 DEF IInv, CountInv, WaitRspExact, LimitInv
  <2> QED BY <2>3, <2>4, <2>5 DEF IInv
<1> QED BY <1>1, <1>2, <1>3, <1>4, <1>5, <1>6 DEF Next

\* The parts of IInv hold whatever the threads, libcurl and ExitHttpClient do.
THEOREM Invariant == Spec => []IInv
<1>1. Init => IInv
  BY InvInit
<1>2. IInv /\ [Next]_vars => IInv'
  BY InvStep
<1> QED BY <1>1, <1>2, PTL DEF Spec

\* Type correctness: the collections hold CurlRequests, total_req_ selects an
\* existing CurlManager.
THEOREM TypeCorrect == Spec => []TypeOK
<1>1. IInv => TypeOK
  BY DEF IInv
<1> QED BY <1>1, Invariant, PTL

\* wait_rsp_ is exact through refusals, callbacks and ExitHttpClient.
THEOREM CountIsExact == Spec => []WaitRspExact
<1>1. IInv => WaitRspExact
  BY DEF IInv, CountInv
<1> QED BY <1>1, Invariant, PTL

\* How far the limits can be passed, although isFull and wait_rsp_ are tested
\* outside of the locks.
THEOREM LimitsAreKept == Spec => []LimitsHold
<1>1. IInv => LimitsHold
  <2> SUFFICES ASSUME IInv PROVE LimitsHold
    OBVIOUS
  <2>1. LimitInv /\ wait_rsp \in Int
    BY DEF IInv, TypeOK
  <2>2. Cardinality(Taking) \in Nat /\ Cardinality(Counting) \in Nat /\ Cardinality(requestings) \in Nat
    BY <2>1, SomeUsers, SomeManagers, FS_CardinalityType DEF Taking, Counting, LimitInv
  <2> QED BY <2>1, <2>2, Constants DEF LimitInv, LimitsHold
<1> QED BY <1>1, Invariant, PTL

\* A CurlRequest is not recycled, or given to a user, while it waits, runs or
\* is in the hands of an I/O thread.
THEOREM RequestsInOnePlace == Spec => []OnePlace
<1>1. IInv => OnePlace
  <2> SUFFICES ASSUME IInv PROVE OnePlace
    OBVIOUS
  <2> ControlInv /\ DueInv /\ FreeInv /\ RunInv
    BY DEF IInv
  <2>1. ASSUME NEW r, r # None, r \notin due, \A m \in Managers : io[m].req # r
        PROVE  /\ r \notin Elements(waiting) \cup requestings
               /\ \A m \in Managers : r \notin active[m] \cup finished[m] /\ io[m].req # r
    <3>1. r \notin Elements(waiting) /\ \A m \in Managers : r \notin active[m] /\ r \notin finished[m]
      BY <2>1 DEF DueInv
    <3>2. r \notin requestings
      BY <2>1, <3>1 DEF RunInv
    <3> QED BY <2>1, <3>1, <3>2
  <2>2. \A r \in Elements(recycle) : r \notin due /\ \A m \in Managers : io[m].req # r
    BY DEF FreeInv
  <2>3. \A u \in Users : user[u].req # None => user[u].req \notin due /\ \A m \in Managers : io[m].req # user[u].req
    BY DEF FreeInv
  <2>4. ASSUME NEW r \in (Elements(recycle) \cup {user[u].req : u \in Users}) \ {None}
        PROVE  r # None /\ r \notin due /\ \A m \in Managers : io[m].req # r
    BY <2>2, <2>3
  <2>5. NoTwice(waiting)
    BY DEF DueInv
  <2> QED BY <2>1, <2>4, <2>5 DEF OnePlace, NoTwice
<1> QED BY <1>1, Invariant, PTL

-----------------------------------------------------------------------------
(* No accepted request is stranded.                                        *)

\* Somebody is still to look for the requests that wait.
SomebodyLooks == (\E u \in Users : user[u].pc = "notify") \/ (\E m \in Managers : Busy(m))

\* Messages nobody will read hold all the places.
PlacesTaken == RequestingFull /\ \A q \in requestings : Unread(q)

\* An unread message has a CurlManager that reads or another transfer to make
\* it read, and a waiting request somebody who looks for it.
WorkInv ==
    exitPc = "no" =>
        /\ \A m \in Managers :
              finished[m] # {} => active[m] # {} \/ io[m].pc \in {"read", "after"} \/ io[m].early
        /\ waiting # <<>> => SomebodyLooks \/ PlacesTaken

\* A thread takes a step that wakes no I/O thread.
LEMMA WorkUser ==
  ASSUME WorkInv, NEW u \in Users, \A v \in Users : v # u => user'[v] = user[v],
         user[u].pc # "notify", waiting' = waiting \/ user'[u].pc = "notify",
         UNCHANGED <<requestings, io, active, finished, exitPc>>
  PROVE  WorkInv'
<1>1. SomebodyLooks => SomebodyLooks'
  BY DEF SomebodyLooks, Busy
<1>2. PlacesTaken => PlacesTaken'
  BY DEF PlacesTaken, RequestingFull, Unread
<1>3. CASE user'[u].pc = "notify"
  BY <1>3 DEF WorkInv, SomebodyLooks
<1>4. CASE waiting' = waiting
  BY <1>1, <1>2, <1>4 DEF WorkInv
<1> QED BY <1>3, <1>4

\* An I/O thread takes a step after which it, or libcurl, still works.
LEMMA WorkIo ==
  ASSUME WorkInv, NEW m \in Managers, exitPc' = exitPc,
         \A n \in Managers : n # m =>
            io'[n] = io[n] /\ active'[n] = active[n] /\ finished'[n] = finished[n],
         exitPc = "no" /\ finished'[m] # {} =>
            active'[m] # {} \/ io'[m].pc \in {"read", "after"} \/ io'[m].early,
         io'[m].pc # "idle" \/ active'[m] # {}
  PROVE  WorkInv'
<1>1. SomebodyLooks'
  BY DEF SomebodyLooks, Busy
<1> QED BY <1>1 DEF WorkInv

LEMMA WorkUserStep ==
  ASSUME IInv, WorkInv, NEW u \in Users, UserStep(u) \/ \E w \in Modes : GetHttpRequest(u, w)
  PROVE  WorkInv'
<1> user \in [Users -> UserRecs] /\ io \in [Managers -> IoRecs]
  BY DEF IInv, TypeOK, UserRecs, IoRecs
<1>1. CASE TestWaitRsp(u) \/ Wait(u) \/ WaitReturns(u) \/ SendRequest(u)
           \/ \E w \in Modes : GetHttpRequest(u, w)
  <2>1. /\ user[u].pc # "notify" /\ \A v \in Users : v # u => user'[v] = user[v]
        /\ UNCHANGED <<waiting, requestings, io, active, finished, exitPc>>
    BY <1>1 DEF TestWaitRsp, Wait, WaitReturns, SendRequest, GetHttpRequest, ioVars, exitVars
  <2> QED BY <2>1, WorkUser
<1>2. CASE AddToWaiting(u)
  <2>1. /\ user[u].pc # "notify" /\ \A v \in Users : v # u => user'[v] = user[v]
        /\ UNCHANGED <<requestings, io, active, finished, exitPc>>
    BY <1>2 DEF AddToWaiting, ioVars, exitVars
  <2>2. user'[u].pc = "notify"
    BY <1>2 DEF AddToWaiting, UserRecs
  <2> QED BY <2>1, <2>2, WorkUser
<1>3. CASE NotifySendRequest(u)
  <2>1. io' = WithWake(io, user[u].to)
    BY Zenon, <1>3 DEF NotifySendRequest, WithWake
  <2>2. user[u].to \in Managers /\ UNCHANGED <<active, finished, exitPc>>
    BY <1>3 DEF UserRecs, NotifySendRequest, exitVars
  <2>3. /\ io'[user[u].to].wake
        /\ \A n \in Managers : io'[n].pc = io[n].pc /\ io'[n].early = io[n].early
    BY <2>1, <2>2, SetWake
  <2>4. SomebodyLooks'
    BY <2>2, <2>3 DEF SomebodyLooks, Busy
  <2> QED BY <2>2, <2>3, <2>4 DEF WorkInv
<1> QED BY <1>1, <1>2, <1>3 DEF UserStep

\* The end of checkNeedSendRequest, when it finds no request or no room.
LEMMA WorkChecked ==
  ASSUME IInv, WorkInv, NEW m \in Managers, io[m].pc \in {"check", "get"}, io' = Checked(m),
         waiting = <<>> \/ RequestingFull,
         UNCHANGED <<user, waiting, requestings, active, finished, exitPc>>
  PROVE  WorkInv'
<1> SUFFICES ASSUME exitPc = "no" PROVE WorkInv'
  BY DEF WorkInv
<1>1. /\ io'[m].pc = "idle" /\ io'[m].early = io[m].early
      /\ \A n \in Managers : n # m => io'[n] = io[n]
  BY SetChecked DEF IInv
<1>2. \A n \in Managers :
         finished[n] # {} => active[n] # {} \/ io[n].pc \in {"read", "after"} \/ io[n].early
  BY DEF WorkInv
<1>3. \A n \in Managers :
         finished'[n] # {} => active'[n] # {} \/ io'[n].pc \in {"read", "after"} \/ io'[n].early
  BY <1>1, <1>2
<1>4. ASSUME RequestingFull, ~SomebodyLooks' PROVE PlacesTaken'
  <2>1. \A n \in Managers : io'[n].pc = "idle" /\ active[n] = {}
    BY <1>4 DEF SomebodyLooks, Busy
  <2>2. ASSUME NEW q \in requestings PROVE Unread(q)'
    <3>1. PICK n \in Managers : q \in active[n] \/ q \in finished[n] \/ (io[n].pc = "after" /\ io[n].req = q)
      BY DEF IInv, RunInv
    <3>2. io[n].pc # "after"
      BY <1>1, <2>1
    <3>3. q \in finished'[n] /\ active'[n] = {}
      BY <2>1, <3>1, <3>2
    <3>4. io'[n].early
      BY <1>3, <2>1, <3>3
    <3> QED BY <3>3, <3>4 DEF Unread
  <2> QED BY <1>4, <2>2 DEF PlacesTaken, RequestingFull
<1> QED BY <1>3, <1>4 DEF WorkInv

LEMMA WorkIoStep ==
  ASSUME IInv, WorkInv, NEW m \in Managers,
         IoStep(m) \/ \E S \in SUBSET Objects : SocketAction(m, S)
  PROVE  WorkInv'
<1> TypeOK /\ io \in [Managers -> IoRecs]
  BY DEF IInv, TypeOK, IoRecs
<1>1. exitPc = "no" /\ finished[m] # {} =>
         active[m] # {} \/ io[m].pc \in {"read", "after"} \/ io[m].early
  BY DEF WorkInv
<1>2. CASE HandleWakeUp(m)
  <2>1. io' = WithWoken(io, m)
    BY Zenon, <1>2 DEF HandleWakeUp, WithWoken
  <2>2. io[m].pc = "idle" /\ UNCHANGED <<active, finished, exitPc>>
    BY <1>2 DEF HandleWakeUp, exitVars
  <2>3. /\ io'[m].pc = "check" /\ io'[m].early = io[m].early
        /\ \A n \in Managers : n # m => io'[n] = io[n]
    BY <2>1, SetWoken
  <2> QED BY <1>1, <2>2, <2>3, WorkIo
<1>3. CASE CheckNeedSendRequest(m)
  <2>1. io[m].pc = "check" /\ UNCHANGED <<user, waiting, requestings, active, finished, exitPc>>
    BY <1>3 DEF CheckNeedSendRequest, sendVars, exitVars
  <2>2. CASE RequestingFull
    <3>1. io' = Checked(m)
      BY <1>3, <2>2 DEF CheckNeedSendRequest
    <3> QED BY <2>1, <2>2, <3>1, WorkChecked
  <2>3. CASE ~RequestingFull
    <3>1. io' = WithIoPc(io, m, "get")
      BY Zenon, <1>3, <2>3 DEF CheckNeedSendRequest, WithIoPc
    <3>2. /\ io'[m].pc = "get" /\ io'[m].early = io[m].early
          /\ \A n \in Managers : n # m => io'[n] = io[n]
      BY <3>1, SetIoPc DEF IoPcs
    <3> QED BY <1>1, <2>1, <3>2, WorkIo
  <2> QED BY <2>2, <2>3
<1>4. CASE GetWaiting(m)
  <2>1. io[m].pc = "get" /\ UNCHANGED <<user, requestings, active, finished, exitPc>>
    BY <1>4 DEF GetWaiting, sendVars, exitVars
  <2>2. CASE waiting = <<>>
    <3>1. io' = Checked(m) /\ waiting' = waiting
      BY <1>4, <2>2 DEF GetWaiting
    <3> QED BY <2>1, <2>2, <3>1, WorkChecked
  <2>3. CASE waiting # <<>>
    <3>1. io' = WithHand(io, m, "send", Head(waiting))
      BY Zenon, <1>4, <2>3 DEF GetWaiting, WithHand
    <3>2. Head(waiting) \in Objects
      BY <2>3 DEF TypeOK
    <3>3. /\ io'[m].pc = "send" /\ io'[m].early = io[m].early
          /\ \A n \in Managers : n # m => io'[n] = io[n]
      BY <3>1, <3>2, SetHand DEF IoPcs
    <3> QED BY <1>1, <2>1, <3>3, WorkIo
  <2> QED BY <2>2, <2>3
<1>5. CASE SendRequestInLoop(m)
  <2>1. PICK S \in SUBSET (active[m] \cup {io[m].req}), timerCb \in BOOLEAN :
           /\ active' = [active EXCEPT ![m] = (@ \cup {io[m].req}) \ S]
           /\ finished' = [finished EXCEPT ![m] = @ \cup S]
           /\ io' = [io EXCEPT ![m] =
                       [@ EXCEPT !.pc = "check", !.req = None,
                                 !.running = IF timerCb THEN Cardinality(active'[m]) ELSE io[m].running,
                                 !.early = io[m].early \/ S # {}]]
    BY Zenon, <1>5 DEF SendRequestInLoop
  <2>2. io[m].pc = "send" /\ exitPc' = exitPc
    BY <1>5 DEF SendRequestInLoop, exitVars
  <2>3. /\ io'[m].pc = "check"
        /\ \A n \in Managers : n # m =>
              io'[n] = io[n] /\ active'[n] = active[n] /\ finished'[n] = finished[n]
    BY <2>1 DEF TypeOK, IoRecs
  <2>4. CASE S = {}
    <3>1. active'[m] # {}
      BY <2>1, <2>4 DEF TypeOK
    <3> QED BY <2>2, <2>3, <3>1, WorkIo
  <2>5. CASE S # {}
    <3>1. io'[m].early
      BY <2>1, <2>5 DEF IoRecs
    <3> QED BY <2>2, <2>3, <3>1, WorkIo
  <2> QED BY <2>4, <2>5
<1>6. CASE \E S \in SUBSET Objects : SocketAction(m, S)
  <2>1. PICK S \in SUBSET Objects : SocketAction(m, S)
    BY <1>6
  <2> DEFINE n == Cardinality(active[m] \ S)
             i == ReadsMessages(m, n)
             p == IF ReadsMessages(m, n) THEN "read" ELSE "idle"
             v == IF ReadsMessages(m, n) THEN io[m].prev ELSE n
  <2>2. io' = WithAction(io, m, n, i, p, v)
    BY Zenon, <2>1 DEF SocketAction, WithAction
  <2>3. /\ active' = [active EXCEPT ![m] = @ \ S]
        /\ finished' = [finished EXCEPT ![m] = @ \cup S]
        /\ exitPc' = exitPc
    BY <2>1 DEF SocketAction, exitVars
  <2>4. i => p = "read"
    OBVIOUS
  <2>5. n = 0 => i
    BY DEF ReadsMessages
  <2>6. active'[m] = {} => n = 0
    <3>1. active'[m] = active[m] \ S
      BY <2>3 DEF TypeOK
    <3> QED BY <3>1, FS_EmptySet
  <2> HIDE DEF n, i, p, v
  <2>7. io'[m].pc = p /\ \A j \in Managers : j # m => io'[j] = io[j]
    BY <2>2 DEF WithAction, IoRecs
  <2>8. active'[m] # {} \/ io'[m].pc = "read"
    BY <2>4, <2>5, <2>6, <2>7
  <2>9. \A j \in Managers : j # m => active'[j] = active[j] /\ finished'[j] = finished[j]
    BY <2>3 DEF TypeOK
  <2> QED BY <2>3, <2>7, <2>8, <2>9, WorkIo
<1>7. CASE (\E r \in Objects : ReadMessage(m, r)) \/ AfterRequestDone(m)
  <2>1. io[m].pc \in {"read", "after"} /\ exitPc' = exitPc
    BY <1>7 DEF ReadMessage, AfterRequestDone, exitVars
  <2>2. \A n \in Managers : n # m => active'[n] = active[n] /\ finished'[n] = finished[n]
    BY <1>7 DEF ReadMessage, AfterRequestDone, TypeOK
  <2>3. \/ io' = io
        \/ \E r \in Objects : io' = WithHand(io, m, "after", r)
        \/ io' = WithHand(io, m, "read", None)
    BY Zenon, <1>7 DEF ReadMessage, AfterRequestDone, WithHand
  <2>4. io'[m].pc \in {"read", "after"} /\ \A n \in Managers : n # m => io'[n] = io[n]
    BY <2>1, <2>3, SetHand DEF IoPcs
  <2> QED BY <2>1, <2>2, <2>4, WorkIo
<1>8. CASE NoMoreMessages(m)
  <2>1. io' = WithRead(io, m)
    BY Zenon, <1>8 DEF NoMoreMessages, WithRead
  <2>2. finished[m] = {} /\ UNCHANGED <<active, finished, exitPc>>
    BY <1>8 DEF NoMoreMessages, exitVars
  <2>3. io'[m].pc = "check" /\ \A n \in Managers : n # m => io'[n] = io[n]
    BY <2>1, SetRead
  <2> QED BY <2>2, <2>3, WorkIo
<1> QED BY <1>2, <1>3, <1>4, <1>5, <1>6, <1>7, <1>8 DEF IoStep

LEMMA WorkStep ==
  ASSUME IInv, WorkInv, [Next]_vars
  PROVE  WorkInv'
<1>1. CASE ExitBegins \/ ExitStep
  <2>1. exitPc' # "no"
    BY <1>1 DEF ExitBegins, ExitStep, ExitRound, ExitClearsRequesting, ExitClearsRecycle
  <2> QED BY <2>1 DEF WorkInv
<1>2. CASE UNCHANGED vars
  BY <1>2 DEF vars, sendVars, ioVars, exitVars, WorkInv, SomebodyLooks, Busy, PlacesTaken, RequestingFull, Unread
<1> QED BY <1>1, <1>2, WorkUserStep, WorkIoStep DEF Next

\* Until ExitHttpClient every accepted request has somebody who will answer it:
\* no wake-up is lost between the I/O threads, and no message is left unread but
\* those of transfers that ended within curl_multi_add_handle.
THEOREM NothingStranded == Spec => []NoneStranded
<1>1. Init => WorkInv
  BY DEF Init, WorkInv
<1>2. IInv /\ WorkInv /\ [Next]_vars => WorkInv'
  BY WorkStep
<1>3. IInv /\ WorkInv => NoneStranded
  <2> SUFFICES ASSUME IInv, WorkInv, exitPc = "no", NEW r \in due
               PROVE  \/ \E m \in Managers : r \in active[m] \/ io[m].req = r
                      \/ \E m \in Managers :
                            r \in finished[m] /\ (active[m] # {} \/ io[m].pc \in {"read", "after"})
                      \/ /\ r \in Elements(waiting)
                         /\ (\E u \in Users : user[u].pc = "notify") \/ (\E m \in Managers : Busy(m))
                      \/ Missed(r)
    BY DEF NoneStranded
  <2>1. CASE r \in Elements(waiting)
    <3>1. waiting # <<>>
      BY <2>1 DEF Elements
    <3> QED BY <2>1, <3>1 DEF WorkInv, SomebodyLooks, PlacesTaken, Missed
  <2>2. CASE \E m \in Managers : r \in active[m] \/ r \in finished[m] \/ io[m].req = r
    BY <2>2 DEF WorkInv, Missed, Unread
  <2> QED BY <2>1, <2>2 DEF IInv, RunInv
<1> QED BY <1>1, <1>2, <1>3, Invariant, PTL DEF Spec
=============================================================================
