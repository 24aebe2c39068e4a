--------------------------- MODULE NetServerProofs ---------------------------
(***************************************************************************)
(* Proofs about NetServer for any connections, loops, user threads and     *)
(* limits: the counter, the id map and the idle lists agree, idle          *)
(* connections are in front, and the count of unsent messages settles.     *)
(***************************************************************************)
EXTENDS NetServer, FiniteSetTheorems, SequenceTheorems, TLAPS

-----------------------------------------------------------------------------
(* The inductive invariant.                                                *)

Made == {c \in Conns : state_[c] # "none"}

\* What handleClose, the users and the poller hold are connections that were
\* made; only one that can be closed is polled.
ConnInv ==
    /\ IsFiniteSet(Made) /\ told \subseteq Made
    /\ \A c \in polled : Closable(c)
    /\ \A l \in Loops : \A c, d \in reporting[l] : c \in Made /\ loop_[c] = l /\ c = d
    /\ \A u \in Users : /\ upc[u].at # "idle" => upc[u].conn \in Made
                        /\ upc[u].at = "send" => upc[u].msg \in Msgs

\* A functor runs in the loop of its connection, and sendInLoop has a message.
Belongs(l, f) == loop_[f.conn] = l /\ (f.op = "sendInLoop" => f.msg \in Msgs)
AllBelong(l, q) == \A i \in DOMAIN q : Belongs(l, q[i])
FunctorInv == \A l \in Loops : AllBelong(l, functors[l])

\* A list holds connections of its loop, each once.
ListInv ==
    \A l \in Loops :
        /\ \A i \in DOMAIN connlist[l] : connlist[l][i] \in Made /\ loop_[connlist[l][i]] = l
        /\ \A i, j \in DOMAIN connlist[l] : connlist[l][i] = connlist[l][j] => i = j

\* As long as the clock was not set back a list is ordered by last activity.
AgeInv ==
    jumps = 0 =>
        /\ \A c \in Conns : age[c] >= 0
        /\ \A l \in Loops : \A i, j \in DOMAIN connlist[l] :
              i < j => age[connlist[l][i]] >= age[connlist[l][j]]

\* Until a ForceClose has lost the race: a connection in handleClose is
\* disconnected, and the books agree.
BookInv ==
    raced = {} =>
        /\ \A l \in Loops : \A c \in reporting[l] : state_[c] = "kDisconnected"
        /\ nCurrConnNum = Cardinality(Open)
        /\ Cardinality(told \cap Open) <= nMaxConnNum
        /\ UseIds => mapConns = Open
        /\ \A l \in Loops : \A c \in Conns :
              c \in Open /\ loop_[c] = l <=> \E i \in DOMAIN connlist[l] : connlist[l][i] = c

\* The functors that stand for a message: not yet handled, or with its result.
Counts(f) == f.op \in {"onWriteOk", "onWriteErr", "sendInLoop"}
Due(q) == {i \in DOMAIN q : Counts(q[i])}
Pending == UNION {{l} \X Due(functors[l]) : l \in Loops}
Unsent == UNION {{c} \X DOMAIN out[c] : c \in Conns}
Counting == {u \in Users : upc[u].at = "count"}

\* nTotalWaitSendNum is the number of messages on their way, without those that
\* a user has queued and not yet counted, and less the uncounted ones.
CountInv ==
    /\ IsFiniteSet(Pending) /\ IsFiniteSet(Unsent) /\ IsFiniteSet(Counting)
    /\ nTotalWaitSendNum + uncounted
         = Cardinality(Pending) + Cardinality(Unsent) - Cardinality(Counting)

IInv ==
    /\ TypeOK /\ ConnInv /\ FunctorInv /\ ListInv /\ AgeInv /\ BookInv /\ CountInv

-----------------------------------------------------------------------------
(* Queues: how many of the functors in one stand for a message.            *)

LEMMA DueIsFinite ==
  ASSUME NEW q \in Seq(Functors)
  PROVE  /\ IsFiniteSet(Due(q)) /\ Cardinality(Due(q)) \in Nat
         /\ DOMAIN q = 1..Len(q) /\ Len(q) \in Nat
<1>1. DOMAIN q = 1..Len(q) /\ Len(q) \in Nat
  BY LenProperties
<1>2. IsFiniteSet(1..Len(q)) /\ Due(q) \subseteq 1..Len(q)
  BY <1>1, FS_Interval DEF Due
<1>3. IsFiniteSet(Due(q))
  BY <1>2, FS_Subset
<1> QED BY <1>1, <1>3, FS_CardinalityType

\* A functor is added to the end.
LEMMA DueAppend ==
  ASSUME NEW q \in Seq(Functors), NEW f \in Functors
  PROVE  /\ Append(q, f) \in Seq(Functors)
         /\ Cardinality(Due(Append(q, f))) = Cardinality(Due(q)) + (IF Counts(f) THEN 1 ELSE 0)
         /\ \A i \in DOMAIN Append(q, f) : Append(q, f)[i] = f \/ \E j \in DOMAIN q : Append(q, f)[i] = q[j]
<1> DEFINE r == Append(q, f)
           n == Len(q)
<1>1. /\ r \in Seq(Functors) /\ Len(r) = n + 1 /\ r[n + 1] = f
      /\ \A i \in 1..n : r[i] = q[i]
  BY AppendProperties
<1>2. n \in Nat /\ DOMAIN q = 1..n /\ DOMAIN r = 1..n + 1
  BY <1>1, LenProperties
<1> HIDE DEF r, n
<1>3. \A i \in DOMAIN r : i = n + 1 \/ i \in 1..n
  BY <1>2
<1>4. n + 1 \notin Due(q)
  BY <1>2 DEF Due
<1>5. CASE Counts(f)
  <2>1. Due(r) = Due(q) \cup {n + 1}
    BY <1>1, <1>2, <1>3, <1>5 DEF Due
  <2> QED BY <1>1, <1>2, <1>3, <1>4, <1>5, <2>1, DueIsFinite, FS_AddElement DEF r
<1>6. CASE ~Counts(f)
  <2>1. Due(r) = Due(q)
    BY <1>1, <1>2, <1>3, <1>6 DEF Due
  <2> QED BY <1>1, <1>2, <1>3, <1>6, <2>1, DueIsFinite DEF r
<1> QED BY <1>5, <1>6

\* The first functor runs.
LEMMA DueTail ==
  ASSUME NEW q \in Seq(Functors), q # <<>>
  PROVE  /\ Tail(q) \in Seq(Functors) /\ Head(q) \in Functors
         /\ Cardinality(Due(Tail(q))) = Cardinality(Due(q)) - (IF Counts(Head(q)) THEN 1 ELSE 0)
         /\ \A i \in DOMAIN Tail(q) : \E j \in DOMAIN q : Tail(q)[i] = q[j]
         /\ \E j \in DOMAIN q : Head(q) = q[j]
<1> DEFINE r == Tail(q)
           n == Len(q)
<1>1. /\ r \in Seq(Functors) /\ Len(r) = n - 1 /\ Head(q) \in Functors
      /\ \A i \in 1..Len(r) : r[i] = q[i + 1]
  BY HeadTailProperties
<1>2. n \in Nat /\ DOMAIN q = 1..n /\ DOMAIN r = 1..n - 1 /\ n # 0 /\ Head(q) = q[1]
  BY <1>1, LenProperties, EmptySeq
<1> HIDE DEF r, n
<1>3. \A i \in DOMAIN r : i \in Int /\ i + 1 \in DOMAIN q /\ i + 1 # 1 /\ r[i] = q[i + 1]
  BY <1>1, <1>2
<1>4. \A i \in DOMAIN q : i # 1 => i \in Int /\ i - 1 \in DOMAIN r /\ r[i - 1] = q[i] /\ (i - 1) + 1 = i
  BY <1>1, <1>2
<1> DEFINE g == [i \in Due(r) |-> i + 1]
<1>5. g \in Bijection(Due(r), Due(q) \ {1})
  <2>1. g \in [Due(r) -> Due(q) \ {1}]
    BY <1>3 DEF Due
  <2>2. \A i, j \in Due(r) : g[i] = g[j] => i = j
    BY <1>3 DEF Due
  <2>3. ASSUME NEW i \in Due(q) \ {1} PROVE \E j \in Due(r) : g[j] = i
    <3>1. i - 1 \in Due(r) /\ g[i - 1] = i
      BY <1>4 DEF Due
    <3> QED BY <3>1
  <2> HIDE DEF g
  <2> QED BY <2>1, <2>2, <2>3 DEF Bijection, Injection, Surjection, IsInjective
<1>6. IsFiniteSet(Due(r)) /\ Cardinality(Due(r)) = Cardinality(Due(q) \ {1})
  <2>1. IsFiniteSet(Due(r)) /\ ExistsBijection(Due(r), Due(q) \ {1})
    BY <1>1, <1>5, DueIsFinite DEF ExistsBijection
  <2> QED BY <2>1, FS_Bijection
<1>7. Cardinality(Due(q) \ {1}) = IF 1 \in Due(q) THEN Cardinality(Due(q)) - 1 ELSE Cardinality(Due(q))
  BY DueIsFinite, FS_RemoveElement
<1>8. 1 \in Due(q) <=> Counts(Head(q))
  BY <1>2 DEF Due
<1>9. \E j \in DOMAIN q : Head(q) = q[j]
  BY <1>2
<1>10. Cardinality(Due(q)) \in Nat
  BY DueIsFinite
<1> QED BY <1>1, <1>3, <1>6, <1>7, <1>8, <1>9, <1>10 DEF r

LEMMA DisjointUnion ==
  ASSUME NEW A, NEW B, IsFiniteSet(A), IsFiniteSet(B), A \cap B = {}
  PROVE  /\ IsFiniteSet(A \cup B) /\ Cardinality(A) \in Nat /\ Cardinality(B) \in Nat
         /\ Cardinality(A \cup B) \in Nat
         /\ Cardinality(A \cup B) = Cardinality(A) + Cardinality(B)
<1>1. /\ IsFiniteSet(A \cup B)
      /\ Cardinality(A \cup B) = Cardinality(A) + Cardinality(B) - Cardinality(A \cap B)
  BY FS_Union
<1>2. Cardinality(A \cap B) = 0
  BY FS_EmptySet
<1>3. Cardinality(A) \in Nat /\ Cardinality(B) \in Nat /\ Cardinality(A \cup B) \in Nat
  BY <1>1, FS_CardinalityType
<1> QED BY <1>1, <1>2, <1>3

\* Several are added, all of a kind.
LEMMA DueConcat ==
  ASSUME NEW q \in Seq(Functors), NEW r \in Seq(Functors), NEW b \in BOOLEAN,
         \A i \in DOMAIN r : Counts(r[i]) <=> b
  PROVE  /\ q \o r \in Seq(Functors)
         /\ Cardinality(Due(q \o r)) = Cardinality(Due(q)) + (IF b THEN Len(r) ELSE 0)
         /\ \A i \in DOMAIN (q \o r) : \/ \E j \in DOMAIN q : (q \o r)[i] = q[j]
                                       \/ \E j \in DOMAIN r : (q \o r)[i] = r[j]
<1> DEFINE s == q \o r
           n == Len(q)
           m == Len(r)
<1>1. /\ s \in Seq(Functors) /\ Len(s) = n + m
      /\ \A i \in 1..n + m : s[i] = IF i <= n THEN q[i] ELSE r[i - n]
  BY ConcatProperties
<1>2. n \in Nat /\ m \in Nat /\ DOMAIN q = 1..n /\ DOMAIN r = 1..m /\ DOMAIN s = 1..n + m
  BY <1>1, LenProperties
<1> HIDE DEF s, n, m
<1>3. \A i \in 1..n : i \in DOMAIN s /\ s[i] = q[i]
  BY <1>1, <1>2
<1>4. \A i \in n + 1..n + m : i \in DOMAIN s /\ i - n \in DOMAIN r /\ s[i] = r[i - n] /\ i \notin 1..n
  BY <1>1, <1>2
<1>5. \A i \in DOMAIN s : i \in 1..n \/ i \in n + 1..n + m
  BY <1>2
<1>8. \A i \in DOMAIN s : (\E j \in DOMAIN q : s[i] = q[j]) \/ (\E j \in DOMAIN r : s[i] = r[j])
  BY <1>2, <1>3, <1>4, <1>5
<1>6. CASE b
  <2>1. Due(s) = Due(q) \cup (n + 1..n + m)
    BY <1>2, <1>3, <1>4, <1>5, <1>6 DEF Due
  <2>2. Due(q) \cap (n + 1..n + m) = {}
    BY <1>2, <1>4 DEF Due
  <2>3. IsFiniteSet(n + 1..n + m) /\ Cardinality(n + 1..n + m) = m
    BY <1>2, FS_Interval
  <2>4. /\ IsFiniteSet(Due(q)) /\ Cardinality(Due(q)) \in Nat
    BY DueIsFinite
  <2>5. Cardinality(Due(s)) = Cardinality(Due(q)) + m
    BY <2>1, <2>2, <2>3, <2>4, DisjointUnion
  <2>6. /\ s \in Seq(Functors) /\ Cardinality(Due(s)) = Cardinality(Due(q)) + (IF b THEN m ELSE 0)
        /\ \A i \in DOMAIN s : (\E j \in DOMAIN q : s[i] = q[j]) \/ (\E j \in DOMAIN r : s[i] = r[j])
    BY <1>1, <1>6, <1>8, <2>5
  <2> QED BY <2>6 DEF s, m
<1>7. CASE ~b
  <2>1. Due(s) = Due(q)
    BY <1>2, <1>3, <1>4, <1>5, <1>7 DEF Due
  <2>2. Cardinality(Due(q)) \in Nat
    BY DueIsFinite
  <2>3. /\ s \in Seq(Functors) /\ Cardinality(Due(s)) = Cardinality(Due(q)) + (IF b THEN m ELSE 0)
        /\ \A i \in DOMAIN s : (\E j \in DOMAIN q : s[i] = q[j]) \/ (\E j \in DOMAIN r : s[i] = r[j])
    BY <1>1, <1>7, <1>8, <2>1, <2>2
  <2> QED BY <2>3 DEF s, m
<1> QED BY <1>6, <1>7

LEMMA Initial ==
  ASSUME NEW n \in Nat
  PROVE  IsFiniteSet(1..n) /\ Cardinality(1..n) = n
BY FS_Interval

LEMMA Labelled ==
  ASSUME NEW x, NEW S, IsFiniteSet(S)
  PROVE  IsFiniteSet({x} \X S) /\ Cardinality({x} \X S) = Cardinality(S)
<1> DEFINE g == [i \in S |-> <<x, i>>]
<1>1. g \in [S -> {x} \X S] /\ \A i, j \in S : g[i] = g[j] => i = j
  OBVIOUS
<1>2. \A p \in {x} \X S : \E i \in S : g[i] = p
  OBVIOUS
<1> HIDE DEF g
<1>3. g \in Bijection(S, {x} \X S)
  BY <1>1, <1>2 DEF Bijection, Injection, Surjection, IsInjective
<1>4. ExistsBijection(S, {x} \X S)
  BY <1>3 DEF ExistsBijection
<1> QED BY <1>4, FS_Bijection

\* The queue of one loop changes.
LEMMA PendingChange ==
  ASSUME TypeOK, NEW l \in Loops, functors' \in [Loops -> Seq(Functors)],
         \A k \in Loops : k # l => functors'[k] = functors[k],
         IsFiniteSet(Pending)
  PROVE  /\ IsFiniteSet(Pending') /\ Cardinality(Pending) \in Nat /\ Cardinality(Pending') \in Nat
         /\ Cardinality(Pending') - Cardinality(Pending)
              = Cardinality(Due(functors'[l])) - Cardinality(Due(functors[l]))
<1> DEFINE Others == UNION {{k} \X Due(functors[k]) : k \in Loops \ {l}}
           Old == {l} \X Due(functors[l])
           New == {l} \X Due(functors'[l])
<1>1. functors[l] \in Seq(Functors) /\ functors'[l] \in Seq(Functors)
  BY DEF TypeOK
<1>2. Pending = Others \cup Old /\ Others \cap Old = {}
  BY DEF Pending
<1>3. Pending' = Others \cup New /\ Others \cap New = {}
  BY DEF Pending
<1>5. /\ IsFiniteSet(Old) /\ IsFiniteSet(New) /\ Cardinality(Old) = Cardinality(Due(functors[l]))
      /\ Cardinality(New) = Cardinality(Due(functors'[l]))
  BY <1>1, DueIsFinite, Labelled
<1>6. IsFiniteSet(Others)
  BY <1>2, FS_Subset
<1> HIDE DEF Others, Old, New
<1>7. /\ IsFiniteSet(Pending') /\ Cardinality(Pending) \in Nat /\ Cardinality(Pending') \in Nat
      /\ Cardinality(Others) \in Nat /\ Cardinality(Old) \in Nat /\ Cardinality(New) \in Nat
      /\ Cardinality(Pending) = Cardinality(Others) + Cardinality(Old)
      /\ Cardinality(Pending') = Cardinality(Others) + Cardinality(New)
  BY <1>2, <1>3, <1>5, <1>6, DisjointUnion
<1> QED BY <1>5, <1>7

\* The unsent messages of one connection change.
LEMMA UnsentChange ==
  ASSUME TypeOK, NEW c \in Conns, out' \in [Conns -> Seq(Msgs)],
         \A d \in Conns : d # c => out'[d] = out[d],
         IsFiniteSet(Unsent)
  PROVE  /\ IsFiniteSet(Unsent') /\ Cardinality(Unsent) \in Nat /\ Cardinality(Unsent') \in Nat
         /\ Cardinality(Unsent') - Cardinality(Unsent) = Len(out'[c]) - Len(out[c])
<1> DEFINE Others == UNION {{d} \X DOMAIN out[d] : d \in Conns \ {c}}
           Old == {c} \X DOMAIN out[c]
           New == {c} \X DOMAIN out'[c]
<1>1. out[c] \in Seq(Msgs) /\ out'[c] \in Seq(Msgs)
  BY DEF TypeOK
<1>2. Unsent = Others \cup Old /\ Others \cap Old = {}
  BY DEF Unsent
<1>3. Unsent' = Others \cup New /\ Others \cap New = {}
  BY DEF Unsent
<1>4. \A q \in Seq(Msgs) : IsFiniteSet(DOMAIN q) /\ Cardinality(DOMAIN q) = Len(q)
  <2> SUFFICES ASSUME NEW q \in Seq(Msgs) PROVE IsFiniteSet(DOMAIN q) /\ Cardinality(DOMAIN q) = Len(q)
    OBVIOUS
  <2>1. DOMAIN q = 1..Len(q) /\ Len(q) \in Nat
    BY LenProperties
  <2>2. IsFiniteSet(1..Len(q)) /\ Cardinality(1..Len(q)) = Len(q)
    BY <2>1, Initial
  <2> QED BY <2>1, <2>2
<1>5. /\ IsFiniteSet(Old) /\ IsFiniteSet(New) /\ Cardinality(Old) = Len(out[c])
      /\ Cardinality(New) = Len(out'[c])
  BY <1>1, <1>4, Labelled
<1>6. IsFiniteSet(Others)
  BY <1>2, FS_Subset
<1> HIDE DEF Others, Old, New
<1>7. /\ IsFiniteSet(Unsent') /\ Cardinality(Unsent) \in Nat /\ Cardinality(Unsent') \in Nat
      /\ Cardinality(Others) \in Nat /\ Cardinality(Old) \in Nat /\ Cardinality(New) \in Nat
      /\ Cardinality(Unsent) = Cardinality(Others) + Cardinality(Old)
      /\ Cardinality(Unsent') = Cardinality(Others) + Cardinality(New)
  BY <1>2, <1>3, <1>5, <1>6, DisjointUnion
<1> QED BY <1>5, <1>7

-----------------------------------------------------------------------------
(* Lists: what is left of one when entries are taken out.                  *)

\* e is what some entries of list are, in their order.
Thinned(e, list) ==
    \E g \in [DOMAIN e -> DOMAIN list] :
        /\ \A i, j \in DOMAIN e : i < j => g[i] < g[j]
        /\ \A i \in DOMAIN e : e[i] = list[g[i]]

LEMMA ThinnedFacts ==
  ASSUME NEW list \in Seq(Conns), NEW e \in Seq(Conns), Thinned(e, list),
         \A i, j \in DOMAIN list : list[i] = list[j] => i = j
  PROVE  /\ \A i \in DOMAIN e : \E j \in DOMAIN list : e[i] = list[j]
         /\ \A i, j \in DOMAIN e : i < j => \E a, b \in DOMAIN list : a < b /\ e[i] = list[a] /\ e[j] = list[b]
         /\ \A i, j \in DOMAIN e : e[i] = e[j] => i = j
<1>1. PICK g \in [DOMAIN e -> DOMAIN list] :
        /\ \A i, j \in DOMAIN e : i < j => g[i] < g[j]
        /\ \A i \in DOMAIN e : e[i] = list[g[i]]
  BY DEF Thinned
<1>2. DOMAIN e \subseteq Nat /\ DOMAIN list \subseteq Nat
  BY LenProperties
<1>3. \A i \in DOMAIN e : g[i] \in DOMAIN list /\ e[i] = list[g[i]]
  BY <1>1
<1>4. \A i, j \in DOMAIN e : e[i] = e[j] => i = j
  <2> SUFFICES ASSUME NEW i \in DOMAIN e, NEW j \in DOMAIN e, e[i] = e[j] PROVE i = j
    OBVIOUS
  <2>1. g[i] = g[j] /\ g[i] \in Nat
    BY <1>2, <1>3
  <2>2. ~(i < j) /\ ~(j < i)
    BY <1>1, <2>1
  <2> QED BY <1>2, <2>2
<1>5. \A i, j \in DOMAIN e : i < j => \E a, b \in DOMAIN list : a < b /\ e[i] = list[a] /\ e[j] = list[b]
  BY <1>1, <1>3
<1> QED BY <1>3, <1>4, <1>5

\* RemoveAt.
LEMMA RemoveAtFacts ==
  ASSUME NEW S, NEW s \in Seq(S), NEW p \in DOMAIN s
  PROVE  /\ RemoveAt(s, p) \in Seq(S) /\ Len(RemoveAt(s, p)) = Len(s) - 1
         /\ \A i \in DOMAIN RemoveAt(s, p) : /\ RemoveAt(s, p)[i] = s[IF i < p THEN i ELSE i + 1]
                                             /\ (IF i < p THEN i ELSE i + 1) \in DOMAIN s \ {p}
         /\ \A j \in DOMAIN s \ {p} : \E i \in DOMAIN RemoveAt(s, p) : RemoveAt(s, p)[i] = s[j]
         /\ \A i \in DOMAIN RemoveAt(s, p) : i \in Nat
<1> DEFINE n == Len(s)
           a == SubSeq(s, 1, p - 1)
           b == SubSeq(s, p + 1, n)
           r == RemoveAt(s, p)
<1>1. n \in Nat /\ DOMAIN s = 1..n /\ p \in 1..n /\ \A i \in 1..n : s[i] \in S
  BY LenProperties
<1> HIDE DEF n
<1>2. /\ a \in Seq(S) /\ Len(a) = p - 1
      /\ \A i \in 1..p - 1 : a[i] = s[i]
  <2>1. \A i \in 1..p - 1 : s[i] \in S
    BY <1>1
  <2>2. a \in Seq(S) /\ Len(a) = (IF 1 <= p - 1 THEN (p - 1) - 1 + 1 ELSE 0)
        /\ \A i \in 1..(p - 1) - 1 + 1 : a[i] = s[1 + i - 1]
    BY <1>1, <2>1, SubSeqProperties
  <2> HIDE DEF a
  <2> QED BY <1>1, <2>2
<1>3. /\ b \in Seq(S) /\ Len(b) = n - p
      /\ \A i \in 1..n - p : b[i] = s[p + i]
  <2>1. \A i \in p + 1..n : s[i] \in S
    BY <1>1
  <2>2. b \in Seq(S) /\ Len(b) = (IF p + 1 <= n THEN n - (p + 1) + 1 ELSE 0)
        /\ \A i \in 1..n - (p + 1) + 1 : b[i] = s[(p + 1) + i - 1]
    BY <1>1, <2>1, SubSeqProperties
  <2> HIDE DEF b
  <2>3. \A i \in 1..n - p : i \in 1..n - (p + 1) + 1 /\ (p + 1) + i - 1 = p + i
    BY <1>1
  <2> QED BY <1>1, <2>2, <2>3
<1>4. r = a \o b
  BY DEF RemoveAt, n
<1> HIDE DEF a, b, r
<1>5. /\ r \in Seq(S) /\ Len(r) = n - 1
      /\ \A i \in 1..(p - 1) + (n - p) : r[i] = IF i <= p - 1 THEN a[i] ELSE b[i - (p - 1)]
  BY <1>1, <1>2, <1>3, <1>4, ConcatProperties
<1>6. DOMAIN r = 1..n - 1
  BY <1>1, <1>5
<1>7. \A i \in 1..n - 1 : r[i] = s[IF i < p THEN i ELSE i + 1]
  <2> SUFFICES ASSUME NEW i \in 1..n - 1 PROVE r[i] = s[IF i < p THEN i ELSE i + 1]
    OBVIOUS
  <2>1. i \in 1..(p - 1) + (n - p)
    BY <1>1
  <2>2. CASE i < p
    <3>1. i <= p - 1 /\ i \in 1..p - 1
      BY <1>1, <2>2
    <3> QED BY <1>2, <1>5, <2>1, <2>2, <3>1
  <2>3. CASE ~(i < p)
    <3>1. ~(i <= p - 1) /\ i - (p - 1) \in 1..n - p /\ p + (i - (p - 1)) = i + 1
      BY <1>1, <2>3
    <3> QED BY <1>3, <1>5, <2>1, <2>3, <3>1
  <2> QED BY <2>2, <2>3
<1>8. \A i \in 1..n - 1 : (IF i < p THEN i ELSE i + 1) \in 1..n /\ (IF i < p THEN i ELSE i + 1) # p
  BY <1>1
<1>9. ASSUME NEW j \in DOMAIN s \ {p} PROVE \E i \in DOMAIN r : r[i] = s[j]
  <2>1. CASE j < p
    <3>1. j \in 1..n - 1 /\ r[j] = s[j]
      BY <1>1, <1>7, <2>1
    <3> QED BY <1>6, <3>1
  <2>2. CASE ~(j < p)
    <3>1. j - 1 \in 1..n - 1 /\ ~(j - 1 < p) /\ (j - 1) + 1 = j
      BY <1>1, <2>2
    <3>2. r[j - 1] = s[j]
      BY <1>7, <3>1
    <3> QED BY <1>6, <3>1, <3>2
  <2> QED BY <2>1, <2>2
<1>10. \A i \in DOMAIN r : i \in Nat
  BY <1>1, <1>6
<1> QED BY <1>1, <1>5, <1>6, <1>7, <1>8, <1>9, <1>10 DEF r, n

LEMMA EraseFacts ==
  ASSUME NEW list \in Seq(Conns), NEW c, \A i, j \in DOMAIN list : list[i] = list[j] => i = j
  PROVE  /\ Erase(list, c) \in Seq(Conns) /\ Thinned(Erase(list, c), list)
         /\ \A i \in DOMAIN Erase(list, c) : Erase(list, c)[i] # c
         /\ \A j \in DOMAIN list : list[j] # c => \E i \in DOMAIN Erase(list, c) : Erase(list, c)[i] = list[j]
<1> DEFINE places == {i \in DOMAIN list : list[i] = c}
           e == Erase(list, c)
<1>1. CASE places = {}
  <2>1. e = list
    BY <1>1 DEF Erase
  <2>2. Thinned(list, list)
    <3>1. [i \in DOMAIN list |-> i] \in [DOMAIN list -> DOMAIN list]
      OBVIOUS
    <3> QED BY <3>1 DEF Thinned
  <2> QED BY <1>1, <2>1, <2>2
<1>2. CASE places # {}
  <2>1. PICK p \in places : e = RemoveAt(list, p)
    BY <1>2 DEF Erase
  <2>2. p \in DOMAIN list /\ list[p] = c
    BY <2>1
  <2> DEFINE r == RemoveAt(list, p)
             g == [i \in DOMAIN r |-> IF i < p THEN i ELSE i + 1]
  <2>3. /\ r \in Seq(Conns)
        /\ \A i \in DOMAIN r : /\ r[i] = list[IF i < p THEN i ELSE i + 1]
                               /\ (IF i < p THEN i ELSE i + 1) \in DOMAIN list \ {p}
                               /\ i \in Nat
        /\ \A j \in DOMAIN list \ {p} : \E i \in DOMAIN r : r[i] = list[j]
    BY <2>2, RemoveAtFacts
  <2> HIDE DEF r
  <2>4. p \in Nat
    BY <2>2, LenProperties
  <2>5. g \in [DOMAIN r -> DOMAIN list] /\ \A i \in DOMAIN r : r[i] = list[g[i]] /\ g[i] # p
    BY <2>3
  <2>6. \A i, j \in DOMAIN r : i < j => g[i] < g[j]
    BY <2>3, <2>4
  <2> HIDE DEF g
  <2>7. Thinned(r, list)
    BY <2>5, <2>6 DEF Thinned
  <2>8. \A i \in DOMAIN r : r[i] # c
    BY <2>2, <2>5
  <2>9. e = r
    BY <2>1 DEF r
  <2> HIDE DEF e
  <2>10. /\ e \in Seq(Conns) /\ Thinned(e, list) /\ \A i \in DOMAIN e : e[i] # c
         /\ \A j \in DOMAIN list : list[j] # c => \E i \in DOMAIN e : e[i] = list[j]
    BY <2>2, <2>3, <2>7, <2>8, <2>9
  <2> QED BY <2>10 DEF e
<1> QED BY <1>1, <1>2

\* A selection of the entries, as onCheckConnTimeOut makes it.
LEMMA InOrderFacts ==
  ASSUME NEW list \in Seq(Conns), NEW S, S \subseteq DOMAIN list, NEW f \in InOrder(S)
  PROVE  /\ DOMAIN f = 1..Cardinality(S) /\ Cardinality(S) \in Nat
         /\ [i \in DOMAIN f |-> list[f[i]]] \in Seq(Conns)
         /\ Thinned([i \in DOMAIN f |-> list[f[i]]], list)
         /\ \A i \in DOMAIN f : f[i] \in S
         /\ \A j \in S : \E i \in DOMAIN f : f[i] = j
<1> DEFINE n == Cardinality(S)
           e == [i \in DOMAIN f |-> list[f[i]]]
<1>1. IsFiniteSet(DOMAIN list) /\ n \in Nat
  <2>1. DOMAIN list = 1..Len(list) /\ Len(list) \in Nat
    BY LenProperties
  <2>2. IsFiniteSet(1..Len(list))
    BY <2>1, Initial
  <2> QED BY <2>1, <2>2, FS_Subset, FS_CardinalityType
<1>2. /\ f \in [1..n -> S] /\ \A j \in S : \E i \in 1..n : f[i] = j
      /\ \A i, j \in 1..n : i < j => f[i] < f[j]
  BY DEF InOrder, Bijection, Injection, Surjection
<1> HIDE DEF n
<1>3. DOMAIN f = 1..n /\ \A i \in 1..n : f[i] \in S /\ f[i] \in DOMAIN list /\ list[f[i]] \in Conns
  BY <1>2, LenProperties
<1>4. e \in Seq(Conns) /\ DOMAIN e = 1..n
  BY <1>1, <1>3
<1>5. Thinned(e, list)
  <2>1. f \in [DOMAIN e -> DOMAIN list]
    BY <1>2, <1>4
  <2> QED BY <1>2, <1>3, <1>4, <2>1 DEF Thinned
<1> QED BY <1>1, <1>2, <1>3, <1>4, <1>5 DEF n

-----------------------------------------------------------------------------
(* What the operators of the model do.                                     *)

ConnStates == {"none", "kConnected", "kDisconnecting", "kDisconnected"}

\* The only change of state_ is shutdown() or forceClose() by the loop thread.
OnlyDisconnecting ==
    /\ state_' \in [Conns -> ConnStates]
    /\ \A c \in Conns : state_'[c] = state_[c] \/ (Closable(c) /\ state_'[c] = "kDisconnecting")

\* The queue of l becomes q, the others are left alone.
QueueIs(l, q) ==
    /\ q \in Seq(Functors) /\ AllBelong(l, q)
    /\ functors' \in [Loops -> Seq(Functors)] /\ functors'[l] = q
    /\ \A k \in Loops : k # l => functors'[k] = functors[k]

LEMMA NewFunctor ==
  ASSUME NEW c \in Conns, NEW l, loop_[c] = l,
         NEW op \in {"onWriteOk", "onWriteErr", "onHighWater", "forceCloseInLoop"}, NEW m \in Msgs \cup {NoMsg}
  PROVE  /\ Fn(op, c, m) \in Functors /\ Belongs(l, Fn(op, c, m))
         /\ Counts(Fn(op, c, m)) <=> op \in {"onWriteOk", "onWriteErr"}
BY DEF Fn, Functors, Belongs, Counts

LEMMA QueueOf ==
  ASSUME TypeOK, FunctorInv, NEW l \in Loops
  PROVE  functors[l] \in Seq(Functors) /\ AllBelong(l, functors[l])
BY DEF TypeOK, FunctorInv

LEMMA QueueBelongs ==
  ASSUME FunctorInv, NEW l \in Loops, NEW q, QueueIs(l, q), loop_' = loop_
  PROVE  FunctorInv'
<1> SUFFICES ASSUME NEW k \in Loops PROVE AllBelong(k, functors[k])'
  BY DEF FunctorInv
<1>1. AllBelong(k, functors[k]) /\ AllBelong(l, q)
  BY DEF FunctorInv, QueueIs
<1>2. CASE k = l
  BY <1>1, <1>2 DEF QueueIs, AllBelong, Belongs
<1>3. CASE k # l
  BY <1>1, <1>3 DEF QueueIs, AllBelong, Belongs
<1> QED BY <1>2, <1>3

LEMMA CloseIfEffect ==
  ASSUME TypeOK, NEW w, NEW l \in Loops, NEW c \in Conns, loop_[c] = l,
         NEW waiting \in Seq(Functors), AllBelong(l, waiting), CloseIf(w, l, c, waiting)
  PROVE  /\ OnlyDisconnecting
         /\ \E q : QueueIs(l, q) /\ Cardinality(Due(q)) = Cardinality(Due(waiting))
<1> DEFINE f == Fn("forceCloseInLoop", c, NoMsg)
<1>1. f \in Functors /\ Belongs(l, f) /\ ~Counts(f)
  BY NewFunctor
<1> HIDE DEF f
<1>2. state_ \in [Conns -> ConnStates] /\ functors \in [Loops -> Seq(Functors)]
  BY DEF TypeOK, ConnStates
<1>3. CASE w /\ Closable(c)
  <2>1. /\ state_' = [state_ EXCEPT ![c] = "kDisconnecting"]
        /\ functors' = [functors EXCEPT ![l] = Append(waiting, f)]
    BY <1>3 DEF CloseIf, f
  <2>2. OnlyDisconnecting
    BY <1>2, <1>3, <2>1 DEF OnlyDisconnecting, ConnStates
  <2>3. /\ Append(waiting, f) \in Seq(Functors) /\ Cardinality(Due(waiting)) \in Nat
        /\ Cardinality(Due(Append(waiting, f))) = Cardinality(Due(waiting))
        /\ AllBelong(l, Append(waiting, f))
    BY <1>1, DueAppend, DueIsFinite DEF AllBelong
  <2>4. QueueIs(l, Append(waiting, f))
    BY <1>2, <2>1, <2>3 DEF QueueIs
  <2> QED BY <2>2, <2>3, <2>4
<1>4. CASE ~(w /\ Closable(c))
  <2>1. state_' = state_ /\ functors' = [functors EXCEPT ![l] = waiting]
    BY <1>4 DEF CloseIf
  <2>2. OnlyDisconnecting
    BY <1>2, <2>1 DEF OnlyDisconnecting
  <2>3. QueueIs(l, waiting)
    BY <1>2, <2>1 DEF QueueIs
  <2> QED BY <2>2, <2>3
<1> QED BY <1>3, <1>4

\* The unsent messages of c become s.
OutIs(c, s) ==
    /\ s \in Seq(Msgs) /\ out' \in [Conns -> Seq(Msgs)] /\ out'[c] = s
    /\ \A d \in Conns : d # c => out'[d] = out[d]

\* sendInLoop, with what waits in the loop before: the message is kept or its
\* result is queued.
LEMMA SendEffect ==
  ASSUME TypeOK, NEW c \in Conns, NEW l, loop_[c] = l, NEW m \in Msgs, NEW o \in SendOutcomes(c),
         out' = Kept(c, m, o), NEW q \in Seq(Functors), AllBelong(l, q)
  PROVE  /\ q \o Queued(c, m, o) \in Seq(Functors) /\ AllBelong(l, q \o Queued(c, m, o))
         /\ \E s : /\ OutIs(c, s) /\ Len(s) \in Nat /\ Len(out[c]) \in Nat
                   /\ Cardinality(Due(q \o Queued(c, m, o))) + Len(s) = Cardinality(Due(q)) + Len(out[c]) + 1
<1>1. out[c] \in Seq(Msgs) /\ out \in [Conns -> Seq(Msgs)] /\ Len(out[c]) \in Nat
  BY LenProperties DEF TypeOK
<1>2. Cardinality(Due(q)) \in Nat
  BY DueIsFinite
<1>3. o \in {"onWriteOk", "onWriteErr", "wait"}
  BY DEF SendOutcomes
<1> DEFINE r == q \o Queued(c, m, o)
<1>4. ASSUME NEW f \in Functors, Belongs(l, f), Queued(c, m, o) = <<f>>
      PROVE  /\ r \in Seq(Functors) /\ AllBelong(l, r)
             /\ Cardinality(Due(r)) = Cardinality(Due(q)) + (IF Counts(f) THEN 1 ELSE 0)
  <2>1. r = Append(q, f)
    BY <1>4, AppendIsConcat
  <2>2. AllBelong(l, Append(q, f))
    BY <1>4, DueAppend DEF AllBelong
  <2> HIDE DEF r
  <2> QED BY <2>1, <2>2, DueAppend
<1>5. CASE o # "wait"
  <2>1. Fn(o, c, m) \in Functors /\ Belongs(l, Fn(o, c, m)) /\ Counts(Fn(o, c, m)) /\ Queued(c, m, o) = <<Fn(o, c, m)>>
    BY <1>3, <1>5, NewFunctor DEF Queued
  <2>2. OutIs(c, out[c])
    BY <1>1, <1>5 DEF Kept, OutIs
  <2>3. r \in Seq(Functors) /\ AllBelong(l, r) /\ Cardinality(Due(r)) = Cardinality(Due(q)) + 1
    BY <1>4, <2>1
  <2> HIDE DEF r
  <2>4. Cardinality(Due(r)) + Len(out[c]) = Cardinality(Due(q)) + Len(out[c]) + 1
    BY <1>1, <1>2, <2>3
  <2> QED BY <1>1, <2>2, <2>3, <2>4 DEF r
<1>6. CASE o = "wait"
  <2>1. /\ Append(out[c], m) \in Seq(Msgs) /\ Len(Append(out[c], m)) = Len(out[c]) + 1
    BY <1>1, AppendProperties
  <2>2. OutIs(c, Append(out[c], m))
    BY <1>1, <1>6, <2>1 DEF Kept, OutIs
  <2>3. r \in Seq(Functors) /\ AllBelong(l, r) /\ Cardinality(Due(r)) = Cardinality(Due(q))
    <3>1. CASE Queued(c, m, o) = <<Fn("onHighWater", c, NoMsg)>>
      <4>1. /\ Fn("onHighWater", c, NoMsg) \in Functors /\ Belongs(l, Fn("onHighWater", c, NoMsg))
            /\ ~Counts(Fn("onHighWater", c, NoMsg))
        BY NewFunctor
      <4>2. r \in Seq(Functors) /\ AllBelong(l, r) /\ Cardinality(Due(r)) = Cardinality(Due(q)) + 0
        BY <1>4, <3>1, <4>1
      <4> HIDE DEF r
      <4> QED BY <1>2, <4>2
    <3>2. CASE Queued(c, m, o) = <<>>
      <4>1. r = q
        BY <3>2, ConcatEmptySeq
      <4> HIDE DEF r
      <4> QED BY <4>1
    <3> QED BY <1>6, <3>1, <3>2 DEF Queued
  <2> HIDE DEF r
  <2>4. Cardinality(Due(r)) + Len(Append(out[c], m)) = Cardinality(Due(q)) + Len(out[c]) + 1
    BY <1>1, <1>2, <2>1, <2>3
  <2>5. Len(Append(out[c], m)) \in Nat
    BY <1>1, <2>1
  <2> QED BY <1>1, <2>2, <2>3, <2>4, <2>5 DEF r
<1> QED BY <1>5, <1>6

\* The counter changes as the messages on their way do.
LEMMA Balanced ==
  ASSUME TypeOK, CountInv, NEW l \in Loops, NEW q, QueueIs(l, q), NEW c \in Conns, NEW s, OutIs(c, s),
         nTotalWaitSendNum' \in Int, uncounted' \in Nat, IsFiniteSet(Counting'),
         nTotalWaitSendNum' + uncounted' + Cardinality(Counting') + Cardinality(Due(functors[l])) + Len(out[c])
           = nTotalWaitSendNum + uncounted + Cardinality(Counting) + Cardinality(Due(q)) + Len(s)
  PROVE  CountInv'
<1>1. /\ functors[l] \in Seq(Functors) /\ q \in Seq(Functors) /\ out[c] \in Seq(Msgs) /\ s \in Seq(Msgs)
      /\ nTotalWaitSendNum \in Int /\ uncounted \in Int /\ uncounted' \in Int
  BY DEF TypeOK, QueueIs, OutIs
<1>2. /\ IsFiniteSet(Pending') /\ Cardinality(Pending) \in Nat /\ Cardinality(Pending') \in Nat
      /\ Cardinality(Pending') - Cardinality(Pending) = Cardinality(Due(q)) - Cardinality(Due(functors[l]))
  BY PendingChange DEF QueueIs, CountInv
<1>3. /\ IsFiniteSet(Unsent') /\ Cardinality(Unsent) \in Nat /\ Cardinality(Unsent') \in Nat
      /\ Cardinality(Unsent') - Cardinality(Unsent) = Len(s) - Len(out[c])
  BY UnsentChange DEF OutIs, CountInv
<1>4. /\ Cardinality(Due(q)) \in Nat /\ Cardinality(Due(functors[l])) \in Nat /\ Len(s) \in Nat /\ Len(out[c]) \in Nat
      /\ Cardinality(Counting) \in Nat /\ Cardinality(Counting') \in Nat
  BY <1>1, DueIsFinite, LenProperties, FS_CardinalityType DEF CountInv
<1>5. nTotalWaitSendNum' + uncounted'
         = Cardinality(Pending') + Cardinality(Unsent') - Cardinality(Counting')
  <2>1. nTotalWaitSendNum + uncounted = Cardinality(Pending) + Cardinality(Unsent) - Cardinality(Counting)
    BY DEF CountInv
  <2> DEFINE p == Cardinality(Pending)
             p1 == Cardinality(Pending')
             t == Cardinality(Unsent)
             t1 == Cardinality(Unsent')
             k == Cardinality(Counting)
             k1 == Cardinality(Counting')
             d == Cardinality(Due(functors[l]))
             d1 == Cardinality(Due(q))
  <2>2. /\ p \in Nat /\ p1 \in Nat /\ t \in Nat /\ t1 \in Nat /\ k \in Nat /\ k1 \in Nat
        /\ d \in Nat /\ d1 \in Nat
    BY <1>2, <1>3, <1>4
  <2>3. nTotalWaitSendNum + uncounted = p + t - k /\ p1 - p = d1 - d /\ t1 - t = Len(s) - Len(out[c])
    BY <1>2, <1>3, <2>1
  <2>4. nTotalWaitSendNum' + uncounted' + k1 + d + Len(out[c]) = nTotalWaitSendNum + uncounted + k + d1 + Len(s)
    OBVIOUS
  <2>5. Len(s) \in Nat /\ Len(out[c]) \in Nat
    BY <1>4
  <2> HIDE DEF p, p1, t, t1, k, k1, d, d1
  <2>6. nTotalWaitSendNum' + uncounted' = p1 + t1 - k1
    <3>1. nTotalWaitSendNum \in Int /\ uncounted \in Int /\ nTotalWaitSendNum' \in Int /\ uncounted' \in Int
      BY <1>1
    <3>2. p1 = p + d1 - d /\ t1 = t + Len(s) - Len(out[c])
      BY <2>2, <2>3, <2>5
    <3>3. nTotalWaitSendNum' + uncounted' + k1 + d + Len(out[c]) = p + t - k + k + d1 + Len(s)
      BY <2>2, <2>3, <2>4, <2>5, <3>1
    <3>4. nTotalWaitSendNum' + uncounted' \in Int
      BY <3>1
    <3> DEFINE n == nTotalWaitSendNum' + uncounted'
               a == Len(s)
               b == Len(out[c])
    <3>5. n \in Int /\ a \in Nat /\ b \in Nat /\ p1 = p + d1 - d /\ t1 = t + a - b /\ n + k1 + d + b = p + t - k + k + d1 + a
      BY <2>5, <3>2, <3>3, <3>4
    <3> HIDE DEF n, a, b
    <3>6. n = p + t + d1 + a - k1 - d - b
      BY <2>2, <3>5
    <3>7. p1 + t1 - k1 = p + t + d1 + a - k1 - d - b
      BY <2>2, <3>5
    <3>8. n = p1 + t1 - k1
      BY <3>6, <3>7
    <3> QED BY <3>8 DEF n
  <2> QED BY <2>6 DEF p1, t1, k1
<1> QED BY <1>2, <1>3, <1>5 DEF CountInv

\* What the users hold are connections that were made.
UsersHold == \A u \in Users : /\ upc'[u].at # "idle" => upc'[u].conn \in Made
                              /\ upc'[u].at = "send" => upc'[u].msg \in Msgs

\* A connection that was made is told to disconnect, rightly or not.
LEMMA QuietConn ==
  ASSUME ConnInv, UsersHold, UNCHANGED <<loop_, polled, reporting, told>>,
         \A c \in Conns : state_'[c] = state_[c] \/ (state_[c] # "none" /\ state_'[c] = "kDisconnecting"),
         polled \subseteq Conns
  PROVE  ConnInv' /\ Made' = Made
<1>1. Made' = Made
  BY DEF Made
<1>2. \A c \in polled' : Closable(c)'
  BY DEF ConnInv, Closable
<1> QED BY <1>1, <1>2 DEF ConnInv, UsersHold

\* No connection appears, goes down or leaves a list.
LEMMA QuietBooks ==
  ASSUME BookInv, OnlyDisconnecting, raced' = {} => raced = {},
         UNCHANGED <<nMaxConnNum, loop_, reporting, nCurrConnNum, mapConns, told>>,
         reporting \in [Loops -> SUBSET Conns], loop_ \in [Conns -> Loops],
         raced = {} => \A l \in Loops : \A c \in Conns :
            (\E i \in DOMAIN connlist'[l] : connlist'[l][i] = c) <=> \E i \in DOMAIN connlist[l] : connlist[l][i] = c
  PROVE  BookInv' /\ Open' = Open
<1>1. Open' = Open
  BY DEF Open, OnlyDisconnecting, Closable
<1>2. ASSUME raced' = {}, NEW l \in Loops, NEW c \in reporting'[l] PROVE state_'[c] = "kDisconnected"
  <2>1. c \in Conns /\ state_[c] = "kDisconnected"
    BY <1>2 DEF BookInv
  <2> QED BY <2>1 DEF OnlyDisconnecting, Closable
<1> QED BY <1>1, <1>2 DEF BookInv

\* The functors and the unsent messages change, nothing else of note does.
LEMMA QuietStep ==
  ASSUME IInv, TypeOK', FunctorInv', CountInv', UsersHold, OnlyDisconnecting, raced' = {} => raced = {},
         UNCHANGED <<nMaxConnNum, loop_, polled, reporting, connlist, age, nCurrConnNum, mapConns, told, jumps>>
  PROVE  IInv'
<1>1. ConnInv' /\ Made' = Made
  <2>1. \A c \in Conns : state_'[c] = state_[c] \/ (state_[c] # "none" /\ state_'[c] = "kDisconnecting")
    BY DEF OnlyDisconnecting, Closable
  <2>2. polled \subseteq Conns
    BY DEF IInv, TypeOK
  <2> QED BY <2>1, <2>2, QuietConn DEF IInv
<1>2. BookInv'
  <2>1. reporting \in [Loops -> SUBSET Conns] /\ loop_ \in [Conns -> Loops]
    BY DEF IInv, TypeOK
  <2> QED BY <2>1, QuietBooks DEF IInv
<1>3. ListInv'
  BY <1>1 DEF IInv, ListInv
<1>4. AgeInv'
  BY DEF IInv, AgeInv
<1> QED BY <1>1, <1>2, <1>3, <1>4 DEF IInv

LEMMA UsersStay ==
  ASSUME ConnInv, UNCHANGED upc
  PROVE  UsersHold
BY DEF ConnInv, UsersHold

-----------------------------------------------------------------------------
(* The steps of the loops on one connection.                               *)

\* handleClose up to its callback.
LEMMA StartCloseStep ==
  ASSUME IInv, NEW c \in Conns, NEW rest \in Seq(Functors), AllBelong(loop_[c], rest),
         Cardinality(Due(rest)) = Cardinality(Due(functors[loop_[c]])),
         LoopFree(loop_[c]), Closable(c), StartClose(c, rest),
         UNCHANGED <<config, loop_, needclose_, books, hasRsp100, nTotalWaitSendNum, upc, history,
                     jumps, reads, calls>>
  PROVE  IInv'
<1> DEFINE l == loop_[c]
           failed == [i \in DOMAIN out[c] |-> Fn("onWriteErr", c, out[c][i])]
           q == rest \o failed
<1>1. /\ l \in Loops /\ out \in [Conns -> Seq(Msgs)] /\ out[c] \in Seq(Msgs)
      /\ functors \in [Loops -> Seq(Functors)] /\ functors[l] \in Seq(Functors)
      /\ state_ \in [Conns -> ConnStates] /\ reporting \in [Loops -> SUBSET Conns]
      /\ loop_ \in [Conns -> Loops] /\ polled \subseteq Conns
  BY DEF IInv, TypeOK, ConnStates
<1>2. /\ failed \in Seq(Functors) /\ Len(failed) = Len(out[c]) /\ Len(out[c]) \in Nat
      /\ \A i \in DOMAIN failed : Belongs(l, failed[i]) /\ Counts(failed[i])
  <2>1. DOMAIN out[c] = 1..Len(out[c]) /\ Len(out[c]) \in Nat /\ \A i \in DOMAIN out[c] : out[c][i] \in Msgs
    BY <1>1, LenProperties
  <2>2. \A i \in DOMAIN out[c] : /\ failed[i] \in Functors /\ Belongs(l, failed[i]) /\ Counts(failed[i])
    BY <2>1, NewFunctor
  <2>3. DOMAIN failed = 1..Len(out[c])
    BY <2>1
  <2> HIDE DEF failed
  <2>4. failed \in [1..Len(out[c]) -> Functors]
    <3>1. failed = [i \in 1..Len(out[c]) |-> failed[i]]
      BY <2>1 DEF failed
    <3> QED BY <2>1, <2>2, <3>1
  <2> QED BY <2>1, <2>2, <2>3, <2>4
<1>3. /\ state_' = [state_ EXCEPT ![c] = "kDisconnected"] /\ polled' = polled \ {c}
      /\ out' = [out EXCEPT ![c] = <<>>]
      /\ functors' = [functors EXCEPT ![l] = q] /\ reporting' = [reporting EXCEPT ![l] = {c}]
  BY DEF StartClose
<1> HIDE DEF l, failed
<1>4. /\ q \in Seq(Functors) /\ AllBelong(l, q)
      /\ Cardinality(Due(q)) = Cardinality(Due(functors[l])) + Len(out[c])
  <2>1. /\ q \in Seq(Functors) /\ Cardinality(Due(q)) = Cardinality(Due(rest)) + (IF TRUE THEN Len(failed) ELSE 0)
        /\ \A i \in DOMAIN q : (\E j \in DOMAIN rest : q[i] = rest[j]) \/ (\E j \in DOMAIN failed : q[i] = failed[j])
    BY <1>2, DueConcat
  <2> HIDE DEF q
  <2> QED BY <1>2, <2>1 DEF AllBelong, l
<1> HIDE DEF q
<1>5. QueueIs(l, q)
  BY <1>1, <1>3, <1>4 DEF QueueIs
<1>6. OutIs(c, <<>>)
  BY <1>1, <1>3 DEF OutIs
<1>7. TypeOK'
  BY <1>1, <1>3, <1>4 DEF IInv, TypeOK, ConnStates, config, books, history, Idle
<1>8. FunctorInv'
  BY <1>1, <1>5, QueueBelongs DEF IInv
<1>9. CountInv'
  <2>1. Counting' = Counting /\ nTotalWaitSendNum' = nTotalWaitSendNum /\ uncounted' = uncounted
    BY DEF Counting, history
  <2>2. nTotalWaitSendNum \in Int /\ uncounted \in Nat /\ IsFiniteSet(Counting)
    BY DEF IInv, TypeOK, CountInv
  <2>3. Cardinality(Counting) \in Nat /\ Cardinality(Due(functors[l])) \in Nat /\ Len(<<>>) = 0
    BY <1>1, <2>2, DueIsFinite, FS_CardinalityType
  <2>4. nTotalWaitSendNum' + uncounted' + Cardinality(Counting') + Cardinality(Due(functors[l])) + Len(out[c])
         = nTotalWaitSendNum + uncounted + Cardinality(Counting) + Cardinality(Due(q)) + Len(<<>>)
    BY <1>2, <1>4, <2>1, <2>2, <2>3
  <2> QED BY <1>1, <1>5, <1>6, <2>1, <2>2, <2>4, Balanced DEF IInv
<1>10. Made' = Made
  BY <1>1, <1>3 DEF Made, Closable
<1>11. ConnInv'
  <2>1. \A d \in polled' : Closable(d)'
    BY <1>1, <1>3 DEF IInv, ConnInv, Closable
  <2>2. \A k \in Loops : \A d, e \in reporting'[k] : d \in Made /\ loop_[d] = k /\ d = e
    BY <1>1, <1>3 DEF IInv, ConnInv, Made, Closable, l
  <2> QED BY <1>10, <2>1, <2>2 DEF IInv, ConnInv, history
<1>12. Open' = Open
  <2> SUFFICES ASSUME NEW d \in Conns PROVE (d \in Open)' <=> d \in Open
    BY DEF Open
  <2>1. CASE d = c
    BY <1>1, <1>3, <2>1 DEF Open, l
  <2>2. CASE d # c /\ loop_[d] # l
    BY <1>1, <1>3, <2>2 DEF Open, Closable, l
  <2>3. CASE d # c /\ loop_[d] = l
    BY <1>1, <1>3, <2>3 DEF Open, Closable, LoopFree, l
  <2> QED BY <2>1, <2>2, <2>3
<1>13. BookInv'
  <2>1. ASSUME raced' = {}, NEW k \in Loops, NEW d \in reporting'[k] PROVE state_'[d] = "kDisconnected"
    <3>1. CASE d = c
      BY <1>1, <1>3, <3>1
    <3>2. CASE d # c
      <4>1. d \in reporting[k] /\ raced = {}
        BY <1>1, <1>3, <2>1, <3>2 DEF history
      <4>2. state_[d] = "kDisconnected" /\ d \in Conns
        BY <1>1, <4>1 DEF IInv, BookInv
      <4> QED BY <1>1, <1>3, <3>2, <4>2
    <3> QED BY <3>1, <3>2
  <2> QED BY <1>12, <2>1 DEF IInv, BookInv, books, config, history
<1>14. ListInv'
  BY <1>10 DEF IInv, ListInv, books
<1>15. AgeInv'
  BY DEF IInv, AgeInv, books
<1> QED BY <1>7, <1>8, <1>9, <1>11, <1>13, <1>14, <1>15 DEF IInv

LEMMA PeerClosesStep ==
  ASSUME IInv, NEW c \in Conns, PeerCloses(c)
  PROVE  IInv'
<1>1. loop_[c] \in Loops /\ c \in polled
  BY DEF IInv, TypeOK, PeerCloses
<1>2. functors[loop_[c]] \in Seq(Functors) /\ AllBelong(loop_[c], functors[loop_[c]])
  BY <1>1, QueueOf DEF IInv
<1>3. Closable(c)
  BY <1>1 DEF IInv, ConnInv
<1> QED BY <1>2, <1>3, StartCloseStep DEF PeerCloses

\* What is queued and unsent has changed, and the connection was told to
\* disconnect at most.
LEMMA FunctorStep ==
  ASSUME IInv, NEW l \in Loops, NEW c \in Conns, loop_[c] = l,
         NEW q, QueueIs(l, q), NEW s, OutIs(c, s), OnlyDisconnecting,
         nTotalWaitSendNum' \in Int,
         nTotalWaitSendNum' + Cardinality(Due(functors[l])) + Len(out[c])
           = nTotalWaitSendNum + Cardinality(Due(q)) + Len(s),
         UNCHANGED <<polled, reporting>>,
         UNCHANGED <<config, loop_, needclose_, books, hasRsp100, upc, history, jumps, reads, calls>>
  PROVE  IInv'
<1>1. /\ UNCHANGED <<http, nMaxConnNum, loop_, polled, needclose_, reporting, connlist, age>>
      /\ UNCHANGED <<nCurrConnNum, mapConns, hasRsp100, upc>>
      /\ UNCHANGED <<told, raced, uncounted, jumps, reads, calls>>
  BY DEF config, books, history
<1>2. TypeOK'
  <2>1. state_' \in [Conns -> ConnStates] /\ functors' \in [Loops -> Seq(Functors)] /\ out' \in [Conns -> Seq(Msgs)]
    BY DEF OnlyDisconnecting, QueueIs, OutIs
  <2> QED BY <1>1, <2>1 DEF IInv, TypeOK, ConnStates, Idle
<1>3. FunctorInv'
  BY <1>1, QueueBelongs DEF IInv
<1>4. CountInv'
  <2>1. Counting' = Counting
    BY <1>1 DEF Counting
  <2>2. /\ nTotalWaitSendNum \in Int /\ uncounted \in Nat /\ IsFiniteSet(Counting)
        /\ functors[l] \in Seq(Functors) /\ q \in Seq(Functors) /\ out[c] \in Seq(Msgs) /\ s \in Seq(Msgs)
    BY DEF IInv, TypeOK, CountInv, QueueIs, OutIs
  <2>3. /\ Cardinality(Counting) \in Nat /\ Cardinality(Due(functors[l])) \in Nat /\ Cardinality(Due(q)) \in Nat
        /\ Len(out[c]) \in Nat /\ Len(s) \in Nat
    BY <2>2, DueIsFinite, FS_CardinalityType, LenProperties
  <2>4. nTotalWaitSendNum' + uncounted' + Cardinality(Counting') + Cardinality(Due(functors[l])) + Len(out[c])
         = nTotalWaitSendNum + uncounted + Cardinality(Counting) + Cardinality(Due(q)) + Len(s)
    <3> DEFINE d == Cardinality(Due(functors[l]))
               e == Cardinality(Due(q))
               k == Cardinality(Counting)
               a == Len(out[c])
               b == Len(s)
               n == nTotalWaitSendNum
               m == nTotalWaitSendNum'
    <3>1. /\ d \in Nat /\ e \in Nat /\ k \in Nat /\ a \in Nat /\ b \in Nat /\ n \in Int /\ m \in Int
          /\ m + d + a = n + e + b /\ uncounted \in Nat
      BY <2>2, <2>3
    <3> HIDE DEF d, e, k, a, b, n, m
    <3>2. m + uncounted + k + d + a = n + uncounted + k + e + b
      BY <3>1
    <3> QED BY <1>1, <2>1, <3>2 DEF d, e, k, a, b, n, m
  <2> QED BY <1>1, <2>1, <2>2, <2>4, Balanced DEF IInv
<1>5. UsersHold
  BY <1>1, UsersStay DEF IInv
<1> QED BY <1>1, <1>2, <1>3, <1>4, <1>5, QuietStep

LEMMA HandleWriteStep ==
  ASSUME IInv, NEW c \in Conns, HandleWrite(c)
  PROVE  IInv'
<1> DEFINE l == loop_[c]
<1>1. /\ l \in Loops /\ out \in [Conns -> Seq(Msgs)] /\ out[c] \in Seq(Msgs)
      /\ functors \in [Loops -> Seq(Functors)] /\ functors[l] \in Seq(Functors)
      /\ AllBelong(l, functors[l]) /\ state_ \in [Conns -> ConnStates]
  BY DEF IInv, TypeOK, ConnStates, FunctorInv
<1>2. PICK i \in DOMAIN out[c], op \in {"onWriteOk", "onWriteErr"} :
        /\ out' = [out EXCEPT ![c] = RemoveAt(out[c], i)]
        /\ functors' = [functors EXCEPT ![l] = Append(functors[l], Fn(op, c, out[c][i]))]
  BY DEF HandleWrite
<1> DEFINE s == RemoveAt(out[c], i)
           f == Fn(op, c, out[c][i])
           q == Append(functors[l], f)
<1>3. s \in Seq(Msgs) /\ Len(s) = Len(out[c]) - 1 /\ Len(out[c]) \in Nat
  BY <1>1, RemoveAtFacts, LenProperties
<1>4. f \in Functors /\ Belongs(l, f) /\ Counts(f)
  <2>1. out[c][i] \in Msgs
    BY <1>1, LenProperties
  <2> QED BY <2>1, NewFunctor
<1> HIDE DEF l, s, f
<1>5. /\ q \in Seq(Functors) /\ AllBelong(l, q)
      /\ Cardinality(Due(q)) = Cardinality(Due(functors[l])) + 1
  <2>1. /\ q \in Seq(Functors) /\ Cardinality(Due(q)) = Cardinality(Due(functors[l])) + 1
        /\ \A j \in DOMAIN q : q[j] = f \/ \E k \in DOMAIN functors[l] : q[j] = functors[l][k]
    BY <1>1, <1>4, DueAppend
  <2> HIDE DEF q
  <2> QED BY <1>1, <1>4, <2>1 DEF AllBelong
<1>6. functors' = [functors EXCEPT ![l] = q] /\ out' = [out EXCEPT ![c] = s]
  BY <1>2 DEF l, s, f
<1> HIDE DEF q
<1>7. QueueIs(l, q) /\ OutIs(c, s)
  BY <1>1, <1>3, <1>5, <1>6 DEF QueueIs, OutIs
<1>8. OnlyDisconnecting
  BY <1>1 DEF OnlyDisconnecting, HandleWrite
<1>9. nTotalWaitSendNum' \in Int /\ nTotalWaitSendNum' = nTotalWaitSendNum
  BY DEF IInv, TypeOK, HandleWrite
<1>10. nTotalWaitSendNum' + Cardinality(Due(functors[l])) + Len(out[c])
         = nTotalWaitSendNum + Cardinality(Due(q)) + Len(s)
  <2>1. Cardinality(Due(functors[l])) \in Nat
    BY <1>1, DueIsFinite
  <2> QED BY <1>3, <1>5, <1>9, <2>1
<1> QED BY <1>1, <1>7, <1>8, <1>9, <1>10, FunctorStep DEF HandleWrite, l

LEMMA RunFunctorStep ==
  ASSUME IInv, NEW l \in Loops, RunFunctor(l)
  PROVE  IInv'
<1> DEFINE f == Head(functors[l])
           c == f.conn
           rest == Tail(functors[l])
           d == Cardinality(Due(functors[l]))
           r == Cardinality(Due(rest))
           n == nTotalWaitSendNum
           a == Len(out[c])
<1>1. /\ functors \in [Loops -> Seq(Functors)] /\ functors[l] \in Seq(Functors) /\ functors[l] # <<>>
      /\ AllBelong(l, functors[l]) /\ state_ \in [Conns -> ConnStates]
      /\ out \in [Conns -> Seq(Msgs)] /\ n \in Int
  BY DEF IInv, TypeOK, ConnStates, FunctorInv, RunFunctor
<1>2. /\ rest \in Seq(Functors) /\ f \in Functors
      /\ r = d - (IF Counts(f) THEN 1 ELSE 0)
      /\ \A i \in DOMAIN rest : \E j \in DOMAIN functors[l] : rest[i] = functors[l][j]
      /\ \E j \in DOMAIN functors[l] : f = functors[l][j]
  BY <1>1, DueTail
<1>3. d \in Nat /\ r \in Nat
  BY <1>1, <1>2, DueIsFinite
<1>4. AllBelong(l, rest) /\ Belongs(l, f)
  <2> HIDE DEF rest, f
  <2> QED BY <1>1, <1>2 DEF AllBelong
<1>5. c \in Conns /\ loop_[c] = l /\ (f.op = "sendInLoop" => f.msg \in Msgs)
  BY <1>2, <1>4 DEF Functors, Belongs
<1>6. a \in Nat /\ (out' = out => OutIs(c, out[c]))
  BY <1>1, <1>5, LenProperties DEF OutIs
<1>7. /\ UNCHANGED <<config, loop_, needclose_, books, hasRsp100, upc>>
      /\ UNCHANGED <<history, jumps, reads, calls>> /\ LoopFree(l)
  BY DEF RunFunctor
<1>8. CASE /\ f.op \in {"onWriteOk", "onWriteErr", "onHighWater"}
           /\ n' = IF Discounts(f.op) THEN n - 1 ELSE n
           /\ \E negative \in Negative : CloseIf(negative \/ c \in needclose_, l, c, rest)
           /\ UNCHANGED <<polled, out, reporting>>
  <2>1. PICK w : CloseIf(w, l, c, rest)
    BY <1>8
  <2>2. OnlyDisconnecting /\ \E q : QueueIs(l, q) /\ Cardinality(Due(q)) = r
    <3> HIDE DEF f, rest, c
    <3> QED BY <1>2, <1>4, <1>5, <2>1, CloseIfEffect DEF IInv
  <2>3. PICK q : QueueIs(l, q) /\ Cardinality(Due(q)) = r
    BY <2>2
  <2>4. Counts(f) <=> Discounts(f.op)
    BY <1>8 DEF Counts, Discounts
  <2>5. n' \in Int /\ n' + d + a = n + Cardinality(Due(q)) + a /\ OutIs(c, out[c])
    <3>1. a \in Nat /\ OutIs(c, out[c])
      BY <1>6, <1>8
    <3>2. n' = n - (IF Counts(f) THEN 1 ELSE 0)
      BY <1>1, <1>8, <2>4
    <3> HIDE DEF n, d, a, r, f
    <3> QED BY <1>1, <1>2, <1>3, <2>3, <3>1, <3>2 DEF n
  <2> HIDE DEF f, c, rest
  <2> QED BY <1>5, <1>7, <1>8, <2>2, <2>3, <2>5, FunctorStep
<1>9. CASE /\ f.op = "sendInLoop"
           /\ \E o \in SendOutcomes(c) :
                 /\ out' = Kept(c, f.msg, o)
                 /\ functors' = [functors EXCEPT ![l] = rest \o Queued(c, f.msg, o)]
           /\ UNCHANGED <<state_, polled, reporting, n>>
  <2>1. PICK o \in SendOutcomes(c) :
           /\ out' = Kept(c, f.msg, o)
           /\ functors' = [functors EXCEPT ![l] = rest \o Queued(c, f.msg, o)]
    BY <1>9
  <2> DEFINE q == rest \o Queued(c, f.msg, o)
  <2>2. Counts(f)
    BY <1>9 DEF Counts
  <2>3. /\ q \in Seq(Functors) /\ AllBelong(l, q)
        /\ \E s : /\ OutIs(c, s) /\ Len(s) \in Nat /\ a \in Nat
                  /\ Cardinality(Due(q)) + Len(s) = r + a + 1
    <3>1. f.msg \in Msgs
      BY <1>5, <1>9
    <3> DEFINE m == f.msg
    <3> HIDE DEF f, rest, c, m
    <3>2. m \in Msgs /\ out' = Kept(c, m, o)
      BY <2>1, <3>1 DEF m
    <3>3. /\ rest \o Queued(c, m, o) \in Seq(Functors) /\ AllBelong(l, rest \o Queued(c, m, o))
          /\ \E s : /\ OutIs(c, s) /\ Len(s) \in Nat /\ Len(out[c]) \in Nat
                    /\ Cardinality(Due(rest \o Queued(c, m, o))) + Len(s) = Cardinality(Due(rest)) + Len(out[c]) + 1
      BY <1>2, <1>4, <1>5, <2>1, <3>2, SendEffect DEF IInv
    <3> QED BY <3>3 DEF m
  <2>4. PICK s : OutIs(c, s) /\ Len(s) \in Nat /\ a \in Nat /\ Cardinality(Due(q)) + Len(s) = r + a + 1
    BY <2>3
  <2>5. functors' = [functors EXCEPT ![l] = q]
    BY <2>1
  <2> HIDE DEF q
  <2>6. QueueIs(l, q)
    BY <1>1, <2>3, <2>5 DEF QueueIs
  <2>7. Cardinality(Due(q)) \in Nat
    BY <2>3, DueIsFinite
  <2>8. n' \in Int /\ n' + d + a = n + Cardinality(Due(q)) + Len(s)
    <3>1. n' = n
      BY <1>9
    <3> DEFINE e == Cardinality(Due(q))
               b == Len(s)
    <3>2. e \in Nat /\ b \in Nat /\ a \in Nat /\ e + b = r + a + 1 /\ r = d - 1
      BY <1>2, <2>2, <2>4, <2>7
    <3> HIDE DEF n, d, a, r, f, e, b
    <3>3. n' \in Int /\ n' + d + a = n + e + b
      BY <1>1, <1>3, <3>1, <3>2
    <3> QED BY <3>3 DEF e, b
  <2>9. OnlyDisconnecting
    BY <1>1, <1>9 DEF OnlyDisconnecting
  <2> HIDE DEF f, c, rest
  <2> QED BY <1>5, <1>7, <1>9, <2>4, <2>6, <2>8, <2>9, FunctorStep
<1>10. CASE f.op = "forceCloseInLoop" /\ Closable(c) /\ StartClose(c, rest) /\ UNCHANGED n
  <2>1. Cardinality(Due(rest)) = Cardinality(Due(functors[l]))
    <3>1. ~Counts(f)
      BY <1>10 DEF Counts
    <3> HIDE DEF f, rest
    <3> QED BY <1>2, <1>3, <3>1
  <2> HIDE DEF f, c, rest
  <2> QED BY <1>2, <1>4, <1>5, <1>7, <1>10, <2>1, StartCloseStep
<1>11. CASE /\ f.op = "forceCloseInLoop" /\ functors' = [functors EXCEPT ![l] = rest]
            /\ UNCHANGED <<state_, polled, out, reporting, n>>
  <2>1. ~Counts(f)
    BY <1>11 DEF Counts
  <2>2. OnlyDisconnecting
    BY <1>1, <1>11 DEF OnlyDisconnecting
  <2> HIDE DEF f, c, rest
  <2>3. QueueIs(l, rest)
    BY <1>1, <1>2, <1>4, <1>11 DEF QueueIs
  <2>4. a \in Nat /\ OutIs(c, out[c])
    BY <1>6, <1>11
  <2>5. n' \in Int /\ n' + d + a = n + r + a
    BY <1>1, <1>2, <1>3, <1>11, <2>1, <2>4
  <2> QED BY <1>5, <1>7, <1>11, <2>2, <2>3, <2>4, <2>5, FunctorStep
<1> QED BY <1>8, <1>9, <1>10, <1>11 DEF RunFunctor

-----------------------------------------------------------------------------
(* Connections come and go.                                                *)

\* The queue of one loop changes, but no functor that stands for a message.
LEMMA OnlyQueued ==
  ASSUME IInv, NEW l \in Loops, NEW q, QueueIs(l, q), Cardinality(Due(q)) = Cardinality(Due(functors[l])),
         UNCHANGED <<out, nTotalWaitSendNum, uncounted>>, Counting' = Counting
  PROVE  CountInv'
<1>1. functors[l] \in Seq(Functors) /\ q \in Seq(Functors)
  BY DEF IInv, TypeOK, QueueIs
<1>2. /\ IsFiniteSet(Pending') /\ Cardinality(Pending) \in Nat /\ Cardinality(Pending') \in Nat
      /\ Cardinality(Pending') - Cardinality(Pending) = Cardinality(Due(q)) - Cardinality(Due(functors[l]))
  BY PendingChange DEF QueueIs, CountInv, IInv
<1>3. Unsent' = Unsent
  BY DEF Unsent
<1>4. Cardinality(Due(functors[l])) \in Nat /\ Cardinality(Due(q)) \in Nat
  BY <1>1, DueIsFinite
<1>5. Cardinality(Pending') = Cardinality(Pending)
  BY <1>2, <1>4
<1> QED BY <1>2, <1>3, <1>5 DEF IInv, CountInv

LEMMA ConnectEstablishedStep ==
  ASSUME IInv, NEW c \in Conns, ConnectEstablished(c)
  PROVE  IInv'
<1> DEFINE l == loop_[c]
           f == Fn("forceCloseInLoop", c, NoMsg)
<1>1. /\ functors \in [Loops -> Seq(Functors)] /\ functors[l] \in Seq(Functors) /\ l \in Loops
      /\ AllBelong(l, functors[l]) /\ state_ \in [Conns -> ConnStates] /\ state_[c] = "none"
      /\ connlist \in [Loops -> Seq(Conns)] /\ connlist[l] \in Seq(Conns) /\ age \in [Conns -> Int]
      /\ reporting \in [Loops -> SUBSET Conns] /\ loop_ \in [Conns -> Loops] /\ polled \subseteq Conns
      /\ told \subseteq Conns /\ mapConns \subseteq Conns /\ nCurrConnNum \in Int
  BY DEF IInv, TypeOK, ConnStates, FunctorInv, ConnectEstablished
<1>2. /\ UNCHANGED <<http, nMaxConnNum, loop_, needclose_, out, reporting, hasRsp100, nTotalWaitSendNum, upc>>
      /\ UNCHANGED <<raced, uncounted, jumps, reads, calls>>
      /\ polled' = polled \cup {c} /\ nCurrConnNum' = nCurrConnNum + 1 /\ LoopFree(l)
      /\ mapConns' = (IF UseIds THEN mapConns \cup {c} ELSE mapConns)
      /\ connlist' = [connlist EXCEPT ![l] = Append(connlist[l], c)] /\ age' = [age EXCEPT ![c] = 0]
  BY DEF ConnectEstablished, AddToConnList, config
<1>3. /\ \/ state_' = [state_ EXCEPT ![c] = "kDisconnecting"] /\ functors' = [functors EXCEPT ![l] = Append(functors[l], f)]
         \/ state_' = [state_ EXCEPT ![c] = "kConnected"] /\ functors' = functors
      /\ \/ nCurrConnNum' > nMaxConnNum /\ told' = told
         \/ ~(nCurrConnNum' > nMaxConnNum) /\ told' = told \cup {c}
  BY DEF ConnectEstablished, OverLimit
<1>4. f \in Functors /\ Belongs(l, f) /\ ~Counts(f)
  BY NewFunctor
<1> HIDE DEF l, f
<1>5. state_' \in [Conns -> ConnStates] /\ Closable(c)' /\ \A d \in Conns : d # c => state_'[d] = state_[d]
  BY <1>1, <1>3 DEF Closable, ConnStates
<1>6. PICK q : QueueIs(l, q) /\ Cardinality(Due(q)) = Cardinality(Due(functors[l]))
  <2>1. CASE functors' = [functors EXCEPT ![l] = Append(functors[l], f)]
    <3> DEFINE q == Append(functors[l], f)
    <3>1. /\ q \in Seq(Functors) /\ Cardinality(Due(q)) = Cardinality(Due(functors[l])) + 0
          /\ \A i \in DOMAIN q : q[i] = f \/ \E j \in DOMAIN functors[l] : q[i] = functors[l][j]
      BY <1>1, <1>4, DueAppend
    <3>2. functors' = [functors EXCEPT ![l] = q]
      BY <2>1
    <3>3. Cardinality(Due(functors[l])) \in Nat
      BY <1>1, DueIsFinite
    <3> HIDE DEF q
    <3>4. QueueIs(l, q)
      BY <1>1, <1>4, <3>1, <3>2 DEF QueueIs, AllBelong
    <3> QED BY <3>1, <3>3, <3>4
  <2>2. CASE functors' = functors
    <3>1. QueueIs(l, functors[l])
      BY <1>1, <2>2 DEF QueueIs
    <3> QED BY <3>1
  <2> QED BY <1>3, <2>1, <2>2
<1>7. FunctorInv'
  BY <1>1, <1>2, <1>6, QueueBelongs DEF IInv
<1>8. CountInv'
  BY <1>1, <1>2, <1>6, OnlyQueued DEF Counting
<1>9. Made' = Made \cup {c} /\ c \notin Made /\ c \notin Open
  <2>1. c \notin Open
    BY <1>1, <1>2 DEF Open, Closable, LoopFree, l
  <2> QED BY <1>1, <1>5, <2>1 DEF Made, Closable
<1>10. Open' = Open \cup {c}
  BY <1>1, <1>2, <1>5 DEF Open, Closable
<1> DEFINE list == connlist[l]
           more == Append(list, c)
<1>11. /\ more \in Seq(Conns) /\ \A i \in DOMAIN list : i \in DOMAIN more /\ more[i] = list[i]
       /\ Len(list) + 1 \in DOMAIN more /\ more[Len(list) + 1] = c
       /\ \A i \in DOMAIN more : i \in Nat /\ (i \in DOMAIN list \/ i = Len(list) + 1)
       /\ \A i \in DOMAIN list : i < Len(list) + 1 /\ i \in Nat
  <2>1. /\ more \in Seq(Conns) /\ Len(more) = Len(list) + 1 /\ more[Len(list) + 1] = c
        /\ \A i \in 1..Len(list) : more[i] = list[i]
    BY <1>1, AppendProperties
  <2>2. Len(list) \in Nat /\ DOMAIN list = 1..Len(list) /\ DOMAIN more = 1..Len(list) + 1
    BY <1>1, <2>1, LenProperties
  <2> HIDE DEF list, more
  <2>3. \A i \in 1..Len(list) + 1 : i \in Nat /\ (i \in 1..Len(list) \/ i = Len(list) + 1)
    BY <2>2
  <2>4. Len(list) + 1 \in 1..Len(list) + 1 /\ \A i \in 1..Len(list) : i \in 1..Len(list) + 1 /\ i < Len(list) + 1 /\ i \in Nat
    BY <2>2
  <2> QED BY <2>1, <2>2, <2>3, <2>4
<1>12. connlist'[l] = more /\ \A k \in Loops : k # l => connlist'[k] = connlist[k]
  BY <1>1, <1>2
<1> HIDE DEF list, more
<1>13. \A k \in Loops : \A i \in DOMAIN connlist[k] : connlist[k][i] \in Made /\ loop_[connlist[k][i]] = k
  BY DEF IInv, ListInv
<1>14. ListInv'
  <2> SUFFICES ASSUME NEW k \in Loops
               PROVE  /\ \A i \in DOMAIN connlist'[k] : connlist'[k][i] \in Made' /\ loop_'[connlist'[k][i]] = k
                      /\ \A i, j \in DOMAIN connlist'[k] : connlist'[k][i] = connlist'[k][j] => i = j
    BY DEF ListInv
  <2>1. CASE k # l
    BY <1>2, <1>9, <1>12, <2>1 DEF IInv, ListInv
  <2>2. CASE k = l
    <3>1. \A i, j \in DOMAIN list : list[i] = list[j] => i = j
      BY <1>1 DEF IInv, ListInv, list
    <3>2. \A i \in DOMAIN list : list[i] # c /\ list[i] \in Made /\ loop_[list[i]] = l
      BY <1>1, <1>9, <1>13 DEF list
    <3>3. \A i \in DOMAIN more : more[i] \in Made' /\ loop_'[more[i]] = l
      BY <1>2, <1>9, <1>11, <3>2 DEF l
    <3>4. \A i, j \in DOMAIN more : more[i] = more[j] => i = j
      BY <1>11, <3>1, <3>2
    <3> QED BY <1>12, <2>2, <3>3, <3>4
  <2> QED BY <2>1, <2>2
<1>15. AgeInv'
  <2> SUFFICES ASSUME jumps = 0
               PROVE  /\ \A d \in Conns : age'[d] >= 0
                      /\ \A k \in Loops : \A i, j \in DOMAIN connlist'[k] :
                            i < j => age'[connlist'[k][i]] >= age'[connlist'[k][j]]
    BY <1>2 DEF AgeInv
  <2>1. /\ \A d \in Conns : age[d] >= 0
        /\ \A k \in Loops : \A i, j \in DOMAIN connlist[k] :
                 i < j => age[connlist[k][i]] >= age[connlist[k][j]]
    BY DEF IInv, AgeInv
  <2>2. \A d \in Conns : age'[d] >= 0
    BY <1>1, <1>2, <2>1
  <2>3. \A d \in Made : d \in Conns /\ age'[d] = age[d]
    BY <1>1, <1>2, <1>9 DEF Made
  <2>4. ASSUME NEW k \in Loops, NEW i \in DOMAIN connlist'[k], NEW j \in DOMAIN connlist'[k], i < j
        PROVE  age'[connlist'[k][i]] >= age'[connlist'[k][j]]
    <3>1. CASE k # l
      BY <1>12, <1>13, <2>1, <2>3, <2>4, <3>1
    <3>2. CASE k = l /\ j = Len(list) + 1
      <4>1. more[j] = c /\ age'[c] = 0
        BY <1>1, <1>2, <1>11, <3>2
      <4>2. i \in DOMAIN more /\ more[i] \in Conns
        BY <1>11, <1>12, <2>4, <3>2, LenProperties
      <4>3. age'[more[i]] >= 0
        BY <2>2, <4>2
      <4> QED BY <1>12, <3>2, <4>1, <4>3
    <3>3. CASE k = l /\ j # Len(list) + 1
      <4>1. j \in DOMAIN list /\ i \in DOMAIN list
        <5>1. j \in DOMAIN list /\ i \in Nat /\ j < Len(list) + 1 /\ Len(list) \in Nat /\ j \in Nat
          BY <1>1, <1>11, <1>12, <2>4, <3>3, LenProperties DEF list
        <5>2. i # Len(list) + 1
          BY <2>4, <5>1
        <5> QED BY <1>11, <1>12, <2>4, <3>3, <5>1, <5>2
      <4>2. age[list[i]] >= age[list[j]] /\ list[i] \in Made /\ list[j] \in Made
        BY <1>1, <1>13, <2>1, <2>4, <4>1 DEF list
      <4> QED BY <1>11, <1>12, <2>3, <3>3, <4>1, <4>2
    <3> QED BY <3>1, <3>2, <3>3
  <2> QED BY <2>2, <2>4
<1>16. ConnInv'
  <2>1. IsFiniteSet(Made') /\ told' \subseteq Made'
    BY <1>3, <1>9, FS_AddElement DEF IInv, ConnInv
  <2>2. \A d \in polled' : Closable(d)'
    BY <1>1, <1>2, <1>5 DEF IInv, ConnInv, Closable
  <2> QED BY <1>2, <1>9, <2>1, <2>2 DEF IInv, ConnInv
<1>17. BookInv'
  <2> SUFFICES ASSUME raced = {} PROVE BookInv'
    BY <1>2 DEF BookInv
  <2>1. \A k \in Loops : \A d \in reporting'[k] : state_'[d] = "kDisconnected"
    BY <1>1, <1>2, <1>5 DEF IInv, BookInv
  <2>2. nCurrConnNum' = Cardinality(Open') /\ IsFiniteSet(Open)
    <3>1. IsFiniteSet(Open)
      <4>1. Open \subseteq Made
        BY <1>1 DEF IInv, ConnInv, Open, Made, Closable
      <4> QED BY <4>1, FS_Subset DEF IInv, ConnInv
    <3>2. Cardinality(Open') = Cardinality(Open) + 1
      BY <1>9, <1>10, <3>1, FS_AddElement
    <3> QED BY <1>2, <3>1, <3>2 DEF IInv, BookInv
  <2>3. Cardinality(told' \cap Open') <= nMaxConnNum'
    <3>1. CASE nCurrConnNum' > nMaxConnNum /\ told' = told
      <4>1. told' \cap Open' = told \cap Open
        BY <1>9, <1>10, <3>1 DEF IInv, ConnInv
      <4> QED BY <1>2, <4>1 DEF IInv, BookInv
    <3>2. CASE ~(nCurrConnNum' > nMaxConnNum)
      <4>1. IsFiniteSet(Open')
        BY <1>10, <2>2, FS_AddElement
      <4>2. Cardinality(told' \cap Open') <= Cardinality(Open') /\ Cardinality(told' \cap Open') \in Nat
            /\ Cardinality(Open') \in Nat
        <5>1. IsFiniteSet(told' \cap Open') /\ Cardinality(told' \cap Open') <= Cardinality(Open')
          BY <4>1, FS_Subset
        <5> QED BY <4>1, <5>1, FS_CardinalityType
      <4>3. nMaxConnNum \in Nat
        BY NetServerConstants DEF IInv, TypeOK
      <4> QED BY <1>2, <2>2, <3>2, <4>2, <4>3
    <3> QED BY <1>3, <3>1, <3>2
  <2>4. UseIds => mapConns' = Open'
    BY <1>2, <1>10 DEF IInv, BookInv
  <2>5. ASSUME NEW k \in Loops, NEW d \in Conns
        PROVE  d \in Open' /\ loop_'[d] = k <=> \E i \in DOMAIN connlist'[k] : connlist'[k][i] = d
    <3>1. d \in Open /\ loop_[d] = k <=> \E i \in DOMAIN connlist[k] : connlist[k][i] = d
      BY DEF IInv, BookInv
    <3>2. CASE k # l
      BY <1>2, <1>10, <1>12, <3>1, <3>2 DEF l
    <3>3. CASE k = l
      <4>1. (\E i \in DOMAIN more : more[i] = d) <=> d = c \/ \E i \in DOMAIN list : list[i] = d
        BY <1>11
      <4> QED BY <1>2, <1>10, <1>12, <3>1, <3>3, <4>1 DEF l, list
    <3> QED BY <3>2, <3>3
  <2> QED BY <2>1, <2>2, <2>3, <2>4, <2>5 DEF BookInv
<1>18. TypeOK'
  <2>1. functors' \in [Loops -> Seq(Functors)]
    BY <1>6 DEF QueueIs
  <2>2. nCurrConnNum' \in Int /\ told' \subseteq Conns /\ mapConns' \subseteq Conns /\ polled' \subseteq Conns
    BY <1>1, <1>2, <1>3
  <2>3. connlist' \in [Loops -> Seq(Conns)] /\ age' \in [Conns -> Int]
    BY <1>1, <1>2, <1>11 DEF list, more
  <2> QED BY <1>2, <1>5, <2>1, <2>2, <2>3 DEF IInv, TypeOK, ConnStates, Idle
<1> QED BY <1>7, <1>8, <1>14, <1>15, <1>16, <1>17, <1>18 DEF IInv

\* Entries are taken out of the lists.
LEMMA ListsThinned ==
  ASSUME connlist \in [Loops -> Seq(Conns)], connlist' \in [Loops -> Seq(Conns)], ListInv,
         \A k \in Loops : connlist'[k] = connlist[k] \/ Thinned(connlist'[k], connlist[k]),
         Made' = Made, loop_' = loop_
  PROVE  /\ ListInv'
         /\ \A k \in Loops : \A i \in DOMAIN connlist'[k] : \E j \in DOMAIN connlist[k] : connlist'[k][i] = connlist[k][j]
         /\ \A k \in Loops : \A i, j \in DOMAIN connlist'[k] :
               i < j => \E a, b \in DOMAIN connlist[k] :
                           a < b /\ connlist'[k][i] = connlist[k][a] /\ connlist'[k][j] = connlist[k][b]
<1>1. ASSUME NEW k \in Loops
      PROVE  /\ \A i \in DOMAIN connlist'[k] : \E j \in DOMAIN connlist[k] : connlist'[k][i] = connlist[k][j]
             /\ \A i, j \in DOMAIN connlist'[k] :
                   i < j => \E a, b \in DOMAIN connlist[k] :
                               a < b /\ connlist'[k][i] = connlist[k][a] /\ connlist'[k][j] = connlist[k][b]
             /\ \A i, j \in DOMAIN connlist'[k] : connlist'[k][i] = connlist'[k][j] => i = j
  <2>1. /\ connlist[k] \in Seq(Conns) /\ connlist'[k] \in Seq(Conns)
        /\ \A i, j \in DOMAIN connlist[k] : connlist[k][i] = connlist[k][j] => i = j
    BY DEF ListInv
  <2>2. CASE connlist'[k] = connlist[k]
    BY <2>1, <2>2
  <2>3. CASE Thinned(connlist'[k], connlist[k])
    BY <2>1, <2>3, ThinnedFacts
  <2> QED BY <2>2, <2>3
<1>2. ListInv'
  BY <1>1 DEF ListInv
<1> QED BY <1>1, <1>2

\* closeCallback and onConnection at the end of handleClose.
LEMMA OnConnectionDownStep ==
  ASSUME IInv, NEW c \in Conns, OnConnectionDown(c)
  PROVE  IInv'
<1> DEFINE l == loop_[c]
           e == Erase(connlist[l], c)
<1>1. /\ l \in Loops /\ connlist \in [Loops -> Seq(Conns)] /\ connlist[l] \in Seq(Conns)
      /\ reporting \in [Loops -> SUBSET Conns] /\ loop_ \in [Conns -> Loops] /\ nCurrConnNum \in Int
      /\ mapConns \subseteq Conns
  BY DEF IInv, TypeOK
<1>2. /\ UNCHANGED <<http, nMaxConnNum, state_, loop_, polled, needclose_, out, functors, age>>
      /\ UNCHANGED <<hasRsp100, nTotalWaitSendNum, upc, told, raced, uncounted, jumps, reads, calls>>
      /\ c \in reporting[l] /\ reporting' = [reporting EXCEPT ![l] = {}]
  BY DEF OnConnectionDown, config, conn, books, history, RemoveFromConnList
<1>3. \/ /\ nCurrConnNum' = nCurrConnNum - 1 /\ mapConns' = mapConns \ {c}
         /\ connlist' = [connlist EXCEPT ![l] = e]
      \/ /\ state_[c] # "kDisconnected"
         /\ nCurrConnNum' = nCurrConnNum /\ mapConns' = mapConns /\ connlist' = connlist
  BY DEF OnConnectionDown, RemoveFromConnList, books, CountsDown
<1>4. \A i, j \in DOMAIN connlist[l] : connlist[l][i] = connlist[l][j] => i = j
  BY <1>1 DEF IInv, ListInv
<1>5. /\ e \in Seq(Conns) /\ Thinned(e, connlist[l]) /\ \A i \in DOMAIN e : e[i] # c
      /\ \A j \in DOMAIN connlist[l] : connlist[l][j] # c => \E i \in DOMAIN e : e[i] = connlist[l][j]
  <2> DEFINE list == connlist[l]
  <2>1. list \in Seq(Conns) /\ \A i, j \in DOMAIN list : list[i] = list[j] => i = j
    BY <1>1, <1>4
  <2> HIDE DEF list
  <2>2. /\ Erase(list, c) \in Seq(Conns) /\ Thinned(Erase(list, c), list)
        /\ \A i \in DOMAIN Erase(list, c) : Erase(list, c)[i] # c
        /\ \A j \in DOMAIN list : list[j] # c => \E i \in DOMAIN Erase(list, c) : Erase(list, c)[i] = list[j]
    BY <2>1, EraseFacts
  <2> QED BY <2>2 DEF list
<1> HIDE DEF l, e
<1>6. /\ connlist' \in [Loops -> Seq(Conns)]
      /\ \A k \in Loops : connlist'[k] = connlist[k] \/ Thinned(connlist'[k], connlist[k])
  <2>1. CASE connlist' = [connlist EXCEPT ![l] = e]
    <3>1. connlist'[l] = e /\ \A k \in Loops : k # l => connlist'[k] = connlist[k]
      BY <1>1, <2>1
    <3>2. connlist' \in [Loops -> Seq(Conns)]
      BY <1>1, <1>5, <2>1
    <3> QED BY <1>5, <3>1, <3>2
  <2>2. CASE connlist' = connlist
    BY <1>1, <2>2
  <2> QED BY <1>3, <2>1, <2>2
<1>7. Made' = Made
  BY <1>2 DEF Made
<1>8. ListInv'
  BY <1>1, <1>2, <1>6, <1>7, ListsThinned DEF IInv
<1>9. AgeInv'
  <2>1. \A k \in Loops : \A i, j \in DOMAIN connlist'[k] :
           i < j => \E a, b \in DOMAIN connlist[k] :
                       a < b /\ connlist'[k][i] = connlist[k][a] /\ connlist'[k][j] = connlist[k][b]
    BY <1>1, <1>2, <1>6, <1>7, ListsThinned DEF IInv
  <2> QED BY <1>2, <2>1 DEF IInv, AgeInv
<1>10. TypeOK'
  <2>1. nCurrConnNum' \in Int /\ mapConns' \subseteq Conns
    BY <1>1, <1>3
  <2>2. reporting' \in [Loops -> SUBSET Conns]
    BY <1>1, <1>2
  <2> QED BY <1>2, <1>6, <2>1, <2>2 DEF IInv, TypeOK, Idle
<1>11. FunctorInv'
  BY <1>2 DEF IInv, FunctorInv, AllBelong, Belongs
<1>12. CountInv'
  BY <1>2 DEF IInv, CountInv, Pending, Unsent, Counting
<1>13. ConnInv'
  <2>1. \A k \in Loops : reporting'[k] \subseteq reporting[k]
    BY <1>1, <1>2
  <2> QED BY <1>2, <1>7, <2>1 DEF IInv, ConnInv, Closable
<1>14. BookInv'
  <2> SUFFICES ASSUME raced = {} PROVE BookInv'
    BY <1>2 DEF BookInv
  <2>1. state_[c] = "kDisconnected" /\ \A k \in Loops : \A d \in reporting[k] : state_[d] = "kDisconnected"
    BY <1>1, <1>2 DEF IInv, BookInv
  <2>2. nCurrConnNum' = nCurrConnNum - 1 /\ mapConns' = mapConns \ {c} /\ connlist' = [connlist EXCEPT ![l] = e]
    BY <1>3, <2>1
  <2>3. \A d \in Conns : d \in reporting'[loop_[d]] <=> d \in reporting[loop_[d]] /\ d # c
    BY <1>1, <1>2 DEF IInv, ConnInv, l
  <2>4. Open' = Open \ {c} /\ c \in Open
    BY <1>1, <1>2, <2>1, <2>3 DEF Open, Closable, l
  <2>5. IsFiniteSet(Open)
    <3>1. Open \subseteq Made
      BY <1>1 DEF IInv, ConnInv, Open, Made, Closable
    <3> QED BY <3>1, FS_Subset DEF IInv, ConnInv
  <2>6. nCurrConnNum' = Cardinality(Open')
    <3>1. Cardinality(Open') = Cardinality(Open) - 1
      BY <2>4, <2>5, FS_RemoveElement
    <3> QED BY <2>2, <3>1 DEF IInv, BookInv
  <2>7. Cardinality(told' \cap Open') <= nMaxConnNum'
    <3>1. Cardinality(told \cap Open) <= nMaxConnNum /\ IsFiniteSet(told \cap Open)
      BY <2>5, FS_Subset DEF IInv, BookInv
    <3>2. told' \cap Open' \subseteq told \cap Open
      BY <1>2, <2>4
    <3>3. Cardinality(told' \cap Open') <= Cardinality(told \cap Open) /\ IsFiniteSet(told' \cap Open')
      BY <3>1, <3>2, FS_Subset
    <3>4. /\ Cardinality(told' \cap Open') \in Nat /\ Cardinality(told \cap Open) \in Nat /\ nMaxConnNum \in Nat
      BY <3>1, <3>3, FS_CardinalityType, NetServerConstants DEF IInv, TypeOK
    <3> QED BY <1>2, <3>1, <3>3, <3>4
  <2>8. \A k \in Loops : \A d \in reporting'[k] : state_'[d] = "kDisconnected"
    BY <1>1, <1>2, <2>1
  <2>9. UseIds => mapConns' = Open'
    BY <2>2, <2>4 DEF IInv, BookInv
  <2>10. ASSUME NEW k \in Loops, NEW d \in Conns
         PROVE  d \in Open' /\ loop_'[d] = k <=> \E i \in DOMAIN connlist'[k] : connlist'[k][i] = d
    <3>1. d \in Open /\ loop_[d] = k <=> \E i \in DOMAIN connlist[k] : connlist[k][i] = d
      BY DEF IInv, BookInv
    <3>2. CASE k # l
      BY <1>1, <1>2, <2>2, <2>4, <3>1, <3>2 DEF l
    <3>3. CASE k = l
      <4>1. (\E i \in DOMAIN e : e[i] = d) <=> d # c /\ \E i \in DOMAIN connlist[l] : connlist[l][i] = d
        <5>1. \A i \in DOMAIN e : \E j \in DOMAIN connlist[l] : e[i] = connlist[l][j]
          BY <1>1, <1>4, <1>5, ThinnedFacts
        <5> QED BY <1>5, <5>1
      <4>2. connlist'[k] = e
        BY <1>1, <2>2, <3>3
      <4> QED BY <1>2, <2>4, <3>1, <3>3, <4>1, <4>2
    <3> QED BY <3>2, <3>3
  <2> QED BY <2>6, <2>7, <2>8, <2>9, <2>10 DEF BookInv
<1> QED BY <1>8, <1>9, <1>10, <1>11, <1>12, <1>13, <1>14 DEF IInv

-----------------------------------------------------------------------------
(* Received bytes.                                                         *)

\* The user's answer, or the server's own, on connection c: it may be told to
\* disconnect, and what is sent is counted by one of the counters.
Answered(c) ==
    /\ OnlyDisconnecting
    /\ needclose_' \subseteq Conns /\ calls' \in 0..MaxCalls
    /\ nTotalWaitSendNum' \in Int /\ uncounted' \in Nat
    /\ \E q, s :
          /\ QueueIs(loop_[c], q) /\ OutIs(c, s)
          /\ nTotalWaitSendNum' + uncounted' + Cardinality(Due(functors[loop_[c]])) + Len(out[c])
               = nTotalWaitSendNum + uncounted + Cardinality(Due(q)) + Len(s)

LEMMA NotAnswered ==
  ASSUME IInv, NEW c \in Conns, OnlyDisconnecting, needclose_' \subseteq Conns, calls' \in 0..MaxCalls,
         UNCHANGED <<out, nTotalWaitSendNum, uncounted>>,
         NEW q, QueueIs(loop_[c], q), Cardinality(Due(q)) = Cardinality(Due(functors[loop_[c]]))
  PROVE  Answered(c)
<1>1. nTotalWaitSendNum' \in Int /\ uncounted' \in Nat /\ OutIs(c, out[c])
  BY DEF IInv, TypeOK, OutIs
<1> QED BY <1>1 DEF Answered

\* send() in the loop thread took the message; counted tells who counts it.
LEMMA MessageSent ==
  ASSUME IInv, NEW c \in Conns, NEW m \in Msgs, NEW o \in SendOutcomes(c), out' = Kept(c, m, o),
         OnlyDisconnecting, needclose_' \subseteq Conns, calls' \in 0..MaxCalls,
         NEW q, QueueIs(loop_[c], q),
         Cardinality(Due(q)) = Cardinality(Due(functors[loop_[c]] \o Queued(c, m, o))),
         \/ nTotalWaitSendNum' = nTotalWaitSendNum + 1 /\ uncounted' = uncounted
         \/ nTotalWaitSendNum' = nTotalWaitSendNum /\ uncounted' = uncounted + 1
  PROVE  Answered(c)
<1> DEFINE w == functors[loop_[c]]
<1>1. /\ loop_[c] \in Loops /\ nTotalWaitSendNum \in Int /\ uncounted \in Nat
      /\ w \in Seq(Functors) /\ AllBelong(loop_[c], w) /\ TypeOK
  BY QueueOf DEF IInv, TypeOK
<1> DEFINE r == w \o Queued(c, m, o)
<1>2. /\ r \in Seq(Functors)
      /\ \E s : /\ OutIs(c, s) /\ Len(s) \in Nat /\ Len(out[c]) \in Nat
                /\ Cardinality(Due(r)) + Len(s) = Cardinality(Due(w)) + Len(out[c]) + 1
  <2> HIDE DEF w
  <2> QED BY <1>1, SendEffect
<1>3. PICK s : /\ OutIs(c, s) /\ Len(s) \in Nat /\ Len(out[c]) \in Nat
               /\ Cardinality(Due(r)) + Len(s) = Cardinality(Due(w)) + Len(out[c]) + 1
  BY <1>2
<1>4. nTotalWaitSendNum' + uncounted' + Cardinality(Due(w)) + Len(out[c])
        = nTotalWaitSendNum + uncounted + Cardinality(Due(q)) + Len(s)
  <2> DEFINE d == Cardinality(Due(w))
             e == Cardinality(Due(r))
             a == Len(out[c])
             b == Len(s)
             n == nTotalWaitSendNum
             n1 == nTotalWaitSendNum'
             u == uncounted
             u1 == uncounted'
  <2>1. d \in Nat /\ e \in Nat
    BY <1>1, <1>2, DueIsFinite
  <2>2. n \in Int /\ u \in Int /\ n1 \in Int /\ u1 \in Int /\ n1 + u1 = n + u + 1
    BY <1>1
  <2>3. a \in Nat /\ b \in Nat /\ e + b = d + a + 1
    BY <1>3
  <2> HIDE DEF d, e, a, b, n, n1, u, u1
  <2>4. n1 + u1 + d + a = n + u + 1 + d + a
    BY <2>1, <2>2, <2>3
  <2>5. n + u + e + b = n + u + (e + b)
    BY <2>1, <2>2, <2>3
  <2>6. n1 + u1 + d + a = n + u + e + b
    BY <2>1, <2>2, <2>3, <2>4, <2>5
  <2> QED BY <2>6, <1>3 DEF d, e, a, b, n, n1, u, u1, r, w
<1>5. nTotalWaitSendNum' \in Int /\ uncounted' \in Nat
  BY <1>1
<1> QED BY <1>3, <1>4, <1>5 DEF Answered

LEMMA ReplyEffect ==
  ASSUME IInv, NEW c \in Conns, Reply(c), uncounted' = uncounted
  PROVE  Answered(c)
<1> DEFINE l == loop_[c]
           w == functors[l]
<1>1. /\ l \in Loops /\ calls \in 0..MaxCalls /\ needclose_ \subseteq Conns /\ loop_[c] = l
      /\ w \in Seq(Functors) /\ AllBelong(l, w) /\ TypeOK /\ MaxCalls \in Nat
  BY QueueOf, NetServerConstants DEF IInv, TypeOK
<1> HIDE DEF w
<1>2. ASSUME NEW closes, CloseIf(closes, l, c, w), UNCHANGED <<out, nTotalWaitSendNum>>,
             needclose_' \subseteq Conns, calls' \in 0..MaxCalls
      PROVE  Answered(c)
  <2>1. OnlyDisconnecting /\ \E q : QueueIs(l, q) /\ Cardinality(Due(q)) = Cardinality(Due(w))
    <3> HIDE DEF l
    <3> QED BY <1>1, <1>2, CloseIfEffect
  <2> QED BY <1>2, <2>1, NotAnswered DEF w
<1>3. ASSUME NEW closes, NEW m \in Msgs, NEW o \in SendOutcomes(c), nTotalWaitSendNum' = nTotalWaitSendNum + 1,
             out' = Kept(c, m, o), CloseIf(closes, l, c, w \o Queued(c, m, o)),
             needclose_' \subseteq Conns, calls' \in 0..MaxCalls
      PROVE  Answered(c)
  <2> DEFINE r == w \o Queued(c, m, o)
  <2>1. r \in Seq(Functors) /\ AllBelong(l, r)
    <3> HIDE DEF l
    <3> QED BY <1>1, <1>3, SendEffect
  <2> HIDE DEF r
  <2>2. CloseIf(closes, l, c, r)
    BY <1>3 DEF r
  <2>3. OnlyDisconnecting /\ \E q : QueueIs(l, q) /\ Cardinality(Due(q)) = Cardinality(Due(r))
    <3> HIDE DEF l
    <3> QED BY <1>1, <2>1, <2>2, CloseIfEffect
  <2>4. PICK q : QueueIs(l, q) /\ Cardinality(Due(q)) = Cardinality(Due(r))
    BY <2>3
  <2> QED BY <1>3, <2>3, <2>4, MessageSent DEF r, w
<1>4. CASE /\ \E closes \in Negative : CloseIf(closes, l, c, w)
           /\ UNCHANGED <<needclose_, out, nTotalWaitSendNum, calls>>
  BY <1>1, <1>2, <1>4
<1>5. CASE \E closes \in Negative, m \in Msgs, o \in SendOutcomes(c) :
              /\ calls < MaxCalls /\ calls' = calls + 1 /\ Flag(c, m)
              /\ nTotalWaitSendNum' = nTotalWaitSendNum + 1 /\ out' = Kept(c, m, o)
              /\ CloseIf(closes, l, c, w \o Queued(c, m, o))
  <2>1. needclose_' \subseteq Conns /\ calls' \in 0..MaxCalls
    BY <1>1, <1>5 DEF Flag
  <2> QED BY <1>3, <1>5, <2>1
<1>6. CASE \E closes \in Negative, m \in Msgs :
              /\ calls < MaxCalls /\ calls' = calls + 1 /\ Flag(c, m)
              /\ CloseIf(closes, l, c, w) /\ UNCHANGED <<out, nTotalWaitSendNum>>
  <2>1. needclose_' \subseteq Conns /\ calls' \in 0..MaxCalls
    BY <1>1, <1>6 DEF Flag
  <2> QED BY <1>2, <1>6, <2>1
<1> QED BY <1>4, <1>5, <1>6 DEF Reply, w

LEMMA SendUncountedEffect ==
  ASSUME IInv, NEW c \in Conns, NEW m \in Msgs, SendUncounted(c, m)
  PROVE  Answered(c)
<1> DEFINE l == loop_[c]
           w == functors[l]
<1>1. /\ l \in Loops /\ calls \in 0..MaxCalls /\ needclose_ \subseteq Conns /\ loop_[c] = l
      /\ w \in Seq(Functors) /\ AllBelong(l, w) /\ TypeOK /\ MaxCalls \in Nat
      /\ functors \in [Loops -> Seq(Functors)] /\ state_ \in [Conns -> ConnStates]
  BY QueueOf, NetServerConstants DEF IInv, TypeOK, ConnStates
<1>2. needclose_' \subseteq Conns /\ calls' \in 0..MaxCalls
  BY <1>1 DEF Flag, SendUncounted
<1>3. OnlyDisconnecting /\ nTotalWaitSendNum' = nTotalWaitSendNum
  BY <1>1 DEF OnlyDisconnecting, SendUncounted
<1> HIDE DEF w
<1>4. CASE \E o \in SendOutcomes(c) :
              /\ out' = Kept(c, m, o) /\ functors' = [functors EXCEPT ![l] = w \o Queued(c, m, o)]
              /\ uncounted' = uncounted + 1
  <2>1. PICK o \in SendOutcomes(c) :
              /\ out' = Kept(c, m, o) /\ functors' = [functors EXCEPT ![l] = w \o Queued(c, m, o)]
              /\ uncounted' = uncounted + 1
    BY <1>4
  <2> DEFINE r == w \o Queued(c, m, o)
  <2>2. r \in Seq(Functors) /\ AllBelong(l, r)
    <3> HIDE DEF l
    <3> QED BY <1>1, <2>1, SendEffect
  <2>3. functors' = [functors EXCEPT ![l] = r]
    BY <2>1
  <2> HIDE DEF r
  <2>4. QueueIs(l, r)
    BY <1>1, <2>2, <2>3 DEF QueueIs
  <2> QED BY <1>2, <1>3, <2>1, <2>4, MessageSent DEF r, w
<1>5. CASE UNCHANGED <<out, functors, uncounted>>
  <2>1. QueueIs(l, w)
    BY <1>1, <1>5 DEF QueueIs, w
  <2> QED BY <1>2, <1>3, <1>5, <2>1, NotAnswered DEF w
<1> QED BY <1>4, <1>5 DEF SendUncounted, w

\* UpdateConnList: the entry goes to the end of its list, and is as young as can be.
LEMMA MoveToEndEffect ==
  ASSUME IInv, NEW c \in Made, MoveToEnd(c), loop_' = loop_, Made' = Made, jumps' = jumps,
         raced = {} => c \in Open
  PROVE  /\ connlist' \in [Loops -> Seq(Conns)] /\ age' \in [Conns -> Int] /\ ListInv' /\ AgeInv'
         /\ raced = {} => \A k \in Loops : \A d \in Conns :
              (\E i \in DOMAIN connlist'[k] : connlist'[k][i] = d) <=> \E i \in DOMAIN connlist[k] : connlist[k][i] = d
<1> DEFINE l == loop_[c]
           list == connlist[l]
           e == Erase(list, c)
           n == Len(e)
           more == Append(e, c)
<1>1. /\ c \in Conns /\ l \in Loops /\ connlist \in [Loops -> Seq(Conns)] /\ list \in Seq(Conns) /\ age \in [Conns -> Int]
      /\ connlist' = [connlist EXCEPT ![l] = more] /\ age' = [age EXCEPT ![c] = 0] /\ loop_[c] = l
  BY DEF IInv, TypeOK, MoveToEnd, Made
<1>2. /\ \A i, j \in DOMAIN list : list[i] = list[j] => i = j
      /\ \A i \in DOMAIN list : list[i] \in Made /\ loop_[list[i]] = l
  BY <1>1 DEF IInv, ListInv
<1> HIDE DEF l, list
<1>3. /\ e \in Seq(Conns) /\ Thinned(e, list) /\ \A i \in DOMAIN e : e[i] # c
      /\ \A j \in DOMAIN list : list[j] # c => \E i \in DOMAIN e : e[i] = list[j]
  BY <1>1, <1>2, EraseFacts
<1> HIDE DEF e
<1>4. /\ \A i \in DOMAIN e : \E j \in DOMAIN list : e[i] = list[j]
      /\ \A i, j \in DOMAIN e : i < j => \E a, b \in DOMAIN list : a < b /\ e[i] = list[a] /\ e[j] = list[b]
      /\ \A i, j \in DOMAIN e : e[i] = e[j] => i = j
  BY <1>1, <1>2, <1>3, ThinnedFacts
<1>5. /\ more \in Seq(Conns) /\ \A i \in DOMAIN e : i \in DOMAIN more /\ more[i] = e[i]
      /\ n + 1 \in DOMAIN more /\ more[n + 1] = c /\ n \in Nat
      /\ \A i \in DOMAIN more : i \in Nat /\ i <= n + 1 /\ (i # n + 1 => i \in DOMAIN e)
  <2>1. /\ more \in Seq(Conns) /\ Len(more) = n + 1 /\ more[n + 1] = c
        /\ \A i \in 1..n : more[i] = e[i]
    BY <1>1, <1>3, AppendProperties
  <2>2. n \in Nat /\ DOMAIN e = 1..n /\ DOMAIN more = 1..n + 1
    BY <1>3, <2>1, LenProperties
  <2> HIDE DEF n, more
  <2>3. \A i \in 1..n + 1 : i \in Nat /\ i <= n + 1 /\ (i # n + 1 => i \in 1..n)
    BY <2>2
  <2>4. n + 1 \in 1..n + 1 /\ \A i \in 1..n : i \in 1..n + 1
    BY <2>2
  <2> QED BY <2>1, <2>2, <2>3, <2>4
<1> HIDE DEF more, n
<1>6. connlist'[l] = more /\ \A k \in Loops : k # l => connlist'[k] = connlist[k]
  BY <1>1
<1>7. connlist' \in [Loops -> Seq(Conns)] /\ age' \in [Conns -> Int]
  BY <1>1, <1>5
<1>8. ListInv'
  <2> SUFFICES ASSUME NEW k \in Loops
               PROVE  /\ \A i \in DOMAIN connlist'[k] : connlist'[k][i] \in Made /\ loop_[connlist'[k][i]] = k
                      /\ \A i, j \in DOMAIN connlist'[k] : connlist'[k][i] = connlist'[k][j] => i = j
    BY DEF ListInv
  <2>1. CASE k # l
    BY <1>6, <2>1 DEF IInv, ListInv
  <2>2. CASE k = l
    <3>1. ASSUME NEW i \in DOMAIN more PROVE more[i] \in Made /\ loop_[more[i]] = l
      <4>1. CASE i = n + 1
        BY <1>1, <1>5, <4>1
      <4>2. CASE i # n + 1
        <5>1. i \in DOMAIN e /\ more[i] = e[i]
          BY <1>5, <4>2
        <5>2. PICK j \in DOMAIN list : e[i] = list[j]
          BY <1>4, <5>1
        <5> QED BY <1>2, <5>1, <5>2
      <4> QED BY <4>1, <4>2
    <3>2. \A i, j \in DOMAIN more : more[i] = more[j] => i = j
      BY <1>3, <1>4, <1>5
    <3> QED BY <1>6, <2>2, <3>1, <3>2
  <2> QED BY <2>1, <2>2
<1>9. AgeInv'
  <2> SUFFICES ASSUME jumps = 0
               PROVE  /\ \A d \in Conns : age'[d] >= 0
                      /\ \A k \in Loops : \A i, j \in DOMAIN connlist'[k] :
                            i < j => age'[connlist'[k][i]] >= age'[connlist'[k][j]]
    BY DEF AgeInv
  <2>1. /\ \A d \in Conns : age[d] >= 0
        /\ \A k \in Loops : \A i, j \in DOMAIN connlist[k] :
                 i < j => age[connlist[k][i]] >= age[connlist[k][j]]
    BY DEF IInv, AgeInv
  <2>2. (\A d \in Conns : age'[d] >= 0) /\ age'[c] = 0 /\ \A d \in Conns : d # c => age'[d] = age[d]
    BY <1>1, <2>1
  <2>3. ASSUME NEW k \in Loops, NEW i \in DOMAIN connlist'[k], NEW j \in DOMAIN connlist'[k], i < j
        PROVE  age'[connlist'[k][i]] >= age'[connlist'[k][j]]
    <3>1. CASE k # l
      <4>1. connlist'[k] = connlist[k]
        BY <1>6, <3>1
      <4>2. \A a \in DOMAIN connlist[k] : connlist[k][a] \in Conns /\ connlist[k][a] # c
        BY <1>1, <3>1 DEF IInv, ListInv, Made
      <4> QED BY <2>1, <2>2, <2>3, <4>1, <4>2
    <3>2. CASE k = l /\ j = n + 1
      <4>1. i \in DOMAIN more /\ more[i] \in Conns
        BY <1>5, <1>6, <2>3, <3>2, LenProperties
      <4>2. age'[more[i]] >= 0 /\ more[j] = c /\ age'[c] = 0
        BY <1>5, <2>2, <3>2, <4>1
      <4> QED BY <1>6, <3>2, <4>2
    <3>3. CASE k = l /\ j # n + 1
      <4>1. j \in DOMAIN e /\ i \in DOMAIN e
        <5>1. j \in DOMAIN e /\ i \in Nat /\ j \in Nat /\ j <= n + 1 /\ i \in DOMAIN more
          BY <1>5, <1>6, <2>3, <3>3
        <5>2. i # n + 1
          BY <1>5, <2>3, <5>1
        <5> QED BY <1>5, <5>1, <5>2
      <4>2. PICK a \in DOMAIN list, b \in DOMAIN list : a < b /\ e[i] = list[a] /\ e[j] = list[b]
        BY <1>4, <2>3, <4>1
      <4>3. age[list[a]] >= age[list[b]]
        BY <1>1, <2>1, <4>2 DEF list
      <4>4. e[i] \in Conns /\ e[i] # c /\ e[j] \in Conns /\ e[j] # c
        BY <1>2, <1>3, <4>1, <4>2 DEF Made
      <4>5. age'[e[i]] >= age'[e[j]]
        BY <2>2, <4>2, <4>3, <4>4
      <4> QED BY <1>5, <1>6, <3>3, <4>1, <4>5
    <3> QED BY <3>1, <3>2, <3>3
  <2> QED BY <2>2, <2>3
<1>10. ASSUME raced = {}, NEW k \in Loops, NEW d \in Conns
       PROVE  (\E i \in DOMAIN connlist'[k] : connlist'[k][i] = d) <=> \E i \in DOMAIN connlist[k] : connlist[k][i] = d
  <2>1. CASE k # l
    BY <1>6, <2>1
  <2>2. CASE k = l /\ d = c
    <3>1. \E i \in DOMAIN list : list[i] = c
      BY <1>1, <1>10 DEF IInv, BookInv, list
    <3> QED BY <1>5, <1>6, <2>2, <3>1 DEF list
  <2>3. CASE k = l /\ d # c
    <3>1. (\E i \in DOMAIN more : more[i] = d) <=> \E i \in DOMAIN list : list[i] = d
      BY <1>3, <1>4, <1>5, <2>3
    <3> QED BY <1>6, <2>3, <3>1 DEF list
  <2> QED BY <2>1, <2>2, <2>3
<1> QED BY <1>7, <1>8, <1>9, <1>10

LEMMA OnMessageStep ==
  ASSUME IInv, NEW c \in Conns, OnMessage(c)
  PROVE  IInv'
<1>1. /\ UNCHANGED <<http, nMaxConnNum, loop_, polled, reporting, nCurrConnNum, mapConns>>
      /\ UNCHANGED <<upc, told, raced, jumps>> /\ c \in polled /\ MoveToEnd(c)
      /\ reads < MaxReads /\ reads' = reads + 1
  BY DEF OnMessage, config
<1>2. /\ loop_[c] \in Loops /\ needclose_ \subseteq Conns /\ calls \in 0..MaxCalls /\ hasRsp100 \subseteq Conns
      /\ functors \in [Loops -> Seq(Functors)] /\ functors[loop_[c]] \in Seq(Functors)
      /\ AllBelong(loop_[c], functors[loop_[c]]) /\ state_ \in [Conns -> ConnStates]
      /\ reads \in 0..MaxReads /\ MaxReads \in Nat /\ Closable(c)
  BY <1>1, NetServerConstants DEF IInv, TypeOK, FunctorInv, ConnStates, ConnInv
<1>3. ASSUME UNCHANGED <<state_, functors, needclose_, out, nTotalWaitSendNum, calls, uncounted>> PROVE Answered(c)
  <2>1. QueueIs(loop_[c], functors[loop_[c]]) /\ OnlyDisconnecting
    BY <1>2, <1>3 DEF QueueIs, OnlyDisconnecting
  <2> QED BY <1>2, <1>3, <2>1, NotAnswered
<1>4. Answered(c) /\ hasRsp100' \subseteq Conns
  <2>1. CASE DealHttpRequest(c)
    <3>1. CASE Reply(c) /\ hasRsp100' = hasRsp100 \ {c} /\ UNCHANGED uncounted
      BY <1>2, <3>1, ReplyEffect
    <3>2. CASE SendUncounted(c, "keep") /\ hasRsp100' = hasRsp100 \cup {c}
      BY <1>2, <3>2, SendUncountedEffect DEF Msgs
    <3>3. CASE SendUncounted(c, "close") /\ hasRsp100' = hasRsp100 \ {c}
      BY <1>2, <3>3, SendUncountedEffect DEF Msgs
    <3>4. CASE UNCHANGED <<state_, functors, needclose_, out, nTotalWaitSendNum, calls, hasRsp100, uncounted>>
      BY <1>2, <1>3, <3>4
    <3> QED BY <2>1, <3>1, <3>2, <3>3, <3>4 DEF DealHttpRequest
  <2>2. CASE Reply(c) /\ UNCHANGED <<hasRsp100, uncounted>>
    BY <1>2, <2>2, ReplyEffect
  <2>3. CASE UNCHANGED <<state_, functors, needclose_, out, nTotalWaitSendNum, calls, hasRsp100, uncounted>>
    BY <1>2, <1>3, <2>3
  <2> QED BY <2>1, <2>2, <2>3 DEF OnMessage
<1>5. OnlyDisconnecting /\ UsersHold /\ c \in Made /\ c \in Open
  BY <1>1, <1>2, <1>4, UsersStay DEF Answered, IInv, Made, Open, Closable
<1>6. ConnInv' /\ Made' = Made
  <2>1. \A d \in Conns : state_'[d] = state_[d] \/ (state_[d] # "none" /\ state_'[d] = "kDisconnecting")
    BY <1>5 DEF OnlyDisconnecting, Closable
  <2>2. polled \subseteq Conns
    BY DEF IInv, TypeOK
  <2> QED BY <1>1, <1>5, <2>1, <2>2, QuietConn DEF IInv
<1>7. /\ connlist' \in [Loops -> Seq(Conns)] /\ age' \in [Conns -> Int] /\ ListInv' /\ AgeInv'
      /\ raced = {} => \A k \in Loops : \A d \in Conns :
           (\E i \in DOMAIN connlist'[k] : connlist'[k][i] = d) <=> \E i \in DOMAIN connlist[k] : connlist[k][i] = d
  BY <1>1, <1>5, <1>6, MoveToEndEffect
<1>8. BookInv'
  <2>1. reporting \in [Loops -> SUBSET Conns] /\ loop_ \in [Conns -> Loops]
    BY DEF IInv, TypeOK
  <2> QED BY <1>1, <1>5, <1>7, <2>1, QuietBooks DEF IInv
<1>9. PICK q, s :
        /\ QueueIs(loop_[c], q) /\ OutIs(c, s)
        /\ nTotalWaitSendNum' + uncounted' + Cardinality(Due(functors[loop_[c]])) + Len(out[c])
             = nTotalWaitSendNum + uncounted + Cardinality(Due(q)) + Len(s)
  BY <1>4 DEF Answered
<1>10. FunctorInv'
  BY <1>1, <1>2, <1>9, QueueBelongs DEF IInv
<1>11. CountInv'
  <2> DEFINE d == Cardinality(Due(functors[loop_[c]]))
             e == Cardinality(Due(q))
             k == Cardinality(Counting)
             a == Len(out[c])
             b == Len(s)
             n == nTotalWaitSendNum
             m == nTotalWaitSendNum'
             u == uncounted
             u1 == uncounted'
  <2>1. Counting' = Counting /\ IsFiniteSet(Counting) /\ m \in Int /\ u1 \in Nat /\ n \in Int /\ u \in Int
    BY <1>1, <1>4 DEF Counting, Answered, IInv, CountInv, TypeOK
  <2>2. q \in Seq(Functors) /\ out[c] \in Seq(Msgs) /\ s \in Seq(Msgs)
    BY <1>9 DEF QueueIs, OutIs, IInv, TypeOK
  <2>3. d \in Nat /\ e \in Nat /\ k \in Nat /\ a \in Nat /\ b \in Nat
    BY <1>2, <2>1, <2>2, DueIsFinite, FS_CardinalityType, LenProperties
  <2>4. m + u1 + d + a = n + u + e + b
    BY <1>9
  <2> HIDE DEF d, e, k, a, b, n, m, u, u1
  <2>5. m + u1 + k + d + a = n + u + k + e + b
    BY <2>1, <2>3, <2>4
  <2>6. nTotalWaitSendNum' + uncounted' + Cardinality(Counting') + Cardinality(Due(functors[loop_[c]])) + Len(out[c])
          = nTotalWaitSendNum + uncounted + Cardinality(Counting) + Cardinality(Due(q)) + Len(s)
    BY <2>1, <2>5 DEF d, e, k, a, b, n, m, u, u1
  <2> QED BY <1>2, <1>9, <2>1, <2>6, Balanced DEF IInv, m, u1
<1>12. TypeOK'
  <2>1. state_' \in [Conns -> ConnStates] /\ functors' \in [Loops -> Seq(Functors)] /\ out' \in [Conns -> Seq(Msgs)]
    BY <1>5, <1>9 DEF OnlyDisconnecting, QueueIs, OutIs
  <2>2. reads' \in 0..MaxReads /\ calls' \in 0..MaxCalls /\ needclose_' \subseteq Conns
        /\ nTotalWaitSendNum' \in Int /\ uncounted' \in Nat
    BY <1>1, <1>2, <1>4 DEF Answered
  <2> QED BY <1>1, <1>4, <1>7, <2>1, <2>2 DEF IInv, TypeOK, ConnStates, Idle
<1> QED BY <1>6, <1>7, <1>8, <1>10, <1>11, <1>12 DEF IInv

-----------------------------------------------------------------------------
(* The idle check and the clock.                                           *)

\* The functors that close the idle connections stand for no message.
LEMMA KickedQueue ==
  ASSUME IInv, NEW l \in Loops, NEW S, S \subseteq DOMAIN connlist[l], NEW kicked \in InOrder(S),
         functors' = [functors EXCEPT ![l] =
            functors[l] \o [i \in DOMAIN kicked |-> Fn("forceCloseInLoop", connlist[l][kicked[i]], NoMsg)]]
  PROVE  \E q : QueueIs(l, q) /\ Cardinality(Due(q)) = Cardinality(Due(functors[l]))
<1> DEFINE list == connlist[l]
           r == [i \in DOMAIN kicked |-> Fn("forceCloseInLoop", list[kicked[i]], NoMsg)]
           w == functors[l]
           q == w \o r
<1>1. /\ list \in Seq(Conns) /\ functors \in [Loops -> Seq(Functors)] /\ w \in Seq(Functors) /\ AllBelong(l, w)
      /\ \A i \in DOMAIN list : list[i] \in Conns /\ loop_[list[i]] = l
  BY LenProperties DEF IInv, TypeOK, FunctorInv, ListInv, Made
<1> HIDE DEF list
<1>2. /\ DOMAIN kicked = 1..Cardinality(S) /\ Cardinality(S) \in Nat
      /\ \A i \in DOMAIN kicked : kicked[i] \in DOMAIN list
  BY <1>1, InOrderFacts DEF list
<1>3. \A i \in DOMAIN r : r[i] \in Functors /\ Belongs(l, r[i]) /\ ~Counts(r[i])
  <2> SUFFICES ASSUME NEW i \in DOMAIN kicked PROVE r[i] \in Functors /\ Belongs(l, r[i]) /\ ~Counts(r[i])
    OBVIOUS
  <2>1. list[kicked[i]] \in Conns /\ loop_[list[kicked[i]]] = l
    BY <1>1, <1>2
  <2>2. r[i] = Fn("forceCloseInLoop", list[kicked[i]], NoMsg)
    OBVIOUS
  <2> HIDE DEF r
  <2> QED BY <2>1, <2>2, NewFunctor
<1>4. r \in Seq(Functors)
  <2>1. DOMAIN r = 1..Cardinality(S) /\ r = [i \in 1..Cardinality(S) |-> r[i]]
    BY <1>2
  <2> HIDE DEF r
  <2>2. r \in [1..Cardinality(S) -> Functors]
    BY <1>3, <2>1
  <2> QED BY <1>2, <2>2
<1> HIDE DEF r, w
<1>5. /\ q \in Seq(Functors) /\ Cardinality(Due(q)) = Cardinality(Due(w)) + (IF FALSE THEN Len(r) ELSE 0)
      /\ \A i \in DOMAIN q : (\E j \in DOMAIN w : q[i] = w[j]) \/ (\E j \in DOMAIN r : q[i] = r[j])
  BY <1>1, <1>3, <1>4, DueConcat
<1>6. functors' = [functors EXCEPT ![l] = q]
  BY DEF r, w, list
<1> HIDE DEF q
<1>7. Cardinality(Due(q)) = Cardinality(Due(w))
  BY <1>1, <1>5, DueIsFinite
<1>8. QueueIs(l, q)
  BY <1>1, <1>3, <1>5, <1>6 DEF QueueIs, AllBelong
<1> QED BY <1>7, <1>8 DEF w

LEMMA OnCheckConnTimeOutStep ==
  ASSUME IInv, NEW l \in Loops, OnCheckConnTimeOut(l)
  PROVE  IInv'
<1> DEFINE list == connlist[l]
<1>1. /\ connlist \in [Loops -> Seq(Conns)] /\ list \in Seq(Conns) /\ age \in [Conns -> Int]
      /\ state_ \in [Conns -> ConnStates] /\ functors \in [Loops -> Seq(Functors)]
      /\ \A i, j \in DOMAIN list : list[i] = list[j] => i = j
  BY DEF IInv, TypeOK, ConnStates, ListInv
<1>2. PICK n \in 0..Len(list) :
        /\ \E kept \in InOrder({i \in DOMAIN list : i > n \/ ~Expired(list[i])}) :
              connlist' = [connlist EXCEPT ![l] = [i \in DOMAIN kept |-> list[kept[i]]]]
        /\ age' = [c \in Conns |->
              IF age[c] < 0 /\ ~Expired(c) /\ \E i \in 1..n : list[i] = c THEN 0 ELSE age[c]]
        /\ state_' = [c \in Conns |->
              IF Kicked(c) /\ \E i \in 1..n : list[i] = c THEN "kDisconnecting" ELSE state_[c]]
        /\ \E kicked \in InOrder({i \in 1..n : Kicked(list[i])}) :
              functors' = [functors EXCEPT ![l] = functors[l] \o
                 [i \in DOMAIN kicked |-> Fn("forceCloseInLoop", list[kicked[i]], NoMsg)]]
  BY DEF OnCheckConnTimeOut
<1> DEFINE K == {i \in DOMAIN list : i > n \/ ~Expired(list[i])}
           S == {i \in 1..n : Kicked(list[i])}
<1>3. PICK kept \in InOrder(K) : connlist' = [connlist EXCEPT ![l] = [i \in DOMAIN kept |-> list[kept[i]]]]
  BY <1>2
<1>4. /\ UNCHANGED <<http, nMaxConnNum, loop_, polled, needclose_, out, reporting, nCurrConnNum, mapConns>>
      /\ UNCHANGED <<hasRsp100, nTotalWaitSendNum, upc, told, raced, uncounted, jumps, reads, calls>>
  BY DEF OnCheckConnTimeOut, config, history
<1> DEFINE e == [i \in DOMAIN kept |-> list[kept[i]]]
<1>5. /\ e \in Seq(Conns) /\ Thinned(e, list)
      /\ \A j \in K : \E i \in DOMAIN e : e[i] = list[j]
  <2> HIDE DEF list
  <2>1. K \subseteq DOMAIN list
    OBVIOUS
  <2> HIDE DEF K
  <2>2. /\ e \in Seq(Conns) /\ Thinned(e, list) /\ DOMAIN e = DOMAIN kept
        /\ \A j \in K : \E i \in DOMAIN kept : kept[i] = j
    BY <1>1, <2>1, InOrderFacts
  <2> QED BY <2>2
<1>6. connlist' = [connlist EXCEPT ![l] = e]
  BY <1>3
<1>7. S \subseteq DOMAIN list
  <2>1. DOMAIN list = 1..Len(list) /\ Len(list) \in Nat
    BY <1>1, LenProperties
  <2> HIDE DEF list
  <2> QED BY <2>1
<1>8. PICK q : QueueIs(l, q) /\ Cardinality(Due(q)) = Cardinality(Due(functors[l]))
  <2>1. PICK kicked \in InOrder(S) :
           functors' = [functors EXCEPT ![l] = functors[l] \o
              [i \in DOMAIN kicked |-> Fn("forceCloseInLoop", connlist[l][kicked[i]], NoMsg)]]
    BY <1>2
  <2>2. S \subseteq DOMAIN connlist[l]
    BY <1>7
  <2> HIDE DEF S
  <2> QED BY <2>1, <2>2, KickedQueue
<1> HIDE DEF e, S
<1>9. OnlyDisconnecting /\ UsersHold
  <2>1. state_' \in [Conns -> ConnStates]
    BY <1>1, <1>2 DEF ConnStates
  <2>2. \A c \in Conns : state_'[c] = state_[c] \/ (Closable(c) /\ state_'[c] = "kDisconnecting")
    BY <1>2 DEF Kicked, Closable
  <2> QED BY <1>4, <2>1, <2>2, UsersStay DEF OnlyDisconnecting, IInv
<1>10. ConnInv' /\ Made' = Made
  <2>1. \A d \in Conns : state_'[d] = state_[d] \/ (state_[d] # "none" /\ state_'[d] = "kDisconnecting")
    BY <1>9 DEF OnlyDisconnecting, Closable
  <2>2. polled \subseteq Conns
    BY DEF IInv, TypeOK
  <2> QED BY <1>4, <1>9, <2>1, <2>2, QuietConn DEF IInv
<1>11. connlist'[l] = e /\ (\A k \in Loops : k # l => connlist'[k] = connlist[k]) /\ connlist' \in [Loops -> Seq(Conns)]
  BY <1>1, <1>5, <1>6
<1>12. \A k \in Loops : connlist'[k] = connlist[k] \/ Thinned(connlist'[k], connlist[k])
  BY <1>5, <1>11
<1>13. /\ ListInv'
       /\ \A k \in Loops : \A i \in DOMAIN connlist'[k] : \E j \in DOMAIN connlist[k] : connlist'[k][i] = connlist[k][j]
       /\ \A k \in Loops : \A i, j \in DOMAIN connlist'[k] :
             i < j => \E a, b \in DOMAIN connlist[k] :
                         a < b /\ connlist'[k][i] = connlist[k][a] /\ connlist'[k][j] = connlist[k][b]
  BY <1>1, <1>4, <1>10, <1>11, <1>12, ListsThinned DEF IInv
<1>14. AgeInv'
  <2> SUFFICES ASSUME jumps = 0 PROVE AgeInv'
    BY <1>4 DEF AgeInv
  <2>1. \A c \in Conns : age[c] >= 0
    BY DEF IInv, AgeInv
  <2>2. age' = age
    <3>1. \A c \in Conns : ~(age[c] < 0)
      BY <1>1, <2>1
    <3>2. age' = [c \in Conns |-> age[c]]
      BY <1>2, <3>1
    <3> QED BY <1>1, <3>2
  <2> QED BY <1>4, <1>13, <2>2 DEF IInv, AgeInv
<1>15. ASSUME raced = {}, NEW k \in Loops, NEW d \in Conns
       PROVE  (\E i \in DOMAIN connlist'[k] : connlist'[k][i] = d) <=> \E i \in DOMAIN connlist[k] : connlist[k][i] = d
  <2>1. CASE k # l
    BY <1>11, <2>1
  <2>2. CASE k = l
    <3>1. ASSUME NEW j \in DOMAIN list, list[j] = d PROVE \E i \in DOMAIN e : e[i] = d
      <4>1. d \in Open
        BY <1>15, <3>1 DEF IInv, BookInv
      <4>2. ~Expired(d)
        <5>1. loop_[d] \in Loops
          BY DEF IInv, TypeOK
        <5> QED BY <4>1, <5>1 DEF Open, Expired, Closable
      <4> QED BY <1>5, <3>1, <4>2
    <3> QED BY <1>11, <1>13, <2>2, <3>1
  <2> QED BY <2>1, <2>2
<1>16. BookInv'
  <2>1. reporting \in [Loops -> SUBSET Conns] /\ loop_ \in [Conns -> Loops]
    BY DEF IInv, TypeOK
  <2> QED BY <1>4, <1>9, <1>15, <2>1, QuietBooks DEF IInv
<1>17. FunctorInv'
  BY <1>4, <1>8, QueueBelongs DEF IInv
<1>18. CountInv'
  BY <1>4, <1>8, OnlyQueued DEF Counting
<1>19. TypeOK'
  <2>1. functors' \in [Loops -> Seq(Functors)] /\ state_' \in [Conns -> ConnStates]
    BY <1>8, <1>9 DEF QueueIs, OnlyDisconnecting
  <2>2. age' \in [Conns -> Int]
    BY <1>1, <1>2
  <2> QED BY <1>4, <1>11, <2>1, <2>2 DEF IInv, TypeOK, ConnStates, Idle
<1> QED BY <1>10, <1>13, <1>14, <1>16, <1>17, <1>18, <1>19 DEF IInv

\* Only the ages change.
LEMMA AgeStep ==
  ASSUME IInv, age' \in [Conns -> Int], jumps' \in 0..MaxJumps, AgeInv',
         UNCHANGED <<config, conn, functors, reporting, connlist, nCurrConnNum, mapConns, hasRsp100>>,
         UNCHANGED <<nTotalWaitSendNum, upc, history, reads, calls>>
  PROVE  IInv'
<1>1. /\ UNCHANGED <<http, nMaxConnNum, state_, loop_, polled, needclose_, out, functors, reporting>>
      /\ UNCHANGED <<connlist, nCurrConnNum, mapConns, hasRsp100, nTotalWaitSendNum, upc>>
      /\ UNCHANGED <<told, raced, uncounted, reads, calls>>
  BY DEF config, conn, history
<1>2. TypeOK'
  BY <1>1 DEF IInv, TypeOK, Idle
<1>3. ConnInv' /\ ListInv' /\ FunctorInv'
  BY <1>1 DEF IInv, ConnInv, Made, ListInv, FunctorInv, AllBelong, Belongs, Closable
<1>4. BookInv'
  BY <1>1 DEF IInv, BookInv, Open, Closable
<1>5. CountInv'
  BY <1>1 DEF IInv, CountInv, Pending, Unsent, Counting
<1> QED BY <1>2, <1>3, <1>4, <1>5 DEF IInv

LEMMA TickStep ==
  ASSUME IInv, Tick
  PROVE  IInv'
<1> DEFINE Lesser(x) == IF x + 1 <= MaxAge THEN x + 1 ELSE MaxAge
<1>1. age \in [Conns -> Int] /\ jumps \in 0..MaxJumps /\ MaxAge \in Nat
  <2>1. /\ jumps \in 0..MaxJumps /\ age \in [Conns -> Int] /\ MaxJumps \in Nat /\ JumpSize \in Nat /\ IdleTime \in Nat
    BY NetServerConstants DEF IInv, TypeOK
  <2> DEFINE m == MaxJumps - jumps
             p == JumpSize * m
  <2>2. m \in Nat
    BY <2>1
  <2> HIDE DEF m
  <2>3. p \in Nat
    BY <2>1, <2>2
  <2>4. MaxAge = IdleTime + 1 + p
    BY DEF MaxAge, m
  <2> HIDE DEF p
  <2> QED BY <2>1, <2>3, <2>4
<1>2. ASSUME NEW x \in Int PROVE Min({x + 1, MaxAge}) = Lesser(x)
  BY <1>1 DEF Min
<1>3. age' = [c \in Conns |-> IF c \in Listed THEN Lesser(age[c]) ELSE 0]
  BY <1>1, <1>2 DEF Tick
<1>4. \A x \in Int : Lesser(x) \in Int /\ (x >= 0 => Lesser(x) >= 0)
  BY <1>1
<1>5. \A x, y \in Int : x >= y => Lesser(x) >= Lesser(y)
  BY <1>1
<1> HIDE DEF Lesser
<1>6. age' \in [Conns -> Int]
  BY <1>1, <1>3, <1>4
<1>7. UNCHANGED <<connlist, jumps>>
  BY DEF Tick
<1>8. AgeInv'
  <2> SUFFICES ASSUME jumps = 0
               PROVE  /\ \A c \in Conns : age'[c] >= 0
                      /\ \A l \in Loops : \A i, j \in DOMAIN connlist[l] :
                            i < j => age'[connlist[l][i]] >= age'[connlist[l][j]]
    BY <1>7 DEF AgeInv
  <2>1. /\ \A c \in Conns : age[c] >= 0
        /\ \A l \in Loops : \A i, j \in DOMAIN connlist[l] :
              i < j => age[connlist[l][i]] >= age[connlist[l][j]]
    BY DEF IInv, AgeInv
  <2>2. \A c \in Conns : age'[c] >= 0
    BY <1>1, <1>3, <1>4, <2>1
  <2>3. \A l \in Loops : \A i \in DOMAIN connlist[l] :
           connlist[l][i] \in Conns /\ age'[connlist[l][i]] = Lesser(age[connlist[l][i]])
    <3> SUFFICES ASSUME NEW l \in Loops, NEW i \in DOMAIN connlist[l]
                 PROVE  connlist[l][i] \in Conns /\ age'[connlist[l][i]] = Lesser(age[connlist[l][i]])
      OBVIOUS
    <3>1. connlist[l][i] \in Conns
      BY DEF IInv, ListInv, Made
    <3>2. connlist[l] \in Seq(Conns)
      BY DEF IInv, TypeOK
    <3>3. ToSet(connlist[l]) = {connlist[l][j] : j \in DOMAIN connlist[l]}
      BY DEF ToSet
    <3>4. connlist[l][i] \in Listed
      BY <3>3 DEF Listed
    <3> QED BY <1>3, <3>1, <3>4
  <2>4. ASSUME NEW l \in Loops, NEW i \in DOMAIN connlist[l], NEW j \in DOMAIN connlist[l], i < j
        PROVE  age'[connlist[l][i]] >= age'[connlist[l][j]]
    <3>1. age[connlist[l][i]] >= age[connlist[l][j]] /\ age[connlist[l][i]] \in Int /\ age[connlist[l][j]] \in Int
      BY <1>1, <2>1, <2>3, <2>4
    <3> QED BY <1>5, <2>3, <3>1
  <2> QED BY <2>2, <2>4
<1> QED BY <1>1, <1>6, <1>7, <1>8, AgeStep DEF Tick

LEMMA JumpBackStep ==
  ASSUME IInv, JumpBack
  PROVE  IInv'
<1>1. /\ age \in [Conns -> Int] /\ jumps \in 0..MaxJumps /\ jumps' = jumps + 1 /\ jumps < MaxJumps
      /\ MaxJumps \in Nat /\ JumpSize \in Nat
  BY NetServerConstants DEF IInv, TypeOK, JumpBack
<1>2. jumps' \in 0..MaxJumps /\ jumps' # 0
  BY <1>1
<1>3. age' \in [Conns -> Int]
  BY <1>1 DEF JumpBack
<1>4. AgeInv'
  BY <1>2 DEF AgeInv
<1> QED BY <1>2, <1>3, <1>4, AgeStep DEF JumpBack

-----------------------------------------------------------------------------
(* User threads.                                                           *)

UserPoints == {Idle} \cup [at : {"send", "count", "set", "close"}, conn : Conns, msg : Msgs \cup {NoMsg}]

\* A user takes a step: none but its own next call, a functor, a flag, or the
\* state of its connection changes.
LEMMA UserChange ==
  ASSUME IInv, upc' \in [Users -> UserPoints], UsersHold, OnlyDisconnecting,
         functors' \in [Loops -> Seq(Functors)], FunctorInv', CountInv',
         nTotalWaitSendNum' \in Int, calls' \in 0..MaxCalls, needclose_' \subseteq Conns,
         UNCHANGED <<config, loop_, polled, out, reporting, books, hasRsp100, history, jumps, reads>>
  PROVE  IInv'
<1>1. /\ UNCHANGED <<http, nMaxConnNum, loop_, polled, out, reporting, connlist, age, nCurrConnNum, mapConns>>
      /\ UNCHANGED <<hasRsp100, told, raced, uncounted, jumps, reads>>
  BY DEF config, books, history
<1>2. TypeOK'
  <2>1. state_' \in [Conns -> ConnStates]
    BY DEF OnlyDisconnecting
  <2> QED BY <1>1, <2>1 DEF IInv, TypeOK, ConnStates, UserPoints, Idle
<1> QED BY <1>1, <1>2, QuietStep

LEMMA Points ==
  ASSUME IInv, NEW u \in Users
  PROVE  /\ upc \in [Users -> UserPoints] /\ upc[u] \in UserPoints
         /\ upc[u].at # "idle" =>
              /\ upc[u] \in [at : {"send", "count", "set", "close"}, conn : Conns, msg : Msgs \cup {NoMsg}]
              /\ upc[u].conn \in Made /\ upc[u].conn \in Conns
              /\ upc[u].at = "send" => upc[u].msg \in Msgs
<1>1. upc \in [Users -> UserPoints]
  BY DEF IInv, TypeOK, UserPoints
<1>2. upc[u] \in UserPoints
  BY <1>1
<1> QED BY <1>1, <1>2 DEF IInv, ConnInv, UserPoints, Idle

LEMMA SendMsgStep ==
  ASSUME IInv, NEW u \in Users, NEW c \in Conns, SendMsg(u, c)
  PROVE  IInv'
<1>1. upc \in [Users -> UserPoints] /\ c \in Made /\ calls \in 0..MaxCalls /\ MaxCalls \in Nat
      /\ needclose_ \subseteq Conns /\ state_ \in [Conns -> ConnStates]
  BY Points, NetServerConstants DEF IInv, TypeOK, ConnInv, SendMsg, Found, ConnStates
<1>2. PICK m \in Msgs : Flag(c, m) /\ upc' = [upc EXCEPT ![u] = [at |-> "send", conn |-> c, msg |-> m]]
  BY DEF SendMsg
<1>3. /\ UNCHANGED <<state_, loop_, polled, out, functors, nTotalWaitSendNum, uncounted>>
      /\ calls < MaxCalls /\ calls' = calls + 1 /\ upc[u].at = "idle"
  BY DEF SendMsg, history
<1>4. upc' \in [Users -> UserPoints]
  BY <1>1, <1>2 DEF UserPoints
<1>5. UsersHold
  BY <1>1, <1>2 DEF UsersHold, IInv, ConnInv
<1>6. needclose_' \subseteq Conns /\ calls' \in 0..MaxCalls
  BY <1>1, <1>2, <1>3 DEF Flag
<1>7. Counting' = Counting
  BY <1>1, <1>2, <1>3 DEF Counting
<1>8. OnlyDisconnecting
  BY <1>1, <1>3 DEF OnlyDisconnecting
<1>9. FunctorInv' /\ CountInv'
  BY <1>3, <1>7 DEF IInv, FunctorInv, AllBelong, Belongs, CountInv, Pending, Unsent
<1>10. functors' \in [Loops -> Seq(Functors)] /\ nTotalWaitSendNum' \in Int
  BY <1>3 DEF IInv, TypeOK
<1> QED BY <1>4, <1>5, <1>6, <1>8, <1>9, <1>10, UserChange DEF SendMsg

LEMMA ForceCloseStep ==
  ASSUME IInv, NEW u \in Users, NEW c \in Conns, ForceClose(u, c)
  PROVE  IInv'
<1>1. upc \in [Users -> UserPoints] /\ c \in Made /\ calls \in 0..MaxCalls /\ MaxCalls \in Nat
      /\ needclose_ \subseteq Conns /\ state_ \in [Conns -> ConnStates]
  BY Points, NetServerConstants DEF IInv, TypeOK, ConnInv, ForceClose, Found, ConnStates
<1>2. /\ upc' = [upc EXCEPT ![u] = [at |-> "set", conn |-> c, msg |-> NoMsg]]
      /\ UNCHANGED <<state_, loop_, polled, needclose_, out, functors, nTotalWaitSendNum, uncounted>>
      /\ calls < MaxCalls /\ calls' = calls + 1 /\ upc[u].at = "idle"
  BY DEF ForceClose, history, conn
<1>3. upc' \in [Users -> UserPoints]
  BY <1>1, <1>2 DEF UserPoints
<1>4. UsersHold
  BY <1>1, <1>2 DEF UsersHold, IInv, ConnInv
<1>5. needclose_' \subseteq Conns /\ calls' \in 0..MaxCalls
  BY <1>1, <1>2
<1>6. Counting' = Counting
  BY <1>1, <1>2 DEF Counting
<1>7. OnlyDisconnecting
  BY <1>1, <1>2 DEF OnlyDisconnecting
<1>8. FunctorInv' /\ CountInv'
  BY <1>2, <1>6 DEF IInv, FunctorInv, AllBelong, Belongs, CountInv, Pending, Unsent
<1>9. functors' \in [Loops -> Seq(Functors)] /\ nTotalWaitSendNum' \in Int
  BY <1>2 DEF IInv, TypeOK
<1> QED BY <1>2, <1>3, <1>4, <1>5, <1>7, <1>8, <1>9, UserChange DEF ForceClose, conn

LEMMA SendCountsStep ==
  ASSUME IInv, NEW u \in Users, SendCounts(u)
  PROVE  IInv'
<1>1. upc \in [Users -> UserPoints] /\ needclose_ \subseteq Conns /\ state_ \in [Conns -> ConnStates]
      /\ nTotalWaitSendNum \in Int /\ uncounted \in Nat
  BY Points DEF IInv, TypeOK, ConnStates
<1>2. /\ upc' = [upc EXCEPT ![u] = Idle] /\ nTotalWaitSendNum' = nTotalWaitSendNum + 1 /\ upc[u].at = "count"
      /\ UNCHANGED <<state_, loop_, polled, needclose_, out, functors, uncounted, calls>>
  BY DEF SendCounts, history, conn
<1>3. upc' \in [Users -> UserPoints]
  BY <1>1, <1>2 DEF UserPoints
<1>4. UsersHold
  BY <1>1, <1>2 DEF UsersHold, IInv, ConnInv, Idle
<1>5. Counting' = Counting \ {u} /\ u \in Counting
  BY <1>1, <1>2 DEF Counting, Idle
<1>6. IsFiniteSet(Counting') /\ Cardinality(Counting') = Cardinality(Counting) - 1
  BY <1>5, FS_RemoveElement DEF IInv, CountInv
<1>7. Pending' = Pending /\ Unsent' = Unsent
  BY <1>2 DEF Pending, Unsent
<1>8. CountInv'
  <2>1. /\ Cardinality(Pending) \in Nat /\ Cardinality(Unsent) \in Nat /\ Cardinality(Counting) \in Nat
        /\ nTotalWaitSendNum + uncounted = Cardinality(Pending) + Cardinality(Unsent) - Cardinality(Counting)
    BY FS_CardinalityType DEF IInv, CountInv
  <2> DEFINE p == Cardinality(Pending)
             t == Cardinality(Unsent)
             k == Cardinality(Counting)
             k1 == Cardinality(Counting')
             n == nTotalWaitSendNum
             m == nTotalWaitSendNum'
  <2>2. /\ p \in Nat /\ t \in Nat /\ k \in Nat /\ k1 = k - 1 /\ n \in Int /\ m = n + 1 /\ uncounted \in Nat
        /\ n + uncounted = p + t - k
    BY <1>1, <1>2, <1>6, <2>1
  <2> HIDE DEF p, t, k, k1, n, m
  <2>3. m + uncounted = p + t - k1
    BY <2>2
  <2>4. nTotalWaitSendNum' + uncounted' = Cardinality(Pending') + Cardinality(Unsent') - Cardinality(Counting')
    BY <1>2, <1>7, <2>3 DEF p, t, k1, m
  <2> QED BY <1>6, <1>7, <2>4 DEF IInv, CountInv
<1>9. OnlyDisconnecting
  BY <1>1, <1>2 DEF OnlyDisconnecting
<1>10. FunctorInv'
  BY <1>2 DEF IInv, FunctorInv, AllBelong, Belongs
<1>11. functors' \in [Loops -> Seq(Functors)] /\ nTotalWaitSendNum' \in Int /\ calls' \in 0..MaxCalls
  BY <1>1, <1>2 DEF IInv, TypeOK
<1> QED BY <1>1, <1>2, <1>3, <1>4, <1>8, <1>9, <1>10, <1>11, UserChange DEF SendCounts, conn

LEMMA SendQueuesStep ==
  ASSUME IInv, NEW u \in Users, SendQueues(u)
  PROVE  IInv'
<1> DEFINE c == upc[u].conn
           l == loop_[c]
           w == functors[l]
           f == Fn("sendInLoop", c, upc[u].msg)
<1>1. /\ upc \in [Users -> UserPoints] /\ needclose_ \subseteq Conns /\ state_ \in [Conns -> ConnStates]
      /\ nTotalWaitSendNum \in Int /\ uncounted \in Nat /\ functors \in [Loops -> Seq(Functors)]
  BY Points DEF IInv, TypeOK, ConnStates
<1>2. /\ upc[u].at = "send" /\ UNCHANGED <<state_, loop_, polled, needclose_, out, nTotalWaitSendNum, uncounted, calls>>
  BY DEF SendQueues, history, conn
<1>3. /\ c \in Conns /\ c \in Made /\ upc[u].msg \in Msgs
      /\ upc[u] \in [at : {"send", "count", "set", "close"}, conn : Conns, msg : Msgs \cup {NoMsg}]
  BY <1>2, Points
<1>4. l \in Loops /\ w \in Seq(Functors) /\ AllBelong(l, w)
  BY <1>3 DEF IInv, TypeOK, FunctorInv
<1>5. f \in Functors /\ Belongs(l, f) /\ Counts(f)
  BY <1>3 DEF Fn, Functors, Belongs, Counts
<1>6. OnlyDisconnecting /\ nTotalWaitSendNum' \in Int /\ calls' \in 0..MaxCalls /\ needclose_' \subseteq Conns
  <2>1. OnlyDisconnecting
    BY <1>1, <1>2 DEF OnlyDisconnecting
  <2> QED BY <1>1, <1>2, <2>1 DEF IInv, TypeOK
<1>7. CASE functors' = [functors EXCEPT ![l] = Append(w, f)] /\ upc' = [upc EXCEPT ![u].at = "count"]
  <2> DEFINE q == Append(w, f)
  <2> HIDE DEF f, w, l
  <2>1. /\ q \in Seq(Functors) /\ Cardinality(Due(q)) = Cardinality(Due(w)) + 1
        /\ \A i \in DOMAIN q : q[i] = f \/ \E j \in DOMAIN w : q[i] = w[j]
    BY <1>4, <1>5, DueAppend
  <2>2. functors' = [functors EXCEPT ![l] = q]
    BY <1>7
  <2> HIDE DEF q
  <2>3. QueueIs(l, q)
    BY <1>1, <1>4, <1>5, <2>1, <2>2 DEF QueueIs, AllBelong
  <2>4. upc' \in [Users -> UserPoints]
    <3>1. [upc[u] EXCEPT !.at = "count"] \in [at : {"send", "count", "set", "close"}, conn : Conns, msg : Msgs \cup {NoMsg}]
      BY <1>3
    <3> QED BY <1>1, <1>7, <3>1 DEF UserPoints
  <2>5. upc'[u].at = "count" /\ upc'[u].conn = c /\ \A v \in Users : v # u => upc'[v] = upc[v]
    BY <1>1, <1>3, <1>7
  <2>6. UsersHold
    BY <1>3, <2>5 DEF UsersHold, IInv, ConnInv
  <2>7. Counting' = Counting \cup {u} /\ u \notin Counting
    BY <1>2, <2>5 DEF Counting
  <2>8. IsFiniteSet(Counting') /\ Cardinality(Counting') = Cardinality(Counting) + 1
    BY <2>7, FS_AddElement DEF IInv, CountInv
  <2>9. CountInv'
    <3> DEFINE d == Cardinality(Due(w))
               e == Cardinality(Due(q))
               k == Cardinality(Counting)
               k1 == Cardinality(Counting')
               a == Len(out[c])
               n == nTotalWaitSendNum
    <3>1. out[c] \in Seq(Msgs) /\ IsFiniteSet(Counting)
      BY <1>3 DEF IInv, TypeOK, CountInv
    <3>2. a \in Nat /\ d \in Nat /\ e \in Nat /\ k \in Nat /\ k1 \in Nat
      BY <1>4, <2>1, <2>8, <3>1, DueIsFinite, FS_CardinalityType, LenProperties
    <3>3. e = d + 1 /\ k1 = k + 1 /\ n \in Int /\ uncounted \in Nat
      BY <1>1, <2>1, <2>8
    <3> HIDE DEF d, e, k, k1, a, n
    <3>4. n + uncounted + k1 + d + a = n + uncounted + k + e + a
      BY <3>2, <3>3
    <3>5. nTotalWaitSendNum' + uncounted' + Cardinality(Counting') + Cardinality(Due(functors[l])) + Len(out[c])
            = nTotalWaitSendNum + uncounted + Cardinality(Counting) + Cardinality(Due(q)) + Len(out[c])
      BY <1>2, <3>4 DEF d, e, k, k1, a, n, w
    <3>6. OutIs(c, out[c])
      BY <1>2, <1>3 DEF OutIs, IInv, TypeOK
    <3>7. nTotalWaitSendNum' \in Int /\ uncounted' \in Nat /\ TypeOK /\ CountInv
      BY <1>1, <1>2 DEF IInv
    <3> HIDE DEF c
    <3> QED BY <1>3, <1>4, <2>3, <2>8, <3>5, <3>6, <3>7, Balanced
  <2>10. FunctorInv'
    BY <1>2, <1>4, <2>3, QueueBelongs DEF IInv
  <2>11. functors' \in [Loops -> Seq(Functors)]
    BY <2>3 DEF QueueIs
  <2> QED BY <1>2, <1>6, <2>4, <2>6, <2>9, <2>10, <2>11, UserChange DEF SendQueues, conn
<1>8. CASE functors' = functors /\ upc' = [upc EXCEPT ![u] = Idle]
  <2>1. upc' \in [Users -> UserPoints]
    BY <1>1, <1>8 DEF UserPoints
  <2>2. UsersHold
    BY <1>1, <1>8 DEF UsersHold, IInv, ConnInv, Idle
  <2>3. Counting' = Counting
    BY <1>1, <1>2, <1>8 DEF Counting, Idle
  <2>4. FunctorInv' /\ CountInv'
    BY <1>2, <1>8, <2>3 DEF IInv, FunctorInv, AllBelong, Belongs, CountInv, Pending, Unsent
  <2> QED BY <1>1, <1>2, <1>6, <1>8, <2>1, <2>2, <2>4, UserChange DEF SendQueues, conn
<1> QED BY <1>7, <1>8 DEF SendQueues

LEMMA ForceCloseQueuesStep ==
  ASSUME IInv, NEW u \in Users, ForceCloseQueues(u)
  PROVE  IInv'
<1> DEFINE c == upc[u].conn
           l == loop_[c]
           w == functors[l]
           f == Fn("forceCloseInLoop", c, NoMsg)
           q == Append(w, f)
<1>1. /\ upc \in [Users -> UserPoints] /\ needclose_ \subseteq Conns /\ state_ \in [Conns -> ConnStates]
      /\ nTotalWaitSendNum \in Int /\ functors \in [Loops -> Seq(Functors)]
  BY Points DEF IInv, TypeOK, ConnStates
<1>2. /\ upc[u].at = "close" /\ UNCHANGED <<state_, loop_, polled, needclose_, out, nTotalWaitSendNum, uncounted, calls>>
      /\ functors' = [functors EXCEPT ![l] = q] /\ upc' = [upc EXCEPT ![u] = Idle]
  BY DEF ForceCloseQueues, history, conn
<1>3. c \in Conns
  BY <1>2, Points
<1>4. l \in Loops /\ w \in Seq(Functors) /\ AllBelong(l, w)
  BY <1>3 DEF IInv, TypeOK, FunctorInv
<1>5. f \in Functors /\ Belongs(l, f) /\ ~Counts(f)
  BY <1>3, NewFunctor
<1>6. OnlyDisconnecting /\ nTotalWaitSendNum' \in Int /\ calls' \in 0..MaxCalls /\ needclose_' \subseteq Conns
  <2>1. OnlyDisconnecting
    BY <1>1, <1>2 DEF OnlyDisconnecting
  <2> QED BY <1>1, <1>2, <2>1 DEF IInv, TypeOK
<1>7. upc' \in [Users -> UserPoints]
  BY <1>1, <1>2 DEF UserPoints
<1>8. UsersHold
  BY <1>1, <1>2 DEF UsersHold, IInv, ConnInv, Idle
<1>9. Counting' = Counting
  BY <1>1, <1>2 DEF Counting, Idle
<1> HIDE DEF f, w, l
<1>10. /\ q \in Seq(Functors) /\ Cardinality(Due(q)) = Cardinality(Due(w)) + 0
       /\ \A i \in DOMAIN q : q[i] = f \/ \E j \in DOMAIN w : q[i] = w[j]
  BY <1>4, <1>5, DueAppend
<1> HIDE DEF q
<1>11. QueueIs(l, q)
  BY <1>1, <1>2, <1>4, <1>5, <1>10 DEF QueueIs, AllBelong
<1>12. Cardinality(Due(q)) = Cardinality(Due(functors[l]))
  BY <1>4, <1>10, DueIsFinite DEF w
<1>13. FunctorInv' /\ CountInv'
  BY <1>2, <1>4, <1>9, <1>11, <1>12, QueueBelongs, OnlyQueued DEF IInv
<1>14. functors' \in [Loops -> Seq(Functors)]
  BY <1>11 DEF QueueIs
<1> QED BY <1>2, <1>6, <1>7, <1>8, <1>13, <1>14, UserChange DEF ForceCloseQueues, conn

\* The race: a connection that has been closed is overwritten.
LEMMA ForceCloseSetsStateStep ==
  ASSUME IInv, NEW u \in Users, ForceCloseSetsState(u)
  PROVE  IInv'
<1> DEFINE c == upc[u].conn
<1>1. /\ upc \in [Users -> UserPoints] /\ state_ \in [Conns -> ConnStates] /\ raced \subseteq Conns
  BY Points DEF IInv, TypeOK, ConnStates
<1>2. /\ UNCHANGED <<http, nMaxConnNum, loop_, polled, needclose_, out, functors, reporting, connlist, age>>
      /\ UNCHANGED <<nCurrConnNum, mapConns, hasRsp100, nTotalWaitSendNum, told, uncounted, jumps, reads, calls>>
      /\ state_' = [state_ EXCEPT ![c] = "kDisconnecting"] /\ upc[u].at = "set"
      /\ raced' = IF state_[c] = "kDisconnected" THEN raced \cup {c} ELSE raced
      /\ upc' = [upc EXCEPT ![u].at = "close"]
  BY DEF ForceCloseSetsState, config, books
<1>3. /\ c \in Conns /\ c \in Made
      /\ upc[u] \in [at : {"send", "count", "set", "close"}, conn : Conns, msg : Msgs \cup {NoMsg}]
  BY <1>2, Points
<1>4. upc' \in [Users -> UserPoints]
  <2>1. [upc[u] EXCEPT !.at = "close"] \in [at : {"send", "count", "set", "close"}, conn : Conns, msg : Msgs \cup {NoMsg}]
    BY <1>3
  <2> QED BY <1>1, <1>2, <2>1 DEF UserPoints
<1>5. upc'[u].at = "close" /\ upc'[u].conn = c /\ \A v \in Users : v # u => upc'[v] = upc[v]
  BY <1>1, <1>2, <1>3
<1>6. UsersHold
  BY <1>3, <1>5 DEF UsersHold, IInv, ConnInv
<1>7. Counting' = Counting
  BY <1>2, <1>5 DEF Counting
<1>8. ConnInv' /\ Made' = Made
  <2>1. \A d \in Conns : state_'[d] = state_[d] \/ (state_[d] # "none" /\ state_'[d] = "kDisconnecting")
    BY <1>1, <1>2, <1>3 DEF Made
  <2>2. polled \subseteq Conns
    BY DEF IInv, TypeOK
  <2> QED BY <1>2, <1>6, <2>1, <2>2, QuietConn DEF IInv
<1>9. BookInv'
  <2>1. CASE state_[c] = "kDisconnected"
    <3>1. raced' # {}
      BY <1>2, <2>1
    <3> QED BY <3>1 DEF BookInv
  <2>2. CASE state_[c] # "kDisconnected"
    <3>1. OnlyDisconnecting /\ raced' = raced
      BY <1>1, <1>2, <1>3, <2>2 DEF OnlyDisconnecting, Closable, Made, ConnStates
    <3>2. reporting \in [Loops -> SUBSET Conns] /\ loop_ \in [Conns -> Loops]
      BY DEF IInv, TypeOK
    <3> QED BY <1>2, <3>1, <3>2, QuietBooks DEF IInv
  <2> QED BY <2>1, <2>2
<1>10. TypeOK'
  <2>1. state_' \in [Conns -> ConnStates] /\ raced' \subseteq Conns
    BY <1>1, <1>2, <1>3 DEF ConnStates
  <2> QED BY <1>2, <1>4, <2>1 DEF IInv, TypeOK, ConnStates, UserPoints, Idle
<1>11. FunctorInv' /\ CountInv'
  BY <1>2, <1>7 DEF IInv, FunctorInv, AllBelong, Belongs, CountInv, Pending, Unsent
<1>12. ListInv' /\ AgeInv'
  BY <1>2, <1>8 DEF IInv, ListInv, AgeInv
<1> QED BY <1>8, <1>9, <1>10, <1>11, <1>12 DEF IInv

-----------------------------------------------------------------------------
(* The theorems.                                                           *)

LEMMA InitInv == Init => IInv
<1> SUFFICES ASSUME Init PROVE IInv
  OBVIOUS
<1>1. TypeOK
  BY NetServerConstants DEF Init, TypeOK
<1>2. Made = {} /\ Open = {}
  BY DEF Init, Made, Open, Closable
<1>3. ConnInv
  BY <1>2, FS_EmptySet DEF Init, ConnInv, Idle
<1>4. FunctorInv /\ ListInv /\ AgeInv
  BY DEF Init, FunctorInv, AllBelong, ListInv, AgeInv
<1>5. BookInv
  <2>1. Cardinality({}) = 0 /\ nMaxConnNum \in Nat
    BY FS_EmptySet, NetServerConstants DEF Init
  <2>2. told \cap Open = {}
    BY <1>2
  <2>3. nCurrConnNum = Cardinality(Open) /\ Cardinality(told \cap Open) <= nMaxConnNum
    BY <1>2, <2>1, <2>2 DEF Init
  <2> QED BY <1>2, <2>3 DEF Init, BookInv
<1>6. CountInv
  <2>1. Pending = {} /\ Unsent = {} /\ Counting = {}
    BY DEF Init, Pending, Unsent, Counting, Due, Idle
  <2>2. IsFiniteSet({}) /\ Cardinality({}) = 0
    BY FS_EmptySet
  <2> QED BY <2>1, <2>2 DEF Init, CountInv
<1> QED BY <1>1, <1>3, <1>4, <1>5, <1>6 DEF IInv

LEMMA Stutter ==
  ASSUME IInv, UNCHANGED vars
  PROVE  IInv'
<1>1. UNCHANGED <<config, conn, functors, reporting, connlist, nCurrConnNum, mapConns, hasRsp100>>
  BY DEF vars, books
<1>2. UNCHANGED <<nTotalWaitSendNum, upc, history, reads, calls, age, jumps>>
  BY DEF vars, books
<1>3. age' \in [Conns -> Int] /\ jumps' \in 0..MaxJumps /\ AgeInv'
  BY <1>1, <1>2 DEF IInv, TypeOK, AgeInv
<1> QED BY <1>1, <1>2, <1>3, AgeStep

\* The inductive invariant holds in every reachable state.
THEOREM Invariant == Spec => []IInv
<1>1. Init => IInv
  BY InitInv
<1>2. IInv /\ [Next]_vars => IInv'
  <2> SUFFICES ASSUME IInv, [Next]_vars PROVE IInv'
    OBVIOUS
  <2>1. ASSUME NEW c \in Conns, ConnectEstablished(c) PROVE IInv'
    BY <2>1, ConnectEstablishedStep
  <2>2. ASSUME NEW c \in Conns, PeerCloses(c) PROVE IInv'
    BY <2>2, PeerClosesStep
  <2>3. ASSUME NEW c \in Conns, OnConnectionDown(c) PROVE IInv'
    BY <2>3, OnConnectionDownStep
  <2>4. ASSUME NEW c \in Conns, OnMessage(c) PROVE IInv'
    BY <2>4, OnMessageStep
  <2>5. ASSUME NEW c \in Conns, HandleWrite(c) PROVE IInv'
    BY <2>5, HandleWriteStep
  <2>6. ASSUME NEW l \in Loops, RunFunctor(l) PROVE IInv'
    BY <2>6, RunFunctorStep
  <2>7. ASSUME NEW l \in Loops, OnCheckConnTimeOut(l) PROVE IInv'
    BY <2>7, OnCheckConnTimeOutStep
  <2>8. ASSUME NEW u \in Users, UserStep(u) PROVE IInv'
    <3>1. ASSUME NEW c \in Conns, SendMsg(u, c) PROVE IInv'
      BY <3>1, SendMsgStep
    <3>2. ASSUME NEW c \in Conns, ForceClose(u, c) PROVE IInv'
      BY <3>2, ForceCloseStep
    <3>3. CASE SendQueues(u)
      BY <3>3, SendQueuesStep
    <3>4. CASE SendCounts(u)
      BY <3>4, SendCountsStep
    <3>5. CASE ForceCloseSetsState(u)
      BY <3>5, ForceCloseSetsStateStep
    <3>6. CASE ForceCloseQueues(u)
      BY <3>6, ForceCloseQueuesStep
    <3> QED BY <2>8, <3>1, <3>2, <3>3, <3>4, <3>5, <3>6 DEF UserStep
  <2>9. CASE Tick
    BY <2>9, TickStep
  <2>10. CASE JumpBack
    BY <2>10, JumpBackStep
  <2>11. CASE UNCHANGED vars
    BY <2>11, Stutter
  <2> QED BY <2>1, <2>2, <2>3, <2>4, <2>5, <2>6, <2>7, <2>8, <2>9, <2>10, <2>11 DEF Next
<1> QED BY <1>1, <1>2, PTL DEF Spec

\* The type invariant of the server's books.
THEOREM TypeCorrect == Spec => []TypeOK
<1>1. IInv => TypeOK
  BY DEF IInv
<1> QED BY <1>1, Invariant, PTL

\* onConnection, AddToConnList and UpdateConnList keep the connection counter,
\* the id map and the lists at exactly the open connections, and no more of them
\* are reported than the configured maximum, unless a ForceClose lost its race.
THEOREM BooksCorrect == Spec => []BooksAgree
<1>1. IInv => BooksAgree
  <2> SUFFICES ASSUME IInv, raced = {}
               PROVE  /\ nCurrConnNum = Cardinality(Open)
                      /\ Cardinality(told \cap Open) <= nMaxConnNum
                      /\ UseIds => mapConns = Open
                      /\ \A l \in Loops : /\ IsInjective(connlist[l])
                                          /\ ToSet(connlist[l]) = {c \in Open : loop_[c] = l}
    BY DEF BooksAgree
  <2>1. ASSUME NEW l \in Loops
        PROVE  IsInjective(connlist[l]) /\ ToSet(connlist[l]) = {c \in Open : loop_[c] = l}
    <3>1. IsInjective(connlist[l])
      BY DEF IInv, ListInv, IsInjective
    <3>2. ToSet(connlist[l]) = {connlist[l][i] : i \in DOMAIN connlist[l]}
      BY DEF ToSet
    <3>3. \A i \in DOMAIN connlist[l] : connlist[l][i] \in Conns
      BY DEF IInv, ListInv, Made
    <3>4. \A c \in Conns : c \in Open /\ loop_[c] = l <=> \E i \in DOMAIN connlist[l] : connlist[l][i] = c
      BY DEF IInv, BookInv
    <3>5. Open \subseteq Conns
      BY DEF Open
    <3> QED BY <3>1, <3>2, <3>3, <3>4, <3>5
  <2> QED BY <2>1 DEF IInv, BookInv
<1> QED BY <1>1, Invariant, PTL

\* onCheckConnTimeOut, which stops at the first connection that is not idle,
\* misses no idle one: the lists are in the order of the last activity.
THEOREM IdleCorrect == Spec => []IdleAreInFront
<1>1. IInv => IdleAreInFront
  <2> SUFFICES ASSUME IInv, jumps = 0, NEW l \in Loops, NEW i \in DOMAIN connlist[l], NEW j \in DOMAIN connlist[l],
                      i < j, EndsWalk(connlist[l][i])
               PROVE  ~TimedOut(connlist[l][j])
    BY DEF IdleAreInFront
  <2>1. connlist[l][i] \in Conns /\ connlist[l][j] \in Conns
    BY DEF IInv, ListInv, Made
  <2>2. /\ age[connlist[l][i]] >= age[connlist[l][j]] /\ ~(age[connlist[l][i]] > IdleTime)
        /\ age[connlist[l][i]] \in Int /\ age[connlist[l][j]] \in Int /\ IdleTime \in Int
    BY <2>1, NetServerConstants DEF IInv, AgeInv, EndsWalk, TimedOut, TypeOK
  <2> DEFINE a == age[connlist[l][i]]
             b == age[connlist[l][j]]
  <2>3. a \in Int /\ b \in Int /\ IdleTime \in Int /\ a >= b /\ ~(a > IdleTime)
    BY <2>2
  <2> HIDE DEF a, b
  <2>4. ~(b > IdleTime)
    BY <2>3
  <2> QED BY <2>4 DEF TimedOut, b
<1> QED BY <1>1, Invariant, PTL

\* nTotalWaitSendNum is back at zero when nothing is on its way, less what the
\* server itself has sent, whatever became of the messages.
THEOREM WaitSendCorrect == Spec => []WaitSendSettles
<1>1. IInv => WaitSendSettles
  <2> SUFFICES ASSUME IInv, \A l \in Loops : functors[l] = <<>>, \A c \in Conns : out[c] = <<>>,
                      \A u \in Users : upc[u].at = "idle"
               PROVE  nTotalWaitSendNum = 0 - uncounted
    BY DEF WaitSendSettles
  <2>1. Pending = {} /\ Unsent = {} /\ Counting = {}
    BY DEF Pending, Unsent, Counting, Due
  <2>2. Cardinality({}) = 0
    BY FS_EmptySet
  <2>3. nTotalWaitSendNum + uncounted = 0
    BY <2>1, <2>2 DEF IInv, CountInv
  <2>4. nTotalWaitSendNum \in Int /\ uncounted \in Nat
    BY DEF IInv, TypeOK
  <2> QED BY <2>3, <2>4
<1> QED BY <1>1, Invariant, PTL
=============================================================================
