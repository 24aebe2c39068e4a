----------------------------- MODULE NetServer ------------------------------
(***************************************************************************)
(* The server classes of mwnet_mt/netserver/NetServer.cc on top of the     *)
(* connections of net: TcpNetServerImpl and HttpNetServerImpl, which       *)
(* differ only in what they do with received bytes (http, chosen once),    *)
(* and the calls of NetServerCtrlInfo that user threads make.  They keep   *)
(* three books on the connections (the connection counter, the map of      *)
(* connection ids, and per I/O loop a list ordered by last activity that   *)
(* the idle check walks), count the messages waiting to be sent, and close *)
(* a connection after a message that was sent with bKeepAlive = false.     *)
(*                                                                         *)
(* A connection is reduced to what these classes see of it: state_, the    *)
(* unsent messages, and the callbacks it queues in its loop in order.      *)
(* Module TcpConnection has the details, TcpServer the starting and        *)
(* stopping, which are left out here.  time() is modelled by the age of    *)
(* every entry of the lists; ages that are over IdleTime whatever the clock *)
(* may still do are not told apart.                                       *)
(***************************************************************************)
EXTENDS Integers, Sequences, FiniteSets, SequencesExt

CONSTANTS
    Conns,        \* connections that clients make, each at most once
    Loops,        \* the I/O loops
    Users,        \* user threads
    Ops,          \* what users do: "send", "close"
    Negative,     \* BOOLEAN values: do the user's callbacks return < 0
    MaxConnNums,  \* values of the configured maximum of connections
    IdleTime,     \* m_nIdleConnTime
    MaxSendQue,   \* m_nMaxSendQue, which is the high water mark too
    UseIds,       \* g_unique_node_id is in 1..8000
    JumpSize,     \* by how much the clock is set back
    MaxJumps, MaxReads,
    MaxCalls,     \* bounds: clock changes, received messages, and what users send or close
    MaxEvents     \* bound: connections, received messages and calls together

ASSUME NetServerConstants ==
    /\ Ops \subseteq {"send", "close"}
    /\ MaxConnNums \subseteq Nat /\ IdleTime \in Nat /\ MaxSendQue \in Nat \ {0}
    /\ UseIds \in BOOLEAN /\ Negative \subseteq BOOLEAN
    /\ JumpSize \in Nat /\ MaxJumps \in Nat /\ MaxReads \in Nat /\ MaxCalls \in Nat /\ MaxEvents \in Nat

VARIABLES
    http,         \* HttpNetServerImpl rather than TcpNetServerImpl
    state_,       \* of each connection; "none" before it is made
    loop_,        \* its loop
    polled,       \* connections whose channel is registered for reading
    needclose_,   \* connections with the flag set
    out,          \* per connection, the unsent messages, oldest first
    functors,     \* per loop, what is queued in it
    reporting,    \* per loop, the connections inside handleClose, before its callback
    connlist,     \* per loop, the WeakConnectionList
    age,          \* TmDiff() of every connection's node
    nMaxConnNum,  \* g_nMaxConnNum_Tcp, g_nMaxConnNum_Http
    nCurrConnNum,
    mapConns,     \* g_mapTcpConns, g_mapHttpConns
    hasRsp100,    \* m_bHasRsp100Continue
    nTotalWaitSendNum,
    upc,          \* what a user thread is about to do
    told,         \* connections the user was told are up; HTTP: those with an HttpRequest
    raced,        \* history: connections closed twice because of a lost race
    uncounted,    \* history: messages sent that nTotalWaitSendNum never counted
    jumps, reads, calls

config == <<http, nMaxConnNum>>
conn == <<state_, loop_, polled, needclose_, out>>
books == <<connlist, age, nCurrConnNum, mapConns>>
history == <<told, raced, uncounted>>
vars == <<config, conn, functors, reporting, books, hasRsp100, nTotalWaitSendNum, upc,
          history, jumps, reads, calls>>

MaxAge == IdleTime + 1 + JumpSize * (MaxJumps - jumps)
Idle == [at |-> "idle"]
Fn(op, c, m) == [op |-> op, conn |-> c, msg |-> m]
NoMsg == "none"
Msgs == {"keep", "close"}   \* messages are told apart by bKeepAlive only

Functors == [op : {"onWriteOk", "onWriteErr", "onHighWater", "sendInLoop", "forceCloseInLoop"},
             conn : Conns, msg : Msgs \cup {NoMsg}]

TypeOK ==
    /\ http \in BOOLEAN /\ nMaxConnNum \in MaxConnNums
    /\ state_ \in [Conns -> {"none", "kConnected", "kDisconnecting", "kDisconnected"}]
    /\ loop_ \in [Conns -> Loops]
    /\ polled \subseteq Conns /\ needclose_ \subseteq Conns
    /\ out \in [Conns -> Seq(Msgs)]
    /\ functors \in [Loops -> Seq(Functors)] /\ reporting \in [Loops -> SUBSET Conns]
    /\ connlist \in [Loops -> Seq(Conns)] /\ age \in [Conns -> Int]
    /\ nCurrConnNum \in Int /\ nTotalWaitSendNum \in Int
    /\ mapConns \subseteq Conns /\ hasRsp100 \subseteq Conns
    /\ upc \in [Users -> {Idle} \cup [at : {"send", "count", "set", "close"}, conn : Conns,
                                       msg : Msgs \cup {NoMsg}]]
    /\ told \subseteq Conns /\ raced \subseteq Conns /\ uncounted \in Nat
    /\ jumps \in 0..MaxJumps /\ reads \in 0..MaxReads /\ calls \in 0..MaxCalls

Init ==
    /\ http \in BOOLEAN /\ nMaxConnNum \in MaxConnNums
    /\ state_ = [c \in Conns |-> "none"]
    /\ loop_ \in [Conns -> Loops]
    /\ polled = {} /\ needclose_ = {}
    /\ out = [c \in Conns |-> <<>>]
    /\ functors = [l \in Loops |-> <<>>]
    /\ reporting = [l \in Loops |-> {}]
    /\ connlist = [l \in Loops |-> <<>>]
    /\ age = [c \in Conns |-> 0]
    /\ nCurrConnNum = 0
    /\ mapConns = {} /\ hasRsp100 = {}
    /\ nTotalWaitSendNum = 0
    /\ upc = [u \in Users |-> Idle]
    /\ told = {} /\ raced = {} /\ uncounted = 0
    /\ jumps = 0 /\ reads = 0 /\ calls = 0

-----------------------------------------------------------------------------
(* The connection, as seen from here.                                      *)

\* Not a condition of the code: the bound on what happens from outside.
Bounded == Cardinality({c \in Conns : state_[c] # "none"}) + reads + calls < MaxEvents

Closable(c) == state_[c] \in {"kConnected", "kDisconnecting"}

\* No shared_ptr to the connection is left.  (TcpServer drops its own at some
\* time after the close; this is the earliest.)
Expired(c) ==
    /\ state_[c] = "kDisconnected"
    /\ \A l \in Loops : c \notin reporting[l]
                        /\ \A i \in DOMAIN functors[l] : functors[l][i].conn # c
    /\ \A u \in Users : upc[u].at # "idle" => upc[u].conn # c

\* The loop of c is in none of its callbacks.
LoopFree(l) == reporting[l] = {}

\* conn->shutdown() and conn->forceClose() in the loop thread l, if the caller
\* wants c closed; waiting is what is queued in l before.
CloseIf(wanted, l, c, waiting) ==
    LET closes == wanted /\ Closable(c)
    IN  /\ state_' = IF closes THEN [state_ EXCEPT ![c] = "kDisconnecting"] ELSE state_
        /\ functors' = [functors EXCEPT ![l] =
              IF closes THEN Append(waiting, Fn("forceCloseInLoop", c, NoMsg)) ELSE waiting]

\* setNeedCloseFlag
Flag(c, m) == needclose_' = IF m = "close" THEN needclose_ \cup {c} ELSE needclose_

\* send() takes a message as long as the list is short enough.
Accepts(c) == Len(out[c]) < MaxSendQue

\* What sendInLoop can do with a message: fail, write it, or keep what write()
\* left of it, which may trigger the high water callback.
SendOutcomes(c) ==
    IF state_[c] # "kConnected" THEN {"onWriteErr"}
    ELSE IF out[c] # <<>> THEN {"wait"} ELSE {"onWriteOk", "onWriteErr", "wait"}

\* The functors sendInLoop queues for outcome o.
Queued(c, m, o) ==
    IF o # "wait" THEN <<Fn(o, c, m)>>
    ELSE IF Len(out[c]) + 1 >= MaxSendQue THEN <<Fn("onHighWater", c, NoMsg)>> ELSE <<>>

Kept(c, m, o) == IF o = "wait" THEN [out EXCEPT ![c] = Append(@, m)] ELSE out

-----------------------------------------------------------------------------
(* The books.                                                              *)

\* connlist.erase(node->GetPos()): c gives up its place, if it has one.
Erase(list, c) ==
    LET places == {i \in DOMAIN list : list[i] = c}
    IN  IF places = {} THEN list ELSE RemoveAt(list, CHOOSE i \in places : TRUE)

\* AddToConnList
AddToConnList(c) ==
    /\ connlist' = [connlist EXCEPT ![loop_[c]] = Append(@, c)]
    /\ age' = [age EXCEPT ![c] = 0]
    /\ mapConns' = IF UseIds THEN mapConns \cup {c} ELSE mapConns

\* Mutant of MoveToEnd: the entry keeps its place in the list.
MoveNot(c) ==
    /\ age' = [age EXCEPT ![c] = 0]
    /\ UNCHANGED connlist

\* UpdateConnList(conn, false)
MoveToEnd(c) ==
    /\ age' = [age EXCEPT ![c] = 0]
    /\ connlist' = [connlist EXCEPT ![loop_[c]] = Append(Erase(@, c), c)]

\* UpdateConnList(conn, true): a second call finds the position invalid.
RemoveFromConnList(c) ==
    /\ mapConns' = mapConns \ {c}
    /\ connlist' = [connlist EXCEPT ![loop_[c]] = Erase(@, c)]
    /\ UNCHANGED age

\* The test against the configured maximum, after the increment.
OverLimit(n) == n > nMaxConnNum

\* connectEstablished and onConnection(connected): a connection over the limit
\* is closed before the user hears of it; so is one the user does not want.
ConnectEstablished(c) ==
    /\ state_[c] = "none" /\ LoopFree(loop_[c])
    /\ Bounded
    /\ AddToConnList(c)
    /\ nCurrConnNum' = nCurrConnNum + 1
    /\ polled' = polled \cup {c}
    /\ \/ /\ OverLimit(nCurrConnNum')
          /\ state_' = [state_ EXCEPT ![c] = "kDisconnecting"]
          /\ functors' = [functors EXCEPT ![loop_[c]] =
                             Append(@, Fn("forceCloseInLoop", c, NoMsg))]
          /\ UNCHANGED told
       \/ /\ ~OverLimit(nCurrConnNum')
          /\ told' = told \cup {c}
          /\ \/ /\ FALSE \in Negative
                /\ state_' = [state_ EXCEPT ![c] = "kConnected"]
                /\ UNCHANGED functors
             \/ /\ TRUE \in Negative
                /\ state_' = [state_ EXCEPT ![c] = "kDisconnecting"]
                /\ functors' = [functors EXCEPT ![loop_[c]] =
                                   Append(@, Fn("forceCloseInLoop", c, NoMsg))]
    /\ UNCHANGED <<config, loop_, needclose_, out, reporting, hasRsp100,
                   nTotalWaitSendNum, upc, raced, uncounted, jumps, reads, calls>>

\* handleClose up to its callback: the unsent messages fail.
StartClose(c, rest) ==
    /\ state_' = [state_ EXCEPT ![c] = "kDisconnected"]
    /\ polled' = polled \ {c}
    /\ out' = [out EXCEPT ![c] = <<>>]
    /\ functors' = [functors EXCEPT ![loop_[c]] =
          rest \o [i \in DOMAIN out[c] |-> Fn("onWriteErr", c, out[c][i])]]
    /\ reporting' = [reporting EXCEPT ![loop_[c]] = {c}]

\* The peer closes.
PeerCloses(c) ==
    /\ c \in polled /\ LoopFree(loop_[c])
    /\ StartClose(c, functors[loop_[c]])
    /\ UNCHANGED <<config, loop_, needclose_, books, hasRsp100, nTotalWaitSendNum, upc,
                   history, jumps, reads, calls>>

\* Mutant of CountsDown: a connection the user never heard of is not counted down.
CountsDownIfTold(c) == state_[c] = "kDisconnected" /\ c \in told

\* onConnection finds the connection disconnected, unless another thread has
\* just overwritten state_.
CountsDown(c) == state_[c] = "kDisconnected"

\* The rest of handleClose: onConnection (closeCallback_ is module TcpServer's)
OnConnectionDown(c) ==
    /\ c \in reporting[loop_[c]]
    /\ reporting' = [reporting EXCEPT ![loop_[c]] = {}]
    /\ \/ /\ CountsDown(c)
          /\ nCurrConnNum' = nCurrConnNum - 1
          /\ RemoveFromConnList(c)
       \/ /\ ~CountsDown(c)
          /\ UNCHANGED books
    /\ UNCHANGED <<config, conn, functors, hasRsp100, nTotalWaitSendNum, upc, history,
                   jumps, reads, calls>>

-----------------------------------------------------------------------------
(* Received bytes.                                                         *)

\* What a user callback in the loop thread may send: nothing, or a message by
\* OnSendMsg, which is counted as soon as send() has taken it; then the
\* connection is closed if the callback's result or the received data ask for it.
Reply(c) ==
    \E closes \in Negative :
       \/ /\ CloseIf(closes, loop_[c], c, functors[loop_[c]])
          /\ UNCHANGED <<needclose_, out, nTotalWaitSendNum, calls>>
       \/ /\ "send" \in Ops
          /\ calls < MaxCalls
          /\ calls' = calls + 1
          /\ \E m \in Msgs, o \in SendOutcomes(c) :
                /\ Flag(c, m)
                /\ IF Accepts(c)
                     THEN /\ nTotalWaitSendNum' = nTotalWaitSendNum + 1
                          /\ out' = Kept(c, m, o)
                          /\ CloseIf(closes, loop_[c], c, functors[loop_[c]] \o Queued(c, m, o))
                     ELSE /\ CloseIf(closes, loop_[c], c, functors[loop_[c]])
                          /\ UNCHANGED <<out, nTotalWaitSendNum>>

\* DealHttpRequest sends "100-continue" and "400 Bad Request" itself: they are
\* not counted.
SendUncounted(c, m) ==
    /\ calls < MaxCalls
    /\ calls' = calls + 1
    /\ Flag(c, m)
    /\ \E o \in SendOutcomes(c) :
          IF Accepts(c)
            THEN /\ out' = Kept(c, m, o)
                 /\ functors' = [functors EXCEPT ![loop_[c]] = @ \o Queued(c, m, o)]
                 /\ uncounted' = uncounted + 1
            ELSE UNCHANGED <<out, functors, uncounted>>
    /\ UNCHANGED <<state_, nTotalWaitSendNum>>

\* What ParseHttpRequest makes of the bytes: the whole request, a part that
\* expects "100-continue" or not, or an error.
DealHttpRequest(c) ==
    \/ /\ Reply(c)
       /\ hasRsp100' = hasRsp100 \ {c}
       /\ UNCHANGED uncounted
    \/ /\ c \notin hasRsp100
       /\ SendUncounted(c, "keep")
       /\ hasRsp100' = hasRsp100 \cup {c}
    \/ /\ SendUncounted(c, "close")
       /\ hasRsp100' = hasRsp100 \ {c}
    \/ UNCHANGED <<state_, functors, needclose_, out, nTotalWaitSendNum, calls, hasRsp100, uncounted>>

\* onMessage
OnMessage(c) ==
    /\ c \in polled /\ LoopFree(loop_[c])
    /\ reads < MaxReads
    /\ reads' = reads + 1
    /\ Bounded
    /\ MoveToEnd(c)
    /\ \/ http /\ c \in told /\ DealHttpRequest(c)
       \/ /\ ~http
          /\ Reply(c)
          /\ UNCHANGED <<hasRsp100, uncounted>>
       \/ /\ http /\ c \notin told
          /\ UNCHANGED <<state_, functors, needclose_, out, nTotalWaitSendNum, calls, hasRsp100, uncounted>>
    /\ UNCHANGED <<config, loop_, polled, reporting, nCurrConnNum, mapConns,
                   upc, told, raced, jumps>>

-----------------------------------------------------------------------------
(* Written messages.                                                       *)

\* handleWrite writes the oldest message to its end or fails, or the send timer
\* of a message expires.
HandleWrite(c) ==
    /\ state_[c] \in {"kConnected", "kDisconnecting"} /\ LoopFree(loop_[c])
    /\ \E i \in DOMAIN out[c], op \in {"onWriteOk", "onWriteErr"} :
          /\ op = "onWriteOk" => i = 1
          /\ out' = [out EXCEPT ![c] = RemoveAt(@, i)]
          /\ functors' = [functors EXCEPT ![loop_[c]] = Append(@, Fn(op, c, out[c][i]))]
    /\ UNCHANGED <<config, state_, loop_, polled, needclose_, reporting, books, hasRsp100,
                   nTotalWaitSendNum, upc, history, jumps, reads, calls>>

\* Mutant of Discounts: failed messages are forgotten.
DiscountsWritten(op) == op = "onWriteOk"

\* Both result callbacks count the message down.
Discounts(op) == op \in {"onWriteOk", "onWriteErr"}

\* The oldest functor of loop l.  The result callbacks and onHighWater close the
\* connection when the user's callback says so or the flag is set.
RunFunctor(l) ==
    /\ LoopFree(l)
    /\ functors[l] # <<>>
    /\ LET f == Head(functors[l])
           c == f.conn
           rest == Tail(functors[l])
       IN  \/ /\ f.op \in {"onWriteOk", "onWriteErr", "onHighWater"}
              /\ nTotalWaitSendNum' = IF Discounts(f.op) THEN nTotalWaitSendNum - 1
                                                         ELSE nTotalWaitSendNum
              /\ \E negative \in Negative : CloseIf(negative \/ c \in needclose_, l, c, rest)
              /\ UNCHANGED <<polled, out, reporting>>
           \/ /\ f.op = "sendInLoop"
              /\ \E o \in SendOutcomes(c) :
                    /\ out' = Kept(c, f.msg, o)
                    /\ functors' = [functors EXCEPT ![l] = rest \o Queued(c, f.msg, o)]
              /\ UNCHANGED <<state_, polled, reporting, nTotalWaitSendNum>>
           \/ /\ f.op = "forceCloseInLoop"
              /\ Closable(c)
              /\ StartClose(c, rest)
              /\ UNCHANGED nTotalWaitSendNum
           \/ /\ f.op = "forceCloseInLoop"
              /\ ~Closable(c)
              /\ functors' = [functors EXCEPT ![l] = rest]
              /\ UNCHANGED <<state_, polled, out, reporting, nTotalWaitSendNum>>
    /\ UNCHANGED <<config, loop_, needclose_, books, hasRsp100, upc, history, jumps, reads,
                   calls>>

-----------------------------------------------------------------------------
(* The idle check.                                                         *)

TimedOut(c) == age[c] > IdleTime

\* The walk ends at the first connection that is neither idle nor dated in the
\* future; entries of connections that are gone are dropped on the way.
EndsWalk(c) == ~Expired(c) /\ ~TimedOut(c) /\ age[c] >= 0

\* if (nTmDiff > m_nIdleConnTime) if (conn->connected())
Kicked(c) == TimedOut(c) /\ state_[c] = "kConnected"

\* The members of a finite set of numbers in increasing order.
InOrder(S) ==
    {f \in Bijection(1..Cardinality(S), S) : \A i, j \in 1..Cardinality(S) : i < j => f[i] < f[j]}

\* onCheckConnTimeOut walks over the first n entries.
OnCheckConnTimeOut(l) ==
    /\ LoopFree(l)
    /\ LET list == connlist[l]
       IN  \E n \in 0..Len(list) :
             /\ \A i \in 1..n : ~EndsWalk(list[i])
             /\ n < Len(list) => EndsWalk(list[n + 1])
             /\ \E kept \in InOrder({i \in DOMAIN list : i > n \/ ~Expired(list[i])}) :
                   connlist' = [connlist EXCEPT ![l] = [i \in DOMAIN kept |-> list[kept[i]]]]
             /\ age' = [c \in Conns |->
                   IF age[c] < 0 /\ ~Expired(c) /\ \E i \in 1..n : list[i] = c THEN 0 ELSE age[c]]
             /\ state_' = [c \in Conns |->
                   IF Kicked(c) /\ \E i \in 1..n : list[i] = c THEN "kDisconnecting" ELSE state_[c]]
             /\ \E kicked \in InOrder({i \in 1..n : Kicked(list[i])}) :
                   functors' = [functors EXCEPT ![l] = @ \o
                      [i \in DOMAIN kicked |-> Fn("forceCloseInLoop", list[kicked[i]], NoMsg)]]
    /\ UNCHANGED <<config, loop_, polled, needclose_, out, reporting, nCurrConnNum,
                   mapConns, hasRsp100, nTotalWaitSendNum, upc, history, jumps, reads, calls>>

Listed == UNION {ToSet(connlist[l]) : l \in Loops}

\* time() goes on, or is set back.
Tick ==
    /\ age' = [c \in Conns |-> IF c \in Listed THEN Min({age[c] + 1, MaxAge}) ELSE 0]
    /\ UNCHANGED <<config, conn, functors, reporting, connlist, nCurrConnNum, mapConns,
                   hasRsp100, nTotalWaitSendNum, upc, history, jumps, reads, calls>>

JumpBack ==
    /\ jumps < MaxJumps
    /\ jumps' = jumps + 1
    /\ age' = [c \in Conns |-> IF c \in Listed THEN age[c] - JumpSize ELSE 0]
    /\ UNCHANGED <<config, conn, functors, reporting, connlist, nCurrConnNum, mapConns,
                   hasRsp100, nTotalWaitSendNum, upc, history, reads, calls>>

-----------------------------------------------------------------------------
(* User threads.                                                           *)

\* A connection that was reported up is looked up by its id, or by the weak
\* pointer the callback was given.
Found(c) == c \in told /\ (IF UseIds THEN c \in mapConns ELSE ~Expired(c))

\* SendMsgWithTcpServer, SendHttpResponse: the flag is set first ...
SendMsg(u, c) ==
    /\ "send" \in Ops
    /\ upc[u].at = "idle" /\ Found(c)
    /\ Bounded
    /\ calls < MaxCalls
    /\ calls' = calls + 1
    /\ \E m \in Msgs :
          /\ Flag(c, m)
          /\ upc' = [upc EXCEPT ![u] = [at |-> "send", conn |-> c, msg |-> m]]
    /\ UNCHANGED <<config, state_, loop_, polled, out, functors, reporting, books, hasRsp100,
                   nTotalWaitSendNum, history, jumps, reads>>

\* ... then send() queues the message in the connection's loop ...
SendQueues(u) ==
    /\ upc[u].at = "send"
    /\ LET c == upc[u].conn
       IN  \/ /\ Accepts(c)
              /\ functors' = [functors EXCEPT ![loop_[c]] =
                                 Append(@, Fn("sendInLoop", c, upc[u].msg))]
              /\ upc' = [upc EXCEPT ![u].at = "count"]
           \/ /\ ~Accepts(c)
              /\ upc' = [upc EXCEPT ![u] = Idle]
              /\ UNCHANGED functors
    /\ UNCHANGED <<config, conn, reporting, books, hasRsp100, nTotalWaitSendNum, history,
                   jumps, reads, calls>>

\* ... and only then is it counted.
SendCounts(u) ==
    /\ upc[u].at = "count"
    /\ nTotalWaitSendNum' = nTotalWaitSendNum + 1
    /\ upc' = [upc EXCEPT ![u] = Idle]
    /\ UNCHANGED <<config, conn, functors, reporting, books, hasRsp100, history, jumps, reads,
                   calls>>

\* ForceCloseTcpConnection, ForceCloseHttpConnection: shutdown() and forceClose()
\* test state_ and set it alike, so one test and one assignment stand for both.
ForceClose(u, c) ==
    /\ "close" \in Ops
    /\ upc[u].at = "idle" /\ Found(c)
    /\ Bounded
    /\ calls < MaxCalls
    /\ calls' = calls + 1
    /\ Closable(c)
    /\ upc' = [upc EXCEPT ![u] = [at |-> "set", conn |-> c, msg |-> NoMsg]]
    /\ UNCHANGED <<config, conn, functors, reporting, books, hasRsp100, nTotalWaitSendNum,
                   history, jumps, reads>>

ForceCloseSetsState(u) ==
    /\ upc[u].at = "set"
    /\ LET c == upc[u].conn
       IN  /\ state_' = [state_ EXCEPT ![c] = "kDisconnecting"]
           /\ raced' = IF state_[c] = "kDisconnected" THEN raced \cup {c} ELSE raced
    /\ upc' = [upc EXCEPT ![u].at = "close"]
    /\ UNCHANGED <<config, loop_, polled, needclose_, out, functors, reporting, books,
                   hasRsp100, nTotalWaitSendNum, told, uncounted, jumps, reads, calls>>

ForceCloseQueues(u) ==
    /\ upc[u].at = "close"
    /\ functors' = [functors EXCEPT ![loop_[upc[u].conn]] =
                       Append(@, Fn("forceCloseInLoop", upc[u].conn, NoMsg))]
    /\ upc' = [upc EXCEPT ![u] = Idle]
    /\ UNCHANGED <<config, conn, reporting, books, hasRsp100, nTotalWaitSendNum, history,
                   jumps, reads, calls>>

-----------------------------------------------------------------------------
UserStep(u) ==
    \/ \E c \in Conns : SendMsg(u, c) \/ ForceClose(u, c)
    \/ SendQueues(u) \/ SendCounts(u) \/ ForceCloseSetsState(u) \/ ForceCloseQueues(u)

Next ==
    \/ \E c \in Conns : \/ ConnectEstablished(c) \/ PeerCloses(c) \/ OnConnectionDown(c)
                        \/ OnMessage(c) \/ HandleWrite(c)
    \/ \E l \in Loops : RunFunctor(l) \/ OnCheckConnTimeOut(l)
    \/ \E u \in Users : UserStep(u)
    \/ Tick \/ JumpBack

Spec == Init /\ [][Next]_vars

-----------------------------------------------------------------------------
(* Properties.                                                             *)

\* Open connections: not yet reported down.
Open == {c \in Conns : Closable(c) \/ c \in reporting[loop_[c]]}

\* The counter, the id map and the lists of the loops hold exactly the open
\* connections, each once, and the user is never told of more of them than the
\* maximum, however connections are refused, kicked, closed by the user, by the
\* peer or by a flagged message - unless a ForceClose lost the race with the
\* loop's own close (forceClose's FIXME: use compare and swap).
BooksAgree ==
    raced = {} =>
       /\ nCurrConnNum = Cardinality(Open)
       /\ Cardinality(told \cap Open) <= nMaxConnNum
       /\ UseIds => mapConns = Open
       /\ \A l \in Loops : /\ IsInjective(connlist[l])
                           /\ ToSet(connlist[l]) = {c \in Open : loop_[c] = l}

\* One idle check kicks every connection of its loop that has been idle too
\* long, although it stops at the first that is not: no idle connection is
\* behind one that ends the walk.  (A clock that is set back can upset this.)
IdleAreInFront ==
    jumps = 0 =>
       \A l \in Loops : \A i, j \in DOMAIN connlist[l] :
          i < j /\ EndsWalk(connlist[l][i]) => ~TimedOut(connlist[l][j])

\* GetTotalTcpWaitSendNum: when no thread is inside SendMsg and no result is due,
\* the counter is back at zero, however the messages ended, except that every
\* reply DealHttpRequest sent by itself has taken one from it.
WaitSendSettles ==
    (/\ \A l \in Loops : functors[l] = <<>>
     /\ \A c \in Conns : out[c] = <<>>
     /\ \A u \in Users : upc[u].at = "idle")
       => nTotalWaitSendNum = 0 - uncounted

\* NetServer.h on bKeepAlive: with false the connection is closed after the
\* OnSendOk of that message.  So while it is unsent the OnSendOk of an earlier
\* one does not close the connection, unless a user callback asks for it.
FlaggedIsSent ==
    [][\A l \in Loops : functors[l] # <<>> /\ RunFunctor(l) =>
          LET f == Head(functors[l])
          IN  f.op = "onWriteOk" /\ f.msg = "keep" /\ "close" \in ToSet(out[f.conn]) =>
                 state_'[f.conn] = state_[f.conn]]_vars
=============================================================================
