----------------------------- MODULE CurlClient -----------------------------
(***************************************************************************)
(* The asynchronous HTTP client (netclient/curl): CurlHttpClient, its      *)
(* CurlManagers, one per I/O thread, and the three collections they share  *)
(* (RequestManager.cpp): requests that wait, that run, and CurlRequests to *)
(* be used again.  Each collection has a lock of its own; the limits are   *)
(* tested outside of it.                                                   *)
(*                                                                         *)
(* A CurlRequest stands for its easy handle too.  libcurl is external: it  *)
(* finishes transfers in any order and counts the handles that run.        *)
(***************************************************************************)
EXTENDS Integers, Sequences, FiniteSets

CONSTANTS
    Users,          \* threads that call SendHttpRequest
    Managers,       \* CurlManagers (httpclis_), numbered from 0
    Objects,        \* CurlRequest objects the allocator can hand out
    MaxTotalConns, MaxReqQueSize,
    Modes,          \* values of WaitOrReturnIfOverMaxTotalConns
    MaxCalls,       \* bound: calls of SendHttpRequest
    MaxRounds,      \* bound: rounds of ExitHttpClient (30 in the code)
    ExitCalls,      \* bound: calls of SendHttpRequest after which ExitHttpClient may
                    \*   be called; none: it is never called
    EarlyEnds       \* transfers may end within curl_multi_add_handle (a malformed
                    \*   URL, a connection refused at once)

None == "none"

ASSUME CurlClientConstants ==
    /\ IsFiniteSet(Users) /\ None \notin Objects
    /\ MaxTotalConns \in Nat \ {0} /\ MaxReqQueSize \in 1..MaxTotalConns
    /\ Modes \subseteq BOOLEAN /\ EarlyEnds \in BOOLEAN
    /\ MaxCalls \in Nat /\ MaxRounds \in Nat /\ ExitCalls \subseteq Nat
    /\ Cardinality(Managers) \in Nat \ {0} /\ Managers = 0..Cardinality(Managers) - 1

VARIABLES
    user,           \* SendHttpRequest of each thread: pc, request, mode, result, manager
    calls,          \* calls of SendHttpRequest so far
    wait_rsp,       \* wait_rsp_
    mutex,          \* whether the mutex of condition_ is locked
    total_req,      \* total_req_, as the index of the next CurlManager
    waiting,        \* HttpWaitRequest::wait_requests_
    requestings,    \* HttpRequesting::requestings_
    recycle,        \* HttpRecycleRequest::recycle_requests_
    io,             \* each CurlManager: pc, wake-up pending, request in hand,
                    \*   in check_multi_info, runningHandles_, prevRunningHandles_;
                    \*   history: a message not read yet is of a transfer that ended
                    \*   within curl_multi_add_handle
    active,         \* handles libcurl is working on
    finished,       \* handles with a CURLMSG_DONE message not read yet
    exitPc, rounds, \* ExitHttpClient
    due             \* history: requests accepted and not called back

sendVars == <<user, calls, total_req>>
ioVars == <<io, active, finished>>
exitVars == <<exitPc, rounds>>
vars == <<sendVars, wait_rsp, mutex, waiting, requestings, recycle, ioVars, exitVars, due>>

UserPcs == {"idle", "test", "wait", "blocked", "woken", "counted", "add", "notify"}

TypeOK ==
    /\ user \in [Users -> [pc : UserPcs, req : Objects \cup {None}, wait : BOOLEAN,
                           ret : {0, 2, 3}, to : Managers]]
    /\ calls \in 0..MaxCalls
    /\ wait_rsp \in Int /\ mutex \in BOOLEAN /\ total_req \in Managers
    /\ waiting \in Seq(Objects) /\ requestings \subseteq Objects /\ recycle \in Seq(Objects)
    /\ io \in [Managers -> [pc : {"idle", "check", "get", "send", "read", "after"},
                            wake : BOOLEAN, req : Objects \cup {None}, info : BOOLEAN,
                            running : Nat, prev : Nat, early : BOOLEAN]]
    /\ active \in [Managers -> SUBSET Objects] /\ finished \in [Managers -> SUBSET Objects]
    /\ exitPc \in {"no", "test", "wait", "requesting", "recycle", "done"}
    /\ rounds \in 0..MaxRounds /\ due \subseteq Objects

\* A thread outside of SendHttpRequest.
Idle == [pc |-> "idle", req |-> None, wait |-> FALSE, ret |-> 0, to |-> 0]

\* After InitHttpClient.
Init ==
    /\ user = [u \in Users |-> Idle]
    /\ calls = 0
    /\ wait_rsp = 0 /\ mutex = FALSE /\ total_req = 0
    /\ waiting = <<>> /\ requestings = {} /\ recycle = <<>>
    /\ io = [m \in Managers |-> [pc |-> "idle", wake |-> FALSE, req |-> None, info |-> FALSE,
                                 running |-> 0, prev |-> 0, early |-> FALSE]]
    /\ active = [m \in Managers |-> {}] /\ finished = [m \in Managers |-> {}]
    /\ exitPc = "no" /\ rounds = 0 /\ due = {}

-----------------------------------------------------------------------------
(* Helpers.                                                                *)

Elements(s) == {s[i] : i \in DOMAIN s}

\* Whoever else holds a CurlRequest.
InUse ==
    Elements(waiting) \cup Elements(recycle) \cup requestings
    \cup {user[u].req : u \in Users} \cup {io[m].req : m \in Managers}
    \cup UNION {active[m] \cup finished[m] : m \in Managers}

\* Mutant of RequestingFull: the limit of running requests is not tested.
RequestingNeverFull == FALSE

\* HttpRequesting::isFull.
RequestingFull == Cardinality(requestings) > MaxTotalConns

\* conditionPtr->notifyAll(): the threads blocked in wait() have to take the
\* mutex again.
Notified == [u \in Users |-> IF user[u].pc = "blocked" THEN [user[u] EXCEPT !.pc = "woken"]
                             ELSE user[u]]

\* HttpRecycleRequest::recycle.
Recycled(r) ==
    Append(IF Len(recycle) >= MaxTotalConns THEN Tail(recycle) ELSE recycle, r)

-----------------------------------------------------------------------------
(* GetHttpRequest and SendHttpRequest.                                     *)

\* The request getRequest returns: a recycled one, or a new one.  New ones are
\* interchangeable, so any will do.
NextRequest ==
    IF recycle # <<>> THEN {Head(recycle)}
    ELSE IF Objects \subseteq InUse THEN {}
    ELSE {CHOOSE r \in Objects : r \notin InUse}

\* Mutant of RestOfRecycle: the request taken stays in the list.
AllOfRecycle == recycle

\* What HttpRecycleRequest::get leaves.
RestOfRecycle == IF recycle # <<>> THEN Tail(recycle) ELSE recycle

\* GetHttpRequest and the call of SendHttpRequest with mode w.
GetHttpRequest(u, w) ==
    /\ user[u].pc = "idle" /\ calls < MaxCalls /\ exitPc = "no"
    /\ \E r \in NextRequest :
          user' = [user EXCEPT ![u] = [@ EXCEPT !.pc = "test", !.req = r, !.wait = w]]
    /\ calls' = calls + 1
    /\ recycle' = RestOfRecycle
    /\ UNCHANGED <<wait_rsp, mutex, total_req, waiting, requestings, ioVars, exitVars, due>>

\* Mutant of OverMaxTotalConns: off by one, like the test of isFull.
OverMaxTotalConnsByOne == wait_rsp > MaxTotalConns

OverMaxTotalConns == wait_rsp >= MaxTotalConns

\* The loop on wait_rsp_.  Without w it tests again, and again.
TestWaitRsp(u) ==
    /\ user[u].pc = "test"
    /\ IF OverMaxTotalConns
       THEN user[u].wait /\ user' = [user EXCEPT ![u].pc = "wait"]
       ELSE user' = [user EXCEPT ![u].pc = "counted"]
    /\ wait_rsp' = wait_rsp
    /\ UNCHANGED <<calls, mutex, total_req, waiting, requestings, recycle, ioVars, exitVars, due>>

\* conditionPtr->wait() without the mutex: pthread_cond_wait unlocks it,
\* whoever holds it, ...
Wait(u) ==
    /\ user[u].pc = "wait"
    /\ mutex' = FALSE
    /\ user' = [user EXCEPT ![u].pc = "blocked"]
    /\ UNCHANGED <<calls, wait_rsp, total_req, waiting, requestings, recycle, ioVars, exitVars, due>>

\* ... and locks it before it returns.  Nobody unlocks it but the next wait().
WaitReturns(u) ==
    /\ user[u].pc = "woken" /\ ~mutex
    /\ mutex' = TRUE
    /\ user' = [user EXCEPT ![u].pc = "test"]
    /\ UNCHANGED <<calls, wait_rsp, total_req, waiting, requestings, recycle, ioVars, exitVars, due>>

\* ++wait_rsp_, and sendRequest tests isFull.
SendRequest(u) ==
    /\ user[u].pc = "counted"
    /\ wait_rsp' = wait_rsp + 1
    /\ user' = [user EXCEPT ![u] = [@ EXCEPT !.pc = IF RequestingFull THEN "notify" ELSE "add",
                                             !.ret = IF RequestingFull THEN 3 ELSE 0,
                                             !.to = total_req]]
    /\ UNCHANGED <<calls, mutex, total_req, waiting, requestings, recycle, ioVars, exitVars, due>>

\* Mutant of HasRoom: the comparison of HttpWaitRequest::isFull.
HasRoomAtLimit == Len(waiting) <= MaxReqQueSize

HasRoom == Len(waiting) < MaxReqQueSize

\* HttpWaitRequest::add.
AddToWaiting(u) ==
    /\ user[u].pc = "add"
    /\ IF HasRoom
       THEN /\ waiting' = Append(waiting, user[u].req)
            /\ due' = due \cup {user[u].req}
            /\ user' = [user EXCEPT ![u] = [@ EXCEPT !.pc = "notify", !.ret = 0, !.req = None]]
       ELSE /\ user' = [user EXCEPT ![u] = [@ EXCEPT !.pc = "notify", !.ret = 2]]
            /\ UNCHANGED <<waiting, due>>
    /\ UNCHANGED <<calls, wait_rsp, mutex, total_req, requestings, recycle, ioVars, exitVars>>

\* Mutant of TakenBack: a request that was refused stays counted.
TakenBackNever(ret) == 0

\* What SendHttpRequest takes off wait_rsp_ before it returns ret.
TakenBack(ret) == IF ret = 0 THEN 0 ELSE 1

\* notifySendRequest, and the counters after it.
NotifySendRequest(u) ==
    /\ user[u].pc = "notify"
    /\ io' = [io EXCEPT ![user[u].to].wake = TRUE]
    /\ total_req' = IF user[u].ret = 0 THEN (total_req + 1) % Cardinality(Managers) ELSE total_req
    /\ wait_rsp' = wait_rsp - TakenBack(user[u].ret)
    /\ user' = [user EXCEPT ![u] = Idle]
    /\ UNCHANGED <<calls, mutex, waiting, requestings, recycle, active, finished, exitVars, due>>

UserStep(u) ==
    \/ TestWaitRsp(u) \/ Wait(u) \/ WaitReturns(u) \/ SendRequest(u) \/ AddToWaiting(u)
    \/ NotifySendRequest(u)

-----------------------------------------------------------------------------
(* The I/O threads.                                                        *)

\* handleWakeUpCb.
HandleWakeUp(m) ==
    /\ io[m].pc = "idle" /\ io[m].wake
    /\ io' = [io EXCEPT ![m] = [@ EXCEPT !.pc = "check", !.wake = FALSE]]
    /\ UNCHANGED <<sendVars, wait_rsp, mutex, waiting, requestings, recycle, active, finished,
                   exitVars, due>>

\* The end of checkNeedSendRequest, and of check_multi_info when it was the
\* caller.  stopped_ is never set.
Checked(m) ==
    [io EXCEPT ![m] = [@ EXCEPT !.pc = "idle", !.info = FALSE,
                                !.prev = IF io[m].info THEN io[m].running ELSE io[m].prev]]

\* checkNeedSendRequest: isFull, without the lock, ...
CheckNeedSendRequest(m) ==
    /\ io[m].pc = "check"
    /\ io' = IF RequestingFull THEN Checked(m) ELSE [io EXCEPT ![m].pc = "get"]
    /\ UNCHANGED <<sendVars, wait_rsp, mutex, waiting, requestings, recycle, active, finished,
                   exitVars, due>>

\* ... then HttpWaitRequest::get, ...
GetWaiting(m) ==
    /\ io[m].pc = "get"
    /\ IF waiting = <<>>
       THEN io' = Checked(m) /\ UNCHANGED waiting
       ELSE /\ io' = [io EXCEPT ![m] = [@ EXCEPT !.pc = "send", !.req = Head(waiting)]]
            /\ waiting' = Tail(waiting)
    /\ UNCHANGED <<sendVars, wait_rsp, mutex, requestings, recycle, active, finished, exitVars, due>>

\* ... sendRequestInLoop, and round again.  curl_multi_add_handle may call
\* handleCurlmTimerCb(0): libcurl counts its handles anew and may finish some of
\* them, S, at once.  Nobody looks for their messages here.
SendRequestInLoop(m) ==
    /\ io[m].pc = "send"
    /\ requestings' = requestings \cup {io[m].req}
    /\ \E S \in SUBSET (active[m] \cup {io[m].req}), timerCb \in BOOLEAN :
          /\ S # {} => EarlyEnds /\ timerCb
          /\ active' = [active EXCEPT ![m] = (@ \cup {io[m].req}) \ S]
          /\ finished' = [finished EXCEPT ![m] = @ \cup S]
          /\ io' = [io EXCEPT ![m] =
                      [@ EXCEPT !.pc = "check", !.req = None,
                                !.running = IF timerCb THEN Cardinality(active'[m]) ELSE io[m].running,
                                !.early = io[m].early \/ S # {}]]
    /\ UNCHANGED <<sendVars, wait_rsp, mutex, waiting, recycle, exitVars, due>>

\* Mutant of ReadsMessages: messages are read when the last handle is done.
ReadsMessagesAtEnd(m, n) == io[m].prev > n /\ n = 0

\* check_multi_info looks for messages when fewer handles run than before.
ReadsMessages(m, n) == io[m].prev > n \/ n = 0

\* A socket or timer event: curl_multi_socket_action finishes the transfers S,
\* and check_multi_info decides whether to read the messages.
SocketAction(m, S) ==
    LET n == Cardinality(active[m] \ S) IN
    /\ io[m].pc = "idle" /\ active[m] # {} /\ S \subseteq active[m]
    /\ active' = [active EXCEPT ![m] = @ \ S]
    /\ finished' = [finished EXCEPT ![m] = @ \cup S]
    /\ io' = [io EXCEPT ![m] =
                [@ EXCEPT !.running = n, !.info = ReadsMessages(m, n),
                          !.pc = IF ReadsMessages(m, n) THEN "read" ELSE "idle",
                          !.prev = IF ReadsMessages(m, n) THEN io[m].prev ELSE n]]
    /\ UNCHANGED <<sendVars, wait_rsp, mutex, waiting, requestings, recycle, exitVars, due>>

\* A message is read, and done() calls the user back, unless the request has
\* been cleared from requestings_.
ReadMessage(m, r) ==
    /\ io[m].pc = "read" /\ r \in finished[m]
    /\ finished' = [finished EXCEPT ![m] = @ \ {r}]
    /\ IF r \in requestings
       THEN /\ due' = due \ {r}
            /\ wait_rsp' = wait_rsp - 1
            /\ user' = Notified
            /\ io' = [io EXCEPT ![m] = [@ EXCEPT !.pc = "after", !.req = r]]
       ELSE UNCHANGED <<due, wait_rsp, user, io>>
    /\ UNCHANGED <<calls, mutex, total_req, waiting, requestings, recycle, active, exitVars>>

\* afterRequestDone.
AfterRequestDone(m) ==
    /\ io[m].pc = "after"
    /\ requestings' = requestings \ {io[m].req}
    /\ recycle' = Recycled(io[m].req)
    /\ io' = [io EXCEPT ![m] = [@ EXCEPT !.pc = "read", !.req = None]]
    /\ UNCHANGED <<sendVars, wait_rsp, mutex, waiting, active, finished, exitVars, due>>

\* Mutant of NoMoreMessages: check_multi_info does not look for requests that
\* wait.
NoMoreMessagesIdle(m) ==
    /\ io[m].pc = "read" /\ finished[m] = {}
    /\ io' = Checked(m)
    /\ UNCHANGED <<sendVars, wait_rsp, mutex, waiting, requestings, recycle, active, finished,
                   exitVars, due>>

NoMoreMessages(m) ==
    /\ io[m].pc = "read" /\ finished[m] = {}
    /\ io' = [io EXCEPT ![m] = [@ EXCEPT !.pc = "check", !.early = FALSE]]
    /\ UNCHANGED <<sendVars, wait_rsp, mutex, waiting, requestings, recycle, active, finished,
                   exitVars, due>>

IoStep(m) ==
    \/ HandleWakeUp(m) \/ CheckNeedSendRequest(m) \/ GetWaiting(m) \/ SendRequestInLoop(m)
    \/ (\E r \in Objects : ReadMessage(m, r)) \/ AfterRequestDone(m) \/ NoMoreMessages(m)

\* libcurl: its timeouts finish every transfer in the end.
Finishes(m) == \E S \in SUBSET Objects : S # {} /\ SocketAction(m, S)

-----------------------------------------------------------------------------
(* ExitHttpClient.                                                         *)

ExitBegins ==
    /\ exitPc = "no" /\ calls \in ExitCalls
    /\ exitPc' = "test"
    /\ UNCHANGED <<sendVars, wait_rsp, mutex, waiting, requestings, recycle, ioVars, rounds, due>>

\* A round begins while there are requests, with HttpWaitRequest::clear, which
\* calls the users of the waiting requests back.
ExitRound ==
    /\ exitPc = "test"
    /\ IF wait_rsp > 0 /\ rounds < MaxRounds
       THEN /\ exitPc' = "requesting" /\ rounds' = rounds + 1
            /\ waiting' = <<>>
            /\ due' = due \ Elements(waiting)
            /\ wait_rsp' = wait_rsp - Len(waiting)
            /\ user' = IF waiting = <<>> THEN user ELSE Notified
       ELSE exitPc' = "done" /\ UNCHANGED <<rounds, waiting, due, wait_rsp, user>>
    /\ UNCHANGED <<calls, mutex, total_req, requestings, recycle, ioVars>>

\* HttpRequesting::clear: forceCancelInner does nothing.  The CurlRequests S that
\* neither the user nor an I/O thread holds are destroyed, and curl_easy_cleanup
\* takes their handles away from libcurl.
ExitClearsRequesting ==
    /\ exitPc = "requesting"
    /\ requestings' = {}
    /\ \E S \in SUBSET (requestings \ {io[m].req : m \in Managers}) :
          /\ active' = [m \in Managers |-> active[m] \ S]
          /\ finished' = [m \in Managers |-> finished[m] \ S]
    /\ exitPc' = "recycle"
    /\ UNCHANGED <<sendVars, wait_rsp, mutex, waiting, recycle, io, rounds, due>>

ExitClearsRecycle ==
    /\ exitPc = "recycle"
    /\ recycle' = <<>>
    /\ exitPc' = "test"
    /\ UNCHANGED <<sendVars, wait_rsp, mutex, waiting, requestings, ioVars, rounds, due>>

ExitStep == ExitRound \/ ExitClearsRequesting \/ ExitClearsRecycle

-----------------------------------------------------------------------------

Next ==
    \/ \E u \in Users : UserStep(u) \/ \E w \in Modes : GetHttpRequest(u, w)
    \/ \E m \in Managers : IoStep(m) \/ \E S \in SUBSET Objects : SocketAction(m, S)
    \/ ExitBegins \/ ExitStep

Spec == Init /\ [][Next]_vars

FairSpec ==
    /\ Spec
    /\ \A u \in Users : WF_vars(UserStep(u))
    /\ \A m \in Managers : WF_vars(IoStep(m)) /\ SF_vars(Finishes(m))
    /\ WF_vars(ExitStep)

-----------------------------------------------------------------------------
(* Properties.                                                             *)

\* Requests on the way into the client.
Sending ==
    {u \in Users : user[u].pc = "add" \/ (user[u].pc = "notify" /\ user[u].ret # 0)}

\* wait_rsp_ counts the calls on their way and the requests whose callback is
\* due, through every refusal, and is therefore never negative.
WaitRspExact == wait_rsp = Cardinality(Sending) + Cardinality(due)

\* The limits hold, as far as tests outside of the locks can make them: each
\* I/O thread can add one request past the limit, and each sending thread but
\* one can pass the limit of requests that wait for a response.
LimitsHold ==
    /\ Len(waiting) <= MaxReqQueSize
    /\ Cardinality(requestings) <= MaxTotalConns + Cardinality(Managers)
    /\ Len(recycle) <= MaxTotalConns
    /\ wait_rsp <= MaxTotalConns + Cardinality(Users) - 1

\* A CurlRequest is in one place at a time: one that is recycled or given to a
\* user neither waits nor runs, and libcurl does not work on its handle.
OnePlace ==
    /\ \A r \in (Elements(recycle) \cup {user[u].req : u \in Users}) \ {None} :
          /\ r \notin Elements(waiting) \cup requestings
          /\ \A m \in Managers : r \notin active[m] \cup finished[m] /\ io[m].req # r
    /\ \A i, j \in DOMAIN waiting : i # j => waiting[i] # waiting[j]

\* The message of r is left in a CurlManager without another transfer, because
\* the last one ended within curl_multi_add_handle: no event will make
\* check_multi_info look for it.
Unread(r) == \E m \in Managers : r \in finished[m] /\ active[m] = {} /\ io[m].early

\* r is such a request, or waits for one of the places that they all take.
Missed(r) ==
    \/ Unread(r)
    \/ r \in Elements(waiting) /\ RequestingFull /\ \A q \in requestings : Unread(q)

\* CurlManager m is at work, or an event is to come that makes it work.
Busy(m) == io[m].pc # "idle" \/ io[m].wake \/ active[m] # {}

\* As long as the client is not told to exit, no request that SendHttpRequest
\* accepted is stranded: one that waits has an I/O thread still to look for it,
\* although its wake-up may go to another one than will have room, and although
\* the running requests may be full when it comes; one that is finished will have
\* its message read, although check_multi_info does not look for messages when
\* the number of handles has grown meanwhile.  Only messages left behind by a
\* transfer that ended within curl_multi_add_handle may stay: the timer that
\* would catch them is commented out in the code.
NoneStranded ==
    exitPc = "no" => \A r \in due :
        \/ \E m \in Managers : r \in active[m] \/ io[m].req = r
        \/ \E m \in Managers :
              r \in finished[m] /\ (active[m] # {} \/ io[m].pc \in {"read", "after"})
        \/ /\ r \in Elements(waiting)
           /\ (\E u \in Users : user[u].pc = "notify") \/ (\E m \in Managers : Busy(m))
        \/ Missed(r)

\* A thread that waits for a response to make room goes on in the end, when
\* there are fewer threads than MaxTotalConns.
SenderReturns ==
    Cardinality(Users) < MaxTotalConns
    => \A u \in Users : user[u].pc = "wait" ~> user[u].pc = "idle"

=============================================================================
