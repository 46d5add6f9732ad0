-------------------------- MODULE McpClientProofs --------------------------
(***************************************************************************)
(* Theorems about McpClient, for any calls, ids, exits and timeouts.       *)
(***************************************************************************)
EXTENDS McpClient, SequenceTheorems, TLAPS

-----------------------------------------------------------------------------
(* The inductive invariant *)

\* The lines in the pipe, without cut ones.
Unread == {pipe[n] : n \in 1..Len(pipe)} \ {Cut}

\* Ids that were not given out are nowhere.
IdInv ==
  /\ \A i \in Id : i >= nextId => pending[i] = Nobody
  /\ \A r \in inbox : r.id < nextId
  /\ \A l \in Unread : l.id < nextId

\* A request and its answer name the caller that waits for them, if any does.
NameInv ==
  /\ \A r \in inbox : pending[r.id] \in {Nobody, r.caller}
  /\ \A l \in Unread : pending[l.id] \in {Nobody, l.caller}

\* Who is pending waits, who waits is pending.
WaitInv ==
  /\ \A i \in Id : pending[i] \in Call => At(pending[i], "awaiting")
  /\ \A i \in Id : pending[i] = Start => initPromise = "running"
  /\ \A i, j \in Id : pending[i] # Nobody /\ pending[i] = pending[j] => i = j
  /\ \A c \in Call : At(c, "awaiting") => \E i \in Id : pending[i] = c
  /\ initPromise = "running" => \E i \in Id : pending[i] = Start
  /\ \A c \in Call : At(c, "starting") => initPromise = "running"

ServerInv ==
  /\ OneServer
  /\ initPromise = "none" => child = "none"
  /\ child = "none" => inbox = {} /\ \A i \in Id : pending[i] = Nobody

\* A call is requested once, after it began to await, and performed once.
OnceInv ==
  /\ \A c \in Call : call[c] \in {"new", "starting", "resuming"} => performed[c] = 0
  /\ \A r \in inbox : r.caller \in Call =>
       /\ performed[r.caller] = 0
       /\ call[r.caller] \notin {"new", "starting", "resuming"}
  /\ \A r, s \in inbox : r.caller \in Call /\ r.caller = s.caller => r = s
  /\ \A l \in Unread : l.caller \in Call => performed[l.caller] = 1
  /\ \A c \in Call : At(c, "answered") => performed[c] = 1

IInv ==
  TypeOK /\ IdInv /\ NameInv /\ WaitInv /\ ServerInv /\ OnceInv /\ OwnAnswer

-----------------------------------------------------------------------------
(* Lemmas *)

\* A step that leaves the pipe alone leaves its lines alone.
LEMMA PipeUnchanged ==
  ASSUME pipe' = pipe
  PROVE  Unread' = Unread
BY DEF Unread

\* The lines are lines, and not cut.
LEMMA UnreadType ==
  ASSUME TypeOK
  PROVE  \A l \in Unread : l \in Line /\ l.id \in Id /\ l.caller \in Caller
<1>1. \A n \in 1..Len(pipe) : pipe[n] \in Line \cup {Cut}
  BY DEF TypeOK
<1> QED
  BY <1>1 DEF Unread, Line

\* Reading a line.
LEMMA TailEffect ==
  ASSUME TypeOK, pipe # << >>, pipe' = Tail(pipe)
  PROVE  /\ pipe' \in Seq(Line \cup {Cut}) /\ Unread' \subseteq Unread
         /\ Head(pipe) # Cut => Head(pipe) \in Unread
<1>1. pipe \in Seq(Line \cup {Cut}) /\ Len(pipe) > 0
  BY DEF TypeOK
<1>2. /\ Tail(pipe) \in Seq(Line \cup {Cut}) /\ Len(Tail(pipe)) = Len(pipe) - 1
      /\ \A n \in 1..Len(Tail(pipe)) : Tail(pipe)[n] = pipe[n + 1]
  BY <1>1
<1>3. Unread' \subseteq Unread
  BY <1>1, <1>2 DEF Unread
<1>4. Head(pipe) = pipe[1] /\ 1 \in 1..Len(pipe)
  BY <1>1
<1> QED
  BY <1>2, <1>3, <1>4 DEF Unread

\* Writing a line.
LEMMA AppendEffect ==
  ASSUME TypeOK, NEW l \in Line, pipe' = Append(pipe, l)
  PROVE  pipe' \in Seq(Line \cup {Cut}) /\ Unread' \subseteq Unread \cup {l}
<1>1. pipe \in Seq(Line \cup {Cut})
  BY DEF TypeOK
<1>2. /\ pipe' \in Seq(Line \cup {Cut}) /\ Len(pipe') = Len(pipe) + 1
      /\ \A n \in 1..Len(pipe') : pipe'[n] = IF n <= Len(pipe) THEN pipe[n] ELSE l
  BY <1>1
<1> QED
  BY <1>1, <1>2 DEF Unread

\* Losing the end of the pipe.
LEMMA TruncatedEffect ==
  ASSUME TypeOK, pipe' \in Truncated
  PROVE  pipe' \in Seq(Line \cup {Cut}) /\ Unread' \subseteq Unread
<1>1. pipe \in Seq(Line \cup {Cut}) /\ Len(pipe) \in Nat
  BY DEF TypeOK
<1>2. PICK n \in 0..Len(pipe) :
        pipe' = SubSeq(pipe, 1, n) \/ pipe' = Append(SubSeq(pipe, 1, n), Cut)
  BY DEF Truncated
<1>3. /\ SubSeq(pipe, 1, n) \in Seq(Line \cup {Cut})
      /\ Len(SubSeq(pipe, 1, n)) = n
      /\ \A m \in 1..n : SubSeq(pipe, 1, n)[m] = pipe[m]
  BY <1>1
<1>4. CASE pipe' = SubSeq(pipe, 1, n)
  BY <1>1, <1>3, <1>4 DEF Unread
<1>5. CASE pipe' = Append(SubSeq(pipe, 1, n), Cut)
  <2>1. /\ pipe' \in Seq(Line \cup {Cut}) /\ Len(pipe') = n + 1
        /\ \A m \in 1..(n + 1) : pipe'[m] = IF m <= n THEN pipe[m] ELSE Cut
    BY <1>3, <1>5
  <2> QED
    BY <1>1, <2>1 DEF Unread
<1> QED
  BY <1>2, <1>4, <1>5

\* The steps a call can be at.
LEMMA Steps ==
  \A step \in {"new", "answered", "failed", "threw", "starting", "resuming", "awaiting"} :
    step \in CallStep
BY DEF CallStep, Waiting

\* A call moves on.
LEMMA CallEffect ==
  ASSUME TypeOK, NEW c \in Call, NEW step \in CallStep, Goes(c, step)
  PROVE  /\ call' \in [Call -> CallStep] /\ call'[c] = step
         /\ \A d \in Call \ {c} : call'[d] = call[d]
BY DEF TypeOK, Goes

\* Several calls move on.
LEMMA AllEffect ==
  ASSUME TypeOK, NEW calls, NEW step \in CallStep, All(calls, step)
  PROVE  /\ call' \in [Call -> CallStep]
         /\ \A c \in Call : call'[c] = IF c \in calls THEN step ELSE call[c]
BY DEF TypeOK, All

\* A request takes a fresh id.
LEMMA RpcEffect ==
  ASSUME IInv, NEW caller \in Caller, rpc(caller)
  PROVE  /\ nextId \in Id /\ nextId' = nextId + 1 /\ nextId' \in 1..(MaxId + 1)
         /\ pending[nextId] = Nobody
         /\ pending' \in [Id -> Caller \cup {Nobody}] /\ pending'[nextId] = caller
         /\ \A i \in Id \ {nextId} : pending'[i] = pending[i]
         /\ inbox' \subseteq Request
         /\ inbox' = inbox \cup {[id |-> nextId, caller |-> caller]}
<1>1. /\ nextId \in Id /\ nextId' = nextId + 1 /\ nextId' \in 1..(MaxId + 1)
  BY BoundAssumption DEF IInv, TypeOK, rpc, Id
<1>2. pending[nextId] = Nobody
  BY <1>1 DEF IInv, IdInv, Id
<1>3. [id |-> nextId, caller |-> caller] \in Request
  BY <1>1 DEF Request
<1> QED
  BY <1>1, <1>2, <1>3 DEF IInv, TypeOK, rpc

LEMMA Initially == Init => IInv
<1> SUFFICES ASSUME Init PROVE IInv
  OBVIOUS
<1> USE DEF Init
<1>1. TypeOK
  <2>1. 1 \in 1..(MaxId + 1) /\ 0 \in 0..MaxFaults /\ << >> \in Seq(Line \cup {Cut})
    BY BoundAssumption
  <2>2. call \in [Call -> CallStep] /\ performed \in [Call -> 0..1]
    BY Steps
  <2> QED
    BY <2>1, <2>2 DEF TypeOK
<1>2. Unread = {}
  BY DEF Unread
<1>3. IdInv /\ NameInv
  BY <1>2 DEF IdInv, NameInv
<1>4. WaitInv
  <2>1. \A i \in Id : pending[i] = Nobody
    OBVIOUS
  <2>2. \A c \in Call : call[c] = "new"
    OBVIOUS
  <2> QED
    BY <2>1, <2>2, CallAssumption DEF WaitInv, At
<1>5. ServerInv
  BY DEF ServerInv, OneServer
<1>6. OnceInv /\ OwnAnswer
  BY <1>2 DEF OnceInv, OwnAnswer, At
<1> QED
  BY <1>1, <1>3, <1>4, <1>5, <1>6 DEF IInv

-----------------------------------------------------------------------------
(* Requests *)

LEMMA StartServerStep ==
  ASSUME IInv, NEW c \in Call, startServer(c)
  PROVE  IInv'
<1> USE DEF IInv
<1>1. /\ call[c] = "new" /\ child' = "running" /\ servers' = servers + 1
      /\ ~initialized /\ initPromise = "none" /\ initPromise' = "running"
      /\ UNCHANGED <<initialized, dirty, answer, pipe, performed, faults>>
  BY DEF startServer, At
<1>2. /\ nextId \in Id /\ nextId' = nextId + 1 /\ nextId' \in 1..(MaxId + 1)
      /\ pending[nextId] = Nobody
      /\ pending' \in [Id -> Caller \cup {Nobody}] /\ pending'[nextId] = Start
      /\ \A i \in Id \ {nextId} : pending'[i] = pending[i]
      /\ inbox' \subseteq Request
      /\ inbox' = inbox \cup {[id |-> nextId, caller |-> Start]}
  BY RpcEffect DEF startServer, Caller
<1>3. /\ call' \in [Call -> CallStep] /\ call'[c] = "starting"
      /\ \A d \in Call \ {c} : call'[d] = call[d]
  BY CallEffect, Steps DEF startServer
<1>4. Unread' = Unread
  BY <1>1, PipeUnchanged
<1>5. \A i \in Id : pending[i] # Start
  BY <1>1 DEF WaitInv
<1>6. servers = 0
  BY <1>1 DEF ServerInv, OneServer
<1>7. TypeOK'
  BY <1>1, <1>2, <1>3, <1>6 DEF TypeOK
<1>8. IdInv'
  BY <1>2, <1>4, UnreadType DEF IdInv, TypeOK, Id, Request
<1>9. NameInv'
  <2>1. \A r \in inbox : r.id \in Id /\ r.id # nextId
    BY <1>2 DEF IdInv, TypeOK, Request, Id
  <2>2. \A l \in Unread : l.id \in Id /\ l.id # nextId
    BY <1>2, UnreadType DEF IdInv, Id
  <2> QED
    BY <1>2, <1>4, <2>1, <2>2 DEF NameInv
<1>10. WaitInv'
  <2>1. \A i \in Id : pending'[i] \in Call => i # nextId /\ pending'[i] # c
    <3>1. \A i \in Id : pending[i] # c
      BY <1>1 DEF WaitInv, At
    <3> QED
      BY <1>2, <3>1, CallAssumption
  <2>2. \A i \in Id : pending'[i] \in Call => call'[pending'[i]] = "awaiting"
    BY <1>2, <1>3, <2>1 DEF WaitInv, At
  <2>3. \A i, j \in Id : pending'[i] # Nobody /\ pending'[i] = pending'[j] => i = j
    BY <1>2, <1>5 DEF WaitInv
  <2>4. \A d \in Call : At(d, "awaiting")' => \E i \in Id : pending'[i] = d
    <3> SUFFICES ASSUME NEW d \in Call, At(d, "awaiting")' PROVE \E i \in Id : pending'[i] = d
      OBVIOUS
    <3>1. At(d, "awaiting")
      BY <1>3 DEF At
    <3>2. PICK i \in Id : pending[i] = d
      BY <3>1 DEF WaitInv
    <3>3. i # nextId
      BY <1>2, <3>2, CallAssumption
    <3> QED
      BY <1>2, <3>2, <3>3
  <2> QED
    <3>1. \A i \in Id : pending'[i] = Start => initPromise' = "running"
      BY <1>1
    <3>2. initPromise' = "running" => \E i \in Id : pending'[i] = Start
      BY <1>2
    <3>3. \A d \in Call : At(d, "starting")' => initPromise' = "running"
      BY <1>1
    <3> QED
      BY <2>2, <2>3, <2>4, <3>1, <3>2, <3>3 DEF WaitInv, At
<1>11. ServerInv'
  BY <1>1, <1>6 DEF ServerInv, OneServer
<1>12. OnceInv'
  <2>1. Start \notin Call
    BY CallAssumption
  <2> QED
    BY <1>1, <1>2, <1>3, <1>4, <2>1 DEF OnceInv, At
<1>13. OwnAnswer'
  BY <1>1, <1>3 DEF OwnAnswer, At
<1> QED
  BY <1>7, <1>8, <1>9, <1>10, <1>11, <1>12, <1>13

LEMMA JoinServerStep ==
  ASSUME IInv, NEW c \in Call, joinServer(c)
  PROVE  IInv'
<1> USE DEF IInv
<1>1. /\ call[c] = "new"
      /\ UNCHANGED <<child, servers, initialized, initPromise, nextId, pending, dirty,
                     answer, inbox, pipe, performed, faults>>
  BY DEF joinServer, At
<1>2. PICK step \in {"starting", "resuming", "threw"} :
        Goes(c, step) /\ (step = "starting" => initPromise = "running")
  BY DEF joinServer
<1>3. /\ call' \in [Call -> CallStep] /\ call'[c] = step
      /\ \A d \in Call \ {c} : call'[d] = call[d]
  BY <1>2, CallEffect, Steps
<1>4. Unread' = Unread
  BY <1>1, PipeUnchanged
<1>5. TypeOK'
  BY <1>1, <1>3 DEF TypeOK
<1>6. IdInv' /\ NameInv'
  BY <1>1, <1>4 DEF IdInv, NameInv
<1>7. WaitInv'
  BY <1>1, <1>2, <1>3 DEF WaitInv, At
<1>8. ServerInv'
  BY <1>1 DEF ServerInv, OneServer
<1>9. OnceInv'
  BY <1>1, <1>3, <1>4 DEF OnceInv, At
<1>10. OwnAnswer'
  BY <1>1, <1>3 DEF OwnAnswer, At
<1> QED
  BY <1>5, <1>6, <1>7, <1>8, <1>9, <1>10

LEMMA CallToolStep ==
  ASSUME IInv, NEW c \in Call, callTool(c)
  PROVE  IInv'
<1> USE DEF IInv
<1>1. /\ call[c] = "resuming"
      /\ UNCHANGED <<child, servers, initialized, initPromise, dirty, answer, pipe,
                     performed, faults>>
  BY DEF callTool, At
<1>2. Unread' = Unread
  BY <1>1, PipeUnchanged
<1>3. ServerInv' /\ OwnAnswer' /\ TypeOK' /\ IdInv' /\ NameInv' /\ WaitInv' /\ OnceInv'
  <2>1. CASE child = "running" /\ rpc(c) /\ Goes(c, "awaiting")
    <3>1. /\ nextId \in Id /\ nextId' = nextId + 1 /\ nextId' \in 1..(MaxId + 1)
          /\ pending[nextId] = Nobody
          /\ pending' \in [Id -> Caller \cup {Nobody}] /\ pending'[nextId] = c
          /\ \A i \in Id \ {nextId} : pending'[i] = pending[i]
          /\ inbox' \subseteq Request
          /\ inbox' = inbox \cup {[id |-> nextId, caller |-> c]}
      BY <2>1, RpcEffect DEF Caller
    <3>2. /\ call' \in [Call -> CallStep] /\ call'[c] = "awaiting"
          /\ \A d \in Call \ {c} : call'[d] = call[d]
      BY <2>1, CallEffect, Steps
    <3>3. \A i \in Id : pending[i] # c
      BY <1>1 DEF WaitInv, At
    <3>4. TypeOK'
      BY <1>1, <3>1, <3>2 DEF TypeOK
    <3>5. IdInv'
      BY <1>2, <3>1, UnreadType DEF IdInv, TypeOK, Id, Request
    <3>6. NameInv'
      <4>1. \A r \in inbox : r.id \in Id /\ r.id # nextId
        BY <3>1 DEF IdInv, TypeOK, Request, Id
      <4>2. \A l \in Unread : l.id \in Id /\ l.id # nextId
        BY <3>1, UnreadType DEF IdInv, Id
      <4> QED
        BY <1>2, <3>1, <4>1, <4>2 DEF NameInv
    <3>7. WaitInv'
      <4>1. \A i \in Id : pending'[i] \in Call => call'[pending'[i]] = "awaiting"
        <5>1. ASSUME NEW i \in Id \ {nextId}, pending'[i] \in Call
              PROVE  call'[pending'[i]] = "awaiting"
          <6>1. pending'[i] = pending[i] /\ pending[i] \in Call \ {c}
            BY <3>1, <3>3, <5>1
          <6>2. call[pending[i]] = "awaiting"
            BY <6>1 DEF WaitInv, At
          <6> QED
            BY <3>2, <6>1, <6>2
        <5> QED
          BY <3>1, <3>2, <5>1
      <4>2. \A i \in Id : pending'[i] = Start => initPromise = "running"
        BY <3>1, CallAssumption DEF WaitInv
      <4>3. \A i, j \in Id : pending'[i] # Nobody /\ pending'[i] = pending'[j] => i = j
        BY <3>1, <3>3 DEF WaitInv
      <4>4. \A d \in Call : At(d, "awaiting")' => \E i \in Id : pending'[i] = d
        <5> SUFFICES ASSUME NEW d \in Call, At(d, "awaiting")', d # c
                     PROVE  \E i \in Id : pending'[i] = d
          BY <3>1
        <5>1. PICK i \in Id : pending[i] = d
          BY <3>2 DEF WaitInv, At
        <5> QED
          BY <3>1, <5>1, CallAssumption
      <4>5. initPromise = "running" => \E i \in Id : pending'[i] = Start
        <5> SUFFICES ASSUME initPromise = "running" PROVE \E i \in Id : pending'[i] = Start
          OBVIOUS
        <5>1. PICK i \in Id : pending[i] = Start
          BY DEF WaitInv
        <5> QED
          BY <3>1, <5>1, CallAssumption DEF Caller
      <4>6. \A d \in Call : At(d, "starting")' => initPromise = "running"
        BY <3>2 DEF WaitInv, At
      <4> QED
        <5>1. initPromise' = initPromise
          BY <1>1
        <5> QED
          BY <5>1, <4>1, <4>2, <4>3, <4>4, <4>5, <4>6 DEF WaitInv, At
    <3>8. ServerInv'
      BY <1>1, <2>1 DEF ServerInv, OneServer
    <3>9. OnceInv'
      <4>1. performed[c] = 0 /\ \A r \in inbox : r.caller # c
        BY <1>1 DEF OnceInv
      <4>2. \A l \in Unread : l.caller # c
        BY <4>1 DEF OnceInv
      <4> QED
        BY <1>1, <1>2, <3>1, <3>2, <4>1, <4>2 DEF OnceInv, At
    <3>10. OwnAnswer'
      BY <1>1, <3>2 DEF OwnAnswer, At
    <3> QED
      BY <3>4, <3>5, <3>6, <3>7, <3>8, <3>9, <3>10
  <2>2. CASE child # "running" /\ Goes(c, "failed") /\ UNCHANGED <<nextId, pending, inbox>>
    <3>1. /\ call' \in [Call -> CallStep] /\ call'[c] = "failed"
          /\ \A d \in Call \ {c} : call'[d] = call[d]
      BY <2>2, CallEffect, Steps
    <3>2. TypeOK'
      BY <1>1, <2>2, <3>1 DEF TypeOK
    <3>3. IdInv' /\ NameInv'
      BY <1>2, <2>2 DEF IdInv, NameInv
    <3>4. WaitInv'
      BY <1>1, <2>2, <3>1 DEF WaitInv, At
    <3>5. ServerInv'
      BY <1>1, <2>2 DEF ServerInv, OneServer
    <3>6. OnceInv' /\ OwnAnswer'
      BY <1>1, <1>2, <2>2, <3>1 DEF OnceInv, OwnAnswer, At
    <3> QED
      BY <3>2, <3>3, <3>4, <3>5, <3>6
  <2> QED
    BY <2>1, <2>2 DEF callTool
<1> QED
  BY <1>3

-----------------------------------------------------------------------------
(* Settling a request *)

\* What a rejection keeps, whether a line was read with it or not.
LEMMA RejectKeeps ==
  ASSUME IInv, NEW id \in Id, pending[id] # Nobody, reject(id),
         UNCHANGED <<child, servers, nextId, inbox, performed, faults>>,
         dirty' \in BOOLEAN, pipe' \in Seq(Line \cup {Cut}), Unread' \subseteq Unread
  PROVE  IInv'
<1> USE DEF IInv
<1>1. /\ pending' \in [Id -> Caller \cup {Nobody}] /\ pending'[id] = Nobody
      /\ \A i \in Id \ {id} : pending'[i] = pending[i]
      /\ UNCHANGED <<initialized, answer>>
  BY DEF reject, TypeOK
<1>2. child # "none"
  BY DEF ServerInv
<1>3. IdInv'
  BY <1>1 DEF IdInv
<1>4. NameInv'
  <2>1. \A i \in Id : pending'[i] \in {Nobody, pending[i]}
    BY <1>1
  <2>2. \A r \in inbox : r.id \in Id
    BY DEF TypeOK, Request
  <2>3. \A l \in Unread : l.id \in Id
    BY UnreadType
  <2> QED
    BY <2>1, <2>2, <2>3 DEF NameInv
<1>5. ServerInv' /\ TypeOK' /\ WaitInv' /\ OnceInv' /\ OwnAnswer'
  <2>1. CASE pending[id] = Start
    <3>1. initPromise' = "rejected" /\ initPromise = "running" /\ All(Starting, "threw")
      BY <2>1 DEF reject, WaitInv
    <3>2. /\ call' \in [Call -> CallStep]
          /\ \A c \in Call : call'[c] = IF c \in Starting THEN "threw" ELSE call[c]
      BY <3>1, AllEffect, Steps
    <3>3. \A c \in Call : call'[c] = IF call[c] = "starting" THEN "threw" ELSE call[c]
      BY <3>2 DEF Starting, At
    <3>4. ServerInv'
      BY <1>1, <1>2, <3>1 DEF ServerInv, OneServer
    <3>5. TypeOK'
      BY <1>1, <3>1, <3>2 DEF TypeOK
    <3>6. WaitInv'
      <4>1. \A i \in Id : pending'[i] # Start
        BY <1>1, <2>1, CallAssumption DEF WaitInv, Caller
      <4>2. \A i \in Id : pending'[i] \in Call => call'[pending'[i]] = "awaiting"
        BY <1>1, <3>3, CallAssumption DEF WaitInv, At
      <4>3. \A i, j \in Id : pending'[i] # Nobody /\ pending'[i] = pending'[j] => i = j
        BY <1>1 DEF WaitInv
      <4>4. \A c \in Call : call'[c] = "awaiting" => \E i \in Id : pending'[i] = c
        <5> SUFFICES ASSUME NEW c \in Call, call'[c] = "awaiting"
                     PROVE  \E i \in Id : pending'[i] = c
          OBVIOUS
        <5>1. PICK i \in Id : pending[i] = c
          BY <3>3 DEF WaitInv, At
        <5> QED
          BY <1>1, <2>1, <5>1, CallAssumption
      <4>5. \A c \in Call : call'[c] # "starting"
        BY <3>3
      <4> QED
        BY <3>1, <4>1, <4>2, <4>3, <4>4, <4>5 DEF WaitInv, At
    <3>7. OnceInv' /\ OwnAnswer'
      BY <1>1, <3>3 DEF OnceInv, OwnAnswer, At
    <3> QED
      BY <3>4, <3>5, <3>6, <3>7
  <2>2. CASE pending[id] # Start
    <3>1. pending[id] \in Call /\ initPromise' = initPromise /\ Goes(pending[id], "failed")
      BY <2>2 DEF reject, TypeOK, Caller
    <3>2. /\ call' \in [Call -> CallStep] /\ call'[pending[id]] = "failed"
          /\ \A d \in Call \ {pending[id]} : call'[d] = call[d]
      BY <3>1, CallEffect, Steps
    <3>3. ServerInv'
      BY <1>1, <1>2, <3>1 DEF ServerInv, OneServer
    <3>4. TypeOK'
      BY <1>1, <3>1, <3>2 DEF TypeOK
    <3>5. WaitInv'
      <4>1. \A i \in Id : pending'[i] = Start => initPromise' = "running"
        BY <1>1, <3>1, CallAssumption DEF WaitInv, Caller
      <4>2. \A i \in Id : pending'[i] \in Call => call'[pending'[i]] = "awaiting"
        <5>1. ASSUME NEW i \in Id, pending'[i] \in Call
              PROVE  call'[pending'[i]] = "awaiting"
          <6>1. i # id /\ pending'[i] = pending[i]
            BY <1>1, <5>1, CallAssumption
          <6>2. pending[i] # pending[id] /\ call[pending[i]] = "awaiting"
            BY <5>1, <6>1 DEF WaitInv, At
          <6> QED
            BY <3>2, <5>1, <6>1, <6>2
        <5> QED
          BY <5>1
      <4>3. \A i, j \in Id : pending'[i] # Nobody /\ pending'[i] = pending'[j] => i = j
        BY <1>1 DEF WaitInv
      <4>4. \A c \in Call : call'[c] = "awaiting" => \E i \in Id : pending'[i] = c
        <5> SUFFICES ASSUME NEW c \in Call, call'[c] = "awaiting"
                     PROVE  \E i \in Id : pending'[i] = c
          OBVIOUS
        <5>1. c # pending[id] /\ call[c] = "awaiting"
          BY <3>2
        <5>2. PICK i \in Id : pending[i] = c
          BY <5>1 DEF WaitInv, At
        <5> QED
          BY <1>1, <5>1, <5>2
      <4>5. initPromise' = "running" => \E i \in Id : pending'[i] = Start
        <5> SUFFICES ASSUME initPromise = "running" PROVE \E i \in Id : pending'[i] = Start
          BY <3>1
        <5>1. PICK i \in Id : pending[i] = Start
          BY DEF WaitInv
        <5> QED
          BY <1>1, <2>2, <5>1
      <4>6. \A c \in Call : call'[c] = "starting" => initPromise' = "running"
        BY <3>1, <3>2 DEF WaitInv, At
      <4> QED
        BY <4>1, <4>2, <4>3, <4>4, <4>5, <4>6 DEF WaitInv, At
    <3>6. call[pending[id]] = "awaiting"
      BY <3>1 DEF WaitInv, At
    <3>7. OnceInv' /\ OwnAnswer'
      BY <1>1, <3>1, <3>2, <3>6 DEF OnceInv, OwnAnswer, At
    <3> QED
      BY <3>3, <3>4, <3>5, <3>7
  <2> QED
    BY <2>1, <2>2
<1> QED
  BY <1>3, <1>4, <1>5

\* What an answer keeps.
LEMMA ResolveKeeps ==
  ASSUME IInv, NEW id \in Id, NEW from \in Caller, pending[id] = from, resolve(id, from),
         from \in Call => performed[from] = 1,
         UNCHANGED <<child, servers, nextId, inbox, performed, faults>>,
         dirty' \in BOOLEAN, pipe' \in Seq(Line \cup {Cut}), Unread' \subseteq Unread
  PROVE  IInv'
<1> USE DEF IInv
<1>1. /\ pending' \in [Id -> Caller \cup {Nobody}] /\ pending'[id] = Nobody
      /\ \A i \in Id \ {id} : pending'[i] = pending[i]
  BY DEF resolve, TypeOK
<1>2. child # "none"
  BY CallAssumption DEF ServerInv, Caller
<1>3. IdInv'
  BY <1>1 DEF IdInv
<1>4. NameInv'
  <2>1. \A i \in Id : pending'[i] \in {Nobody, pending[i]}
    BY <1>1
  <2>2. \A r \in inbox : r.id \in Id
    BY DEF TypeOK, Request
  <2>3. \A l \in Unread : l.id \in Id
    BY UnreadType
  <2> QED
    BY <2>1, <2>2, <2>3 DEF NameInv
<1>5. \A i, j \in Id : pending'[i] # Nobody /\ pending'[i] = pending'[j] => i = j
  BY <1>1 DEF WaitInv
<1>6. ServerInv' /\ TypeOK' /\ WaitInv' /\ OnceInv' /\ OwnAnswer'
  <2>1. CASE from = Start
    <3>1. /\ initPromise' = "resolved" /\ initPromise = "running" /\ initialized' = TRUE
          /\ All(Starting, "resuming") /\ answer' = answer
      BY <2>1 DEF resolve, WaitInv
    <3>2. /\ call' \in [Call -> CallStep]
          /\ \A c \in Call : call'[c] = IF c \in Starting THEN "resuming" ELSE call[c]
      BY <3>1, AllEffect, Steps
    <3>3. \A c \in Call : call'[c] = IF call[c] = "starting" THEN "resuming" ELSE call[c]
      BY <3>2 DEF Starting, At
    <3>4. ServerInv'
      BY <1>1, <1>2, <3>1 DEF ServerInv, OneServer
    <3>5. TypeOK'
      BY <1>1, <3>1, <3>2 DEF TypeOK
    <3>6. WaitInv'
      <4>1. \A i \in Id : pending'[i] # Start
        BY <1>1, <2>1, CallAssumption DEF WaitInv, Caller
      <4>2. \A i \in Id : pending'[i] \in Call => call'[pending'[i]] = "awaiting"
        BY <1>1, <3>3, CallAssumption DEF WaitInv, At
      <4>3. \A c \in Call : call'[c] = "awaiting" => \E i \in Id : pending'[i] = c
        <5> SUFFICES ASSUME NEW c \in Call, call'[c] = "awaiting"
                     PROVE  \E i \in Id : pending'[i] = c
          OBVIOUS
        <5>1. PICK i \in Id : pending[i] = c
          BY <3>3 DEF WaitInv, At
        <5> QED
          BY <1>1, <2>1, <5>1, CallAssumption
      <4>4. \A c \in Call : call'[c] # "starting"
        BY <3>3
      <4> QED
        BY <1>5, <3>1, <4>1, <4>2, <4>3, <4>4 DEF WaitInv, At
    <3>7. OnceInv' /\ OwnAnswer'
      BY <3>1, <3>3 DEF OnceInv, OwnAnswer, At
    <3> QED
      BY <3>4, <3>5, <3>6, <3>7
  <2>2. CASE from # Start
    <3>1. /\ from \in Call /\ UNCHANGED <<initPromise, initialized>> /\ Goes(from, "answered")
          /\ answer' = [answer EXCEPT ![from] = from]
      BY <2>2 DEF resolve, Caller
    <3>2. /\ call' \in [Call -> CallStep] /\ call'[from] = "answered"
          /\ \A d \in Call \ {from} : call'[d] = call[d]
      BY <3>1, CallEffect, Steps
    <3>3. /\ answer' \in [Call -> Caller \cup {Nobody}] /\ answer'[from] = from
          /\ \A d \in Call \ {from} : answer'[d] = answer[d]
      BY <3>1 DEF TypeOK
    <3>4. ServerInv'
      BY <1>1, <1>2, <3>1 DEF ServerInv, OneServer
    <3>5. TypeOK'
      BY <1>1, <3>1, <3>2, <3>3 DEF TypeOK
    <3>6. WaitInv'
      <4>1. \A i \in Id : pending'[i] = Start => initPromise' = "running"
        BY <1>1, <3>1, CallAssumption DEF WaitInv, Caller
      <4>2. \A i \in Id : pending'[i] \in Call => call'[pending'[i]] = "awaiting"
        <5>1. ASSUME NEW i \in Id, pending'[i] \in Call
              PROVE  call'[pending'[i]] = "awaiting"
          <6>1. i # id /\ pending'[i] = pending[i]
            BY <1>1, <5>1, CallAssumption
          <6>2. pending[i] # from /\ call[pending[i]] = "awaiting"
            BY <5>1, <6>1, CallAssumption DEF WaitInv, At
          <6> QED
            BY <3>2, <5>1, <6>1, <6>2
        <5> QED
          BY <5>1
      <4>3. \A c \in Call : call'[c] = "awaiting" => \E i \in Id : pending'[i] = c
        <5> SUFFICES ASSUME NEW c \in Call, call'[c] = "awaiting"
                     PROVE  \E i \in Id : pending'[i] = c
          OBVIOUS
        <5>1. c # from /\ call[c] = "awaiting"
          BY <3>2
        <5>2. PICK i \in Id : pending[i] = c
          BY <5>1 DEF WaitInv, At
        <5> QED
          BY <1>1, <5>1, <5>2
      <4>4. initPromise' = "running" => \E i \in Id : pending'[i] = Start
        <5> SUFFICES ASSUME initPromise = "running" PROVE \E i \in Id : pending'[i] = Start
          BY <3>1
        <5>1. PICK i \in Id : pending[i] = Start
          BY DEF WaitInv
        <5> QED
          BY <1>1, <2>2, <5>1
      <4>5. \A c \in Call : call'[c] = "starting" => initPromise' = "running"
        BY <3>1, <3>2 DEF WaitInv, At
      <4> QED
        BY <1>5, <4>1, <4>2, <4>3, <4>4, <4>5 DEF WaitInv, At
    <3>7. call[from] = "awaiting"
      BY <3>1 DEF WaitInv, At
    <3>8. OnceInv' /\ OwnAnswer'
      BY <3>1, <3>2, <3>3, <3>7 DEF OnceInv, OwnAnswer, At
    <3> QED
      BY <3>4, <3>5, <3>6, <3>8
  <2> QED
    BY <2>1, <2>2
<1> QED
  BY <1>3, <1>4, <1>6

\* A step that leaves the requests alone.
LEMMA IgnoreKeeps ==
  ASSUME IInv, UNCHANGED <<pending, initialized, initPromise, call, answer>>,
         UNCHANGED <<child, servers, nextId, inbox, performed, faults>>,
         dirty' \in BOOLEAN, pipe' \in Seq(Line \cup {Cut}), Unread' \subseteq Unread
  PROVE  IInv'
BY DEF IInv, TypeOK, IdInv, NameInv, WaitInv, ServerInv, OneServer, OnceInv, OwnAnswer, At

LEMMA OnStdoutStep ==
  ASSUME IInv, onStdout
  PROVE  IInv'
<1>1. /\ pipe # << >> /\ pipe' = Tail(pipe) /\ dirty' \in BOOLEAN
      /\ UNCHANGED <<child, servers, nextId, inbox, performed, faults>>
  BY DEF onStdout
<1>2. /\ pipe' \in Seq(Line \cup {Cut}) /\ Unread' \subseteq Unread
      /\ Head(pipe) # Cut => Head(pipe) \in Unread
  BY <1>1, TailEffect DEF IInv
<1>3. CASE UNCHANGED <<pending, initialized, initPromise, call, answer>>
  BY <1>1, <1>2, <1>3, IgnoreKeeps
<1>4. CASE ~UNCHANGED <<pending, initialized, initPromise, call, answer>>
  <2> DEFINE line == Head(pipe)
  <2>1. line # Cut /\ handleLine(line)
    BY <1>4 DEF onStdout
  <2>2. line \in Unread /\ line.id \in Id /\ line.caller \in Caller
    BY <1>2, <2>1, UnreadType DEF IInv
  <2>3. pending[line.id] = line.caller
    BY <1>4, <2>1, <2>2 DEF handleLine, IInv, NameInv
  <2>4. pending[line.id] # Nobody
    BY <1>4, <2>1 DEF handleLine
  <2>5. line.caller \in Call => performed[line.caller] = 1
    BY <2>2 DEF IInv, OnceInv
  <2>6. resolve(line.id, line.caller) \/ reject(line.id)
    BY <2>1, <2>4 DEF handleLine
  <2> HIDE DEF line
  <2> QED
    BY <1>1, <1>2, <2>2, <2>3, <2>4, <2>5, <2>6, ResolveKeeps, RejectKeeps
<1> QED
  BY <1>3, <1>4

LEMMA TimeoutStep ==
  ASSUME IInv, NEW id \in Id, timeout(id)
  PROVE  IInv'
<1>1. /\ pending[id] # Nobody /\ reject(id)
      /\ UNCHANGED <<child, servers, nextId, dirty, inbox, pipe, performed, faults>>
  BY DEF timeout
<1>2. dirty' \in BOOLEAN /\ pipe' \in Seq(Line \cup {Cut}) /\ Unread' \subseteq Unread
  BY <1>1, PipeUnchanged DEF IInv, TypeOK
<1> QED
  BY <1>1, <1>2, RejectKeeps

-----------------------------------------------------------------------------
(* The server *)

LEMMA ServeStep ==
  ASSUME IInv, serve
  PROVE  IInv'
<1> USE DEF IInv
<1>1. PICK r \in inbox, ok \in BOOLEAN :
        /\ inbox' = inbox \ {r}
        /\ pipe' = Append(pipe, [id |-> r.id, caller |-> r.caller, ok |-> ok])
        /\ performed' = IF r.caller = Start THEN performed
                        ELSE [performed EXCEPT ![r.caller] = @ + 1]
        /\ IF ok THEN UNCHANGED faults ELSE Fault
  BY DEF serve
<1>2. UNCHANGED <<child, initialized, initPromise, nextId, pending, dirty, call, answer, servers>>
  BY DEF serve, client
<1>3. r \in Request /\ r.id \in Id /\ r.caller \in Caller
  BY DEF TypeOK, Request
<1> DEFINE l == [id |-> r.id, caller |-> r.caller, ok |-> ok]
<1>4. l \in Line /\ l.id = r.id /\ l.caller = r.caller
  BY <1>3 DEF Line
<1>5. pipe' \in Seq(Line \cup {Cut}) /\ Unread' \subseteq Unread \cup {l}
  BY <1>1, <1>4, AppendEffect
<1> HIDE DEF l
<1>6. \A c \in Call : performed[c] \in 0..1
  BY DEF TypeOK
<1>7. r.caller \in Call => performed[r.caller] = 0
  BY DEF OnceInv
<1>8. /\ performed' \in [Call -> 0..1]
      /\ \A c \in Call : performed'[c] = IF c = r.caller THEN 1 ELSE performed[c]
  <2>1. CASE r.caller = Start
    BY <1>1, <2>1, CallAssumption DEF TypeOK
  <2>2. CASE r.caller # Start
    <3>1. r.caller \in Call
      BY <1>3, <2>2 DEF Caller
    <3>2. performed' = [performed EXCEPT ![r.caller] = performed[r.caller] + 1]
      BY <1>1, <2>2
    <3>3. performed' = [performed EXCEPT ![r.caller] = 1]
      <4>1. performed[r.caller] + 1 = 1
        BY <1>7, <3>1
      <4> QED
        BY <3>2, <4>1, Zenon
    <3>4. performed \in [Call -> 0..1] /\ 1 \in 0..1
      BY DEF TypeOK
    <3> QED
      BY <3>1, <3>3, <3>4
  <2> QED
    BY <2>1, <2>2
<1>9. faults' \in 0..MaxFaults
  BY <1>1, BoundAssumption DEF Fault, TypeOK
<1>10. TypeOK'
  BY <1>1, <1>2, <1>5, <1>8, <1>9 DEF TypeOK
<1>11. IdInv' /\ NameInv'
  BY <1>1, <1>2, <1>4, <1>5 DEF IdInv, NameInv
<1>12. WaitInv' /\ OwnAnswer'
  BY <1>2 DEF WaitInv, OwnAnswer, At
<1>13. ServerInv'
  BY <1>1, <1>2 DEF ServerInv, OneServer
<1>14. OnceInv'
  <2>1. \A c \in Call : call[c] \in {"new", "starting", "resuming"} => c # r.caller
    BY DEF OnceInv
  <2>2. \A s \in inbox' : s.caller \in Call => s.caller # r.caller
    BY <1>1 DEF OnceInv
  <2>3. \A m \in Unread' : m.caller \in Call => performed'[m.caller] = 1
    BY <1>4, <1>5, <1>8 DEF OnceInv
  <2> QED
    BY <1>1, <1>2, <1>8, <2>1, <2>2, <2>3 DEF OnceInv, At
<1> QED
  BY <1>10, <1>11, <1>12, <1>13, <1>14

LEMMA ExitStep ==
  ASSUME IInv, exit
  PROVE  IInv'
<1> USE DEF IInv
<1>1. /\ child # "none" /\ child' = "none" /\ servers' = servers - 1
      /\ initialized' = FALSE /\ initPromise' = "none" /\ inbox' = {}
      /\ pipe' \in Truncated /\ UNCHANGED <<nextId, dirty, answer, performed>>
  BY DEF exit
<1>2. pipe' \in Seq(Line \cup {Cut}) /\ Unread' \subseteq Unread
  BY <1>1, TruncatedEffect
<1>3. pending' \in [Id -> Caller \cup {Nobody}] /\ \A i \in Id : pending'[i] = Nobody
  BY DEF exit
<1>4. /\ call' \in [Call -> CallStep]
      /\ \A c \in Call : call'[c] = CASE At(c, "starting") -> "threw"
                                      [] At(c, "awaiting") -> "failed"
                                      [] OTHER -> call[c]
  <2>1. \A c \in Call : call[c] \in CallStep
    BY DEF TypeOK
  <2> QED
    BY <2>1, Steps DEF exit
<1>5. \A c \in Call : \/ call'[c] = call[c] /\ call[c] \notin {"starting", "awaiting"}
                      \/ call'[c] = "threw"
                      \/ call'[c] = "failed"
  BY <1>4 DEF At
<1>6. faults' \in 0..MaxFaults
  BY BoundAssumption DEF exit, Fault, TypeOK
<1>7. servers = 1
  BY <1>1 DEF ServerInv, OneServer
<1>8. TypeOK'
  <2>1. servers' \in Nat
    BY <1>1, <1>7
  <2>2. call' \in [Call -> CallStep]
    BY <1>4
  <2>3. /\ nextId' \in 1..(MaxId + 1) /\ dirty' \in BOOLEAN
        /\ answer' \in [Call -> Caller \cup {Nobody}] /\ performed' \in [Call -> 0..1]
    BY <1>1 DEF TypeOK
  <2>4. /\ child' \in {"none", "running", "killed"} /\ initialized' \in BOOLEAN
        /\ initPromise' \in {"none", "running", "resolved", "rejected"}
        /\ inbox' \subseteq Request
    BY <1>1
  <2> QED
    BY <1>2, <1>3, <1>6, <2>1, <2>2, <2>3, <2>4 DEF TypeOK
<1>9. IdInv' /\ NameInv'
  BY <1>1, <1>2, <1>3, UnreadType DEF IdInv, NameInv
<1>10. WaitInv'
  BY <1>1, <1>3, <1>5, CallAssumption DEF WaitInv, At
<1>11. ServerInv'
  BY <1>1, <1>3, <1>7 DEF ServerInv, OneServer
<1>12. OnceInv' /\ OwnAnswer'
  BY <1>1, <1>2, <1>5 DEF OnceInv, OwnAnswer, At
<1> QED
  BY <1>8, <1>9, <1>10, <1>11, <1>12

LEMMA DestroyStep ==
  ASSUME IInv, onModuleDestroy
  PROVE  IInv'
<1> USE DEF IInv
<1>1. /\ child = "running" /\ child' = "killed" /\ initialized' = FALSE
      /\ UNCHANGED <<servers, initPromise, nextId, pending, dirty, call, answer, inbox,
                     pipe, performed>>
  BY DEF onModuleDestroy
<1>2. faults' \in 0..MaxFaults
  BY BoundAssumption DEF onModuleDestroy, Fault, TypeOK
<1>3. Unread' = Unread
  BY <1>1, PipeUnchanged
<1>4. TypeOK' /\ ServerInv'
  BY <1>1, <1>2 DEF TypeOK, ServerInv, OneServer
<1>5. IdInv' /\ NameInv' /\ WaitInv' /\ OnceInv' /\ OwnAnswer'
  BY <1>1, <1>3 DEF IdInv, NameInv, WaitInv, OnceInv, OwnAnswer, At
<1> QED
  BY <1>4, <1>5

LEMMA NextStep == IInv /\ [Next]_vars => IInv'
<1> SUFFICES ASSUME IInv, [Next]_vars PROVE IInv'
  OBVIOUS
<1>1. CASE UNCHANGED vars
  <2>1. dirty' \in BOOLEAN /\ pipe' \in Seq(Line \cup {Cut}) /\ Unread' = Unread
    BY <1>1, PipeUnchanged DEF vars, IInv, TypeOK
  <2> QED
    BY <1>1, <2>1, IgnoreKeeps DEF vars
<1>2. CASE Next
  BY <1>2, StartServerStep, JoinServerStep, CallToolStep, OnStdoutStep, TimeoutStep,
     ServeStep, ExitStep, DestroyStep DEF Next
<1> QED
  BY <1>1, <1>2

-----------------------------------------------------------------------------
(* The theorems *)

\* Every reachable state satisfies the inductive invariant.
THEOREM Inductive == Spec => []IInv
<1> QED
  BY Initially, NextStep, PTL DEF Spec

\* The states of the client, the server and the pipe between them are well
\* typed; with that no tool call is performed twice.
THEOREM TypeCorrect == Spec => []TypeOK
<1>1. IInv => TypeOK
  BY DEF IInv
<1> QED
  BY <1>1, Inductive, PTL

\* handleLine never gives a call an answer that was meant for another.
THEOREM OwnAnswerSafety == Spec => []OwnAnswer
<1>1. IInv => OwnAnswer
  BY DEF IInv
<1> QED
  BY <1>1, Inductive, PTL

\* ensureInitialized and the exit handler keep one server at most.
THEOREM OneServerSafety == Spec => []OneServer
<1>1. IInv => OneServer
  BY DEF IInv, ServerInv
<1> QED
  BY <1>1, Inductive, PTL

\* No exit, error answer or timeout leaves a call waiting for a request or a
\* start that is gone.
THEOREM NoCallerLost == Spec => []NoLostCaller
<1>1. IInv => NoLostCaller
  <2> SUFFICES ASSUME IInv PROVE NoLostCaller
    OBVIOUS
  <2>1. WaitInv
    BY DEF IInv
  <2>2. Starting # {} => initPromise = "running" /\ \E i \in Id : pending[i] = Start
    BY <2>1 DEF WaitInv, Starting, At
  <2> QED
    BY <2>1, <2>2 DEF WaitInv, NoLostCaller
<1> QED
  BY <1>1, Inductive, PTL

-----------------------------------------------------------------------------
(* The client implements AtMostOnceCall *)

\* How a call looks from outside, by its step.
Seen(step) ==
  CASE step = "new"                -> "idle"
    [] step = "answered"           -> "answered"
    [] step \in {"failed", "threw"} -> "failed"
    [] OTHER                       -> "open"

LEMMA StateSeen == stateBar = [c \in Call |-> Seen(call[c])]
BY DEF stateBar, Seen, At

LEMMA StateSeenNext == stateBar' = [c \in Call |-> Seen(call'[c])]
BY DEF stateBar, Seen, At

\* Calls that all end, and fail.
LEMMA Failing ==
  ASSUME NEW C \in SUBSET Call, performed' = performed,
         \A c \in C : Seen(call[c]) \in {"idle", "open"} /\ Seen(call'[c]) = "failed",
         \A c \in Call \ C : call'[c] = call[c]
  PROVE  AtMostOnce!Next
<1>1. \A c \in C : stateBar[c] \in {"idle", "open"}
  BY StateSeen
<1>2. stateBar' = [c \in Call |-> IF c \in C THEN "failed" ELSE stateBar[c]]
  BY StateSeen, StateSeenNext
<1>3. performedBar' = performedBar
  BY DEF performedBar
<1>4. AtMostOnce!Fail(C)
  BY <1>1, <1>2, <1>3 DEF AtMostOnce!Fail
<1> QED
  BY <1>4 DEF AtMostOnce!Next

\* One call that moves on.
LEMMA Moving ==
  ASSUME TypeOK, NEW c \in Call, NEW step \in CallStep, Goes(c, step)
  PROVE  /\ stateBar' = [stateBar EXCEPT ![c] = Seen(step)]
         /\ stateBar[c] = Seen(call[c])
<1>1. /\ call'[c] = step
      /\ \A d \in Call \ {c} : call'[d] = call[d]
  BY CallEffect
<1> QED
  BY <1>1, StateSeen, StateSeenNext

LEMMA Beginning ==
  ASSUME TypeOK, NEW c \in Call, call[c] = "new", performed' = performed,
         Goes(c, "starting") \/ Goes(c, "resuming")
  PROVE  AtMostOnce!Next
<1>1. stateBar' = [stateBar EXCEPT ![c] = "open"] /\ stateBar[c] = "idle"
  BY Moving, Steps DEF Seen
<1>2. performedBar' = performedBar
  BY DEF performedBar
<1>3. AtMostOnce!Begin(c)
  BY <1>1, <1>2 DEF AtMostOnce!Begin
<1> QED
  BY <1>3 DEF AtMostOnce!Next

LEMMA FailingOne ==
  ASSUME TypeOK, NEW c \in Call, call[c] \in {"new", "starting", "resuming", "awaiting"},
         performed' = performed, Goes(c, "threw") \/ Goes(c, "failed")
  PROVE  AtMostOnce!Next
<1>1. /\ call'[c] \in {"threw", "failed"}
      /\ \A d \in Call \ {c} : call'[d] = call[d]
  BY CallEffect, Steps
<1>2. Seen(call[c]) \in {"idle", "open"} /\ Seen(call'[c]) = "failed"
  BY <1>1 DEF Seen
<1>3. {c} \in SUBSET Call
  OBVIOUS
<1> QED
  BY <1>1, <1>2, <1>3, Failing

LEMMA RejectRefines ==
  ASSUME IInv, NEW id \in Id, pending[id] # Nobody, reject(id), performed' = performed
  PROVE  AtMostOnce!Next
<1> USE DEF IInv
<1>1. CASE pending[id] = Start
  <2>1. \A c \in Call : call'[c] = IF c \in Starting THEN "threw" ELSE call[c]
    BY <1>1, AllEffect, Steps DEF reject
  <2>2. /\ Starting \in SUBSET Call
        /\ \A c \in Starting : Seen(call[c]) \in {"idle", "open"} /\ Seen(call'[c]) = "failed"
        /\ \A c \in Call \ Starting : call'[c] = call[c]
    BY <2>1 DEF Starting, At, Seen
  <2> QED
    BY <2>2, Failing
<1>2. CASE pending[id] # Start
  <2>1. pending[id] \in Call /\ Goes(pending[id], "failed")
    BY <1>2 DEF reject, TypeOK, Caller
  <2>2. call[pending[id]] = "awaiting"
    BY <2>1 DEF WaitInv, At
  <2> QED
    BY <2>1, <2>2, FailingOne
<1> QED
  BY <1>1, <1>2

LEMMA ResolveRefines ==
  ASSUME IInv, NEW id \in Id, NEW from \in Caller, pending[id] = from, resolve(id, from),
         from \in Call => performed[from] = 1, performed' = performed
  PROVE  AtMostOnce!Next \/ UNCHANGED <<stateBar, performedBar>>
<1> USE DEF IInv
<1>1. performedBar' = performedBar
  BY DEF performedBar
<1>2. CASE from = Start
  <2>1. \A c \in Call : call'[c] = IF c \in Starting THEN "resuming" ELSE call[c]
    BY <1>2, AllEffect, Steps DEF resolve
  <2>2. \A c \in Call : Seen(call'[c]) = Seen(call[c])
    BY <2>1 DEF Starting, At, Seen
  <2> QED
    BY <1>1, <2>2, StateSeen, StateSeenNext
<1>3. CASE from # Start
  <2>1. from \in Call /\ Goes(from, "answered")
    BY <1>3 DEF resolve, Caller
  <2>2. call[from] = "awaiting"
    BY <2>1 DEF WaitInv, At
  <2>3. stateBar' = [stateBar EXCEPT ![from] = "answered"] /\ stateBar[from] = "open"
    BY <2>1, <2>2, Moving, Steps DEF Seen
  <2>4. from \in performedBar
    BY <2>1 DEF performedBar
  <2>5. AtMostOnce!Answer(from)
    BY <1>1, <2>3, <2>4 DEF AtMostOnce!Answer
  <2> QED
    BY <2>1, <2>5 DEF AtMostOnce!Next
<1> QED
  BY <1>2, <1>3

LEMMA ServeRefines ==
  ASSUME IInv, serve
  PROVE  AtMostOnce!Next \/ UNCHANGED <<stateBar, performedBar>>
<1> USE DEF IInv
<1>1. PICK r \in inbox :
        performed' = IF r.caller = Start THEN performed
                     ELSE [performed EXCEPT ![r.caller] = @ + 1]
  BY DEF serve
<1>2. stateBar' = stateBar
  BY DEF serve, client, stateBar, At
<1>3. CASE r.caller = Start
  BY <1>1, <1>2, <1>3 DEF performedBar
<1>4. CASE r.caller # Start
  <2>1. r.caller \in Call
    BY <1>4 DEF TypeOK, Request, Caller
  <2>2. performed[r.caller] = 0 /\ call[r.caller] # "new"
    BY <2>1 DEF OnceInv
  <2>3. performed' = [performed EXCEPT ![r.caller] = performed[r.caller] + 1]
    BY <1>1, <1>4
  <2>4. performed[r.caller] + 1 = 1
    BY <2>2
  <2>5. performed' = [performed EXCEPT ![r.caller] = 1]
    BY <2>3, <2>4, Zenon
  <2>6. performedBar' = performedBar \cup {r.caller} /\ r.caller \notin performedBar
    BY <2>1, <2>2, <2>5 DEF performedBar, TypeOK
  <2>7. stateBar[r.caller] # "idle"
    BY <2>1, <2>2, StateSeen DEF Seen
  <2>8. AtMostOnce!Perform(r.caller)
    BY <1>2, <2>6, <2>7 DEF AtMostOnce!Perform
  <2> QED
    BY <2>1, <2>8 DEF AtMostOnce!Next
<1> QED
  BY <1>3, <1>4

LEMMA ExitRefines ==
  ASSUME IInv, exit
  PROVE  AtMostOnce!Next
<1> DEFINE C == {c \in Call : call[c] \in {"starting", "awaiting"}}
<1>1. /\ performed' = performed
      /\ \A c \in Call : call'[c] = CASE At(c, "starting") -> "threw"
                                      [] At(c, "awaiting") -> "failed"
                                      [] OTHER -> call[c]
  BY DEF exit
<1>2. /\ \A c \in C : Seen(call[c]) \in {"idle", "open"} /\ Seen(call'[c]) = "failed"
      /\ \A c \in Call \ C : call'[c] = call[c]
  BY <1>1 DEF At, Seen
<1>3. C \in SUBSET Call
  OBVIOUS
<1> HIDE DEF C
<1> QED
  BY <1>1, <1>2, <1>3, Failing

LEMMA InitRefines == Init => AtMostOnce!Init
<1> SUFFICES ASSUME Init PROVE AtMostOnce!Init
  OBVIOUS
<1>1. stateBar = [c \in Call |-> "idle"]
  BY DEF stateBar, Init, At
<1>2. performedBar = {}
  BY DEF performedBar, Init
<1> QED
  BY <1>1, <1>2 DEF AtMostOnce!Init

LEMMA NextRefines ==
  IInv /\ [Next]_vars => [AtMostOnce!Next]_<<stateBar, performedBar>>
<1> SUFFICES ASSUME IInv, [Next]_vars
             PROVE  AtMostOnce!Next \/ UNCHANGED <<stateBar, performedBar>>
  OBVIOUS
<1> USE DEF IInv
<1>1. ASSUME UNCHANGED <<call, performed>> PROVE UNCHANGED <<stateBar, performedBar>>
  BY <1>1 DEF stateBar, performedBar, At
<1>2. ASSUME NEW c \in Call, startServer(c) PROVE AtMostOnce!Next
  BY <1>2, Beginning DEF startServer, At
<1>3. ASSUME NEW c \in Call, joinServer(c) PROVE AtMostOnce!Next
  <2>1. /\ call[c] = "new" /\ performed' = performed
        /\ Goes(c, "starting") \/ Goes(c, "resuming") \/ Goes(c, "threw")
    BY <1>3 DEF joinServer, At
  <2> QED
    BY <2>1, Beginning, FailingOne
<1>4. ASSUME NEW c \in Call, callTool(c)
      PROVE  AtMostOnce!Next \/ UNCHANGED <<stateBar, performedBar>>
  <2>1. call[c] = "resuming" /\ performed' = performed
    BY <1>4 DEF callTool, At
  <2>2. CASE Goes(c, "failed")
    BY <2>1, <2>2, FailingOne
  <2>3. CASE Goes(c, "awaiting")
    <3>1. stateBar' = [stateBar EXCEPT ![c] = "open"] /\ stateBar[c] = "open"
      BY <2>1, <2>3, Moving, Steps DEF Seen
    <3>2. stateBar' = stateBar
      BY <3>1, StateSeen
    <3> QED
      BY <2>1, <3>2 DEF performedBar
  <2> QED
    BY <1>4, <2>2, <2>3 DEF callTool
<1>5. ASSUME onStdout PROVE AtMostOnce!Next \/ UNCHANGED <<stateBar, performedBar>>
  <2> DEFINE line == Head(pipe)
  <2>1. pipe # << >> /\ pipe' = Tail(pipe) /\ performed' = performed
    BY <1>5 DEF onStdout
  <2>2. CASE call' = call
    BY <1>1, <2>1, <2>2
  <2>3. CASE call' # call
    <3>1. line # Cut /\ handleLine(line)
      BY <1>5, <2>3 DEF onStdout
    <3>2. line \in Unread /\ line.id \in Id /\ line.caller \in Caller
      BY <2>1, <3>1, TailEffect, UnreadType
    <3>3. pending[line.id] # Nobody /\ pending[line.id] = line.caller
      BY <2>3, <3>1, <3>2 DEF handleLine, NameInv
    <3>4. line.caller \in Call => performed[line.caller] = 1
      BY <3>2 DEF OnceInv
    <3>5. resolve(line.id, line.caller) \/ reject(line.id)
      BY <3>1, <3>3 DEF handleLine
    <3> HIDE DEF line
    <3> QED
      BY <2>1, <3>2, <3>3, <3>4, <3>5, ResolveRefines, RejectRefines
  <2> QED
    BY <2>2, <2>3
<1>6. ASSUME NEW id \in Id, timeout(id) PROVE AtMostOnce!Next
  BY <1>6, RejectRefines DEF timeout
<1>7. ASSUME onModuleDestroy \/ UNCHANGED vars PROVE UNCHANGED <<call, performed>>
  BY <1>7 DEF onModuleDestroy, vars
<1> QED
  BY <1>1, <1>2, <1>3, <1>4, <1>5, <1>6, <1>7, ServeRefines, ExitRefines DEF Next

\* Exits, restarts, late lines, timeouts and error answers together implement
\* AtMostOnceCall: no tool call is repeated, none is answered that was not
\* performed, and one that failed stays failed.
THEOREM RefinesAtMostOnceCall == Spec => ImplementsAtMostOnceCall
BY Inductive, InitRefines, NextRefines, PTL
   DEF Spec, ImplementsAtMostOnceCall, AtMostOnce!Spec, AtMostOnce!vars

=============================================================================
