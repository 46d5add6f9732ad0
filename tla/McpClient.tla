----------------------------- MODULE McpClient -----------------------------
(***************************************************************************)
(* InjectiveMcpClient: tool calls over JSON-RPC to a child process that is *)
(* spawned on demand, may exit at any time and is spawned again by a later *)
(* call.                                                                   *)
(*                                                                         *)
(* The client runs on one event loop.  A stdout chunk, an exit, a timer and *)
(* a new call are macrotasks; what they resolve continues in microtasks    *)
(* before the next of them.  A chunk is one line here, or the cut line a   *)
(* dying server leaves.                                                    *)
(*                                                                         *)
(* Mut_X, before a definition it mutates, is that definition with a bug a  *)
(* change of the code could introduce; no action refers to it.             *)
(***************************************************************************)
EXTENDS Integers, Sequences, FiniteSets

CONSTANTS
  Call,       \* calls of executeTrade
  Start,      \* the caller that stands for the rpc of start()
  Nobody,
  MaxId,      \* bound on request ids
  MaxFaults   \* bound on exits, kills and error answers

ASSUME CallAssumption == Start \notin Call /\ Nobody \notin Call \cup {Start}
ASSUME BoundAssumption == MaxId \in Nat /\ MaxFaults \in Nat

Id == 1..MaxId
Caller == Call \cup {Start}

\* A request on its way to the server; the server's answer to it, with the
\* caller it was meant for; the rest of a line that was never finished.
Request == [id : Id, caller : Caller]
Line == [id : Id, caller : Caller, ok : BOOLEAN]
Cut == [id |-> 0, caller |-> Nobody, ok |-> FALSE]

Waiting == {"starting", "resuming", "awaiting"}
CallStep == {"new", "answered", "failed", "threw"} \cup Waiting

VARIABLES
  child,         \* this.child: "none", "running", or "killed" by onModuleDestroy
  servers,       \* server processes that are alive
  initialized,
  initPromise,   \* "none", "running", "resolved" or "rejected"
  nextId,
  pending,       \* pending[i]: who awaits the answer to request i, or Nobody
  dirty,         \* buffer holds a part of a line
  call,          \* call[c]: where the call stands
  answer,        \* answer[c]: whose answer it was given
  inbox,         \* requests the live server has not handled
  pipe,          \* lines the client has not read
  performed,     \* performed[c]: how often a server performed c's tool call
  faults

vars == <<child, servers, initialized, initPromise, nextId, pending, dirty, call,
          answer, inbox, pipe, performed, faults>>

client == <<child, initialized, initPromise, nextId, pending, dirty, call, answer>>

At(c, step) == call[c] = step
Goes(c, step) == call' = [call EXCEPT ![c] = step]

\* No microtask is due.
Idle == \A c \in Call : ~At(c, "resuming")

Fault == faults < MaxFaults /\ faults' = faults + 1

Init ==
  /\ child = "none"
  /\ servers = 0
  /\ initialized = FALSE
  /\ initPromise = "none"
  /\ nextId = 1
  /\ pending = [i \in Id |-> Nobody]
  /\ dirty = FALSE
  /\ call = [c \in Call |-> "new"]
  /\ answer = [c \in Call |-> Nobody]
  /\ inbox = {}
  /\ pipe = << >>
  /\ performed = [c \in Call |-> 0]
  /\ faults = 0

-----------------------------------------------------------------------------
(* executeTrade, ensureInitialized, start and rpc *)

\* rpc on a running child: a fresh id, an entry of pending, a line to stdin,
\* which the server may never handle.
rpc(caller) ==
  /\ nextId <= MaxId
  /\ nextId' = nextId + 1
  /\ pending' = [pending EXCEPT ![nextId] = caller]
  /\ inbox' = inbox \cup {[id |-> nextId, caller |-> caller]}

\* ensureInitialized when no start was made since the last exit: start().
startServer(c) ==
  /\ Idle
  /\ At(c, "new")
  /\ ~initialized
  /\ initPromise = "none"
  /\ child' = "running"
  /\ servers' = servers + 1
  /\ initPromise' = "running"
  /\ rpc(Start)
  /\ Goes(c, "starting")
  /\ UNCHANGED <<initialized, dirty, answer, pipe, performed, faults>>

\* ensureInitialized otherwise.
joinServer(c) ==
  /\ Idle
  /\ At(c, "new")
  /\ initialized \/ initPromise # "none"
  /\ Goes(c, CASE initialized \/ initPromise = "resolved" -> "resuming"
               [] initPromise = "running" /\ ~initialized -> "starting"
               [] OTHER -> "threw")
  /\ UNCHANGED <<child, servers, initialized, initPromise, nextId, pending, dirty,
                 answer, inbox, pipe, performed, faults>>

\* The microtask after ensureInitialized; without a live child rpc rejects.
callTool(c) ==
  /\ At(c, "resuming")
  /\ \/ child = "running" /\ rpc(c) /\ Goes(c, "awaiting")
     \/ child # "running" /\ Goes(c, "failed") /\ UNCHANGED <<nextId, pending, inbox>>
  /\ UNCHANGED <<child, servers, initialized, initPromise, dirty, answer, pipe,
                 performed, faults>>

-----------------------------------------------------------------------------
(* What settles a request *)

Starting == {c \in Call : At(c, "starting")}
All(calls, step) == call' = [c \in Call |-> IF c \in calls THEN step ELSE call[c]]

Mut_StartMayRetry(id) ==
  /\ pending' = [pending EXCEPT ![id] = Nobody]
  /\ UNCHANGED <<initialized, answer>>
  /\ IF pending[id] = Start
     THEN initPromise' = "none" /\ All(Starting, "threw")
     ELSE Goes(pending[id], "failed") /\ UNCHANGED initPromise

\* The promise of request id rejects: an error answer or the 30 s timer.  A
\* failed start leaves the child and the rejected initPromise as they are.
reject(id) ==
  /\ pending' = [pending EXCEPT ![id] = Nobody]
  /\ UNCHANGED <<initialized, answer>>
  /\ IF pending[id] = Start
     THEN initPromise' = "rejected" /\ All(Starting, "threw")
     ELSE Goes(pending[id], "failed") /\ UNCHANGED initPromise

\* It resolves with the answer meant for `from`.
resolve(id, from) ==
  /\ pending' = [pending EXCEPT ![id] = Nobody]
  /\ IF pending[id] = Start
     THEN /\ initialized' = TRUE
          /\ initPromise' = "resolved"
          /\ All(Starting, "resuming")
          /\ UNCHANGED answer
     ELSE /\ Goes(pending[id], "answered")
          /\ answer' = [answer EXCEPT ![pending[id]] = from]
          /\ UNCHANGED <<initialized, initPromise>>

\* handleLine: an id nobody waits for is ignored.
handleLine(line) ==
  IF pending[line.id] = Nobody
  THEN UNCHANGED <<pending, initialized, initPromise, call, answer>>
  ELSE IF line.ok THEN resolve(line.id, line.caller) ELSE reject(line.id)

\* onStdout: what a cut line left in the buffer spoils the line after it.
onStdout ==
  /\ Idle
  /\ pipe # << >>
  /\ pipe' = Tail(pipe)
  /\ dirty' = (Head(pipe) = Cut)
  /\ IF dirty \/ Head(pipe) = Cut
     THEN UNCHANGED <<pending, initialized, initPromise, call, answer>>
     ELSE handleLine(Head(pipe))
  /\ UNCHANGED <<child, servers, nextId, inbox, performed, faults>>

Mut_RequestResent(id) ==
  /\ Idle
  /\ pending[id] # Nobody
  /\ inbox' = inbox \cup {[id |-> id, caller |-> pending[id]]}
  /\ UNCHANGED <<client, servers, pipe, performed, faults>>

timeout(id) ==
  /\ Idle
  /\ pending[id] # Nobody
  /\ reject(id)
  /\ UNCHANGED <<child, servers, nextId, dirty, inbox, pipe, performed, faults>>

-----------------------------------------------------------------------------
(* The server process *)

\* The server handles a request, at once or long after the client gave up; an
\* error answer may come after the tool had its effect.
serve ==
  /\ \E r \in inbox, ok \in BOOLEAN :
       /\ inbox' = inbox \ {r}
       /\ pipe' = Append(pipe, [id |-> r.id, caller |-> r.caller, ok |-> ok])
       /\ performed' = IF r.caller = Start THEN performed
                       ELSE [performed EXCEPT ![r.caller] = @ + 1]
       /\ IF ok THEN UNCHANGED faults ELSE Fault
  /\ UNCHANGED <<client, servers>>

\* The pipe of a process that dies: a part of its lines, the last perhaps cut.
Truncated ==
  {SubSeq(pipe, 1, n) : n \in 0..Len(pipe)} \cup
  {Append(SubSeq(pipe, 1, n), Cut) : n \in {m \in 0..Len(pipe) - 1 : pipe[m + 1] # Cut}}

Mut_IdsRestart ==
  /\ Idle /\ child # "none" /\ Fault
  /\ child' = "none" /\ servers' = servers - 1
  /\ initialized' = FALSE /\ initPromise' = "none" /\ nextId' = 1
  /\ pending' = [i \in Id |-> Nobody]
  /\ call' = [c \in Call |-> CASE At(c, "starting") -> "threw"
                               [] At(c, "awaiting") -> "failed"
                               [] OTHER -> call[c]]
  /\ inbox' = {} /\ UNCHANGED <<dirty, answer, pipe, performed>>

Mut_PendingDropped ==
  /\ Idle /\ child # "none" /\ Fault
  /\ child' = "none" /\ servers' = servers - 1
  /\ initialized' = FALSE /\ initPromise' = "none"
  /\ pending' = [i \in Id |-> Nobody]
  /\ inbox' = {} /\ UNCHANGED <<nextId, dirty, call, answer, pipe, performed>>

\* The exit handler: every pending promise rejects, and with that of the start
\* the calls that wait for it.
exit ==
  /\ Idle
  /\ child # "none"
  /\ Fault
  /\ child' = "none"
  /\ servers' = servers - 1
  /\ initialized' = FALSE
  /\ initPromise' = "none"
  /\ pending' = [i \in Id |-> Nobody]
  /\ call' = [c \in Call |-> CASE At(c, "starting") -> "threw"
                               [] At(c, "awaiting") -> "failed"
                               [] OTHER -> call[c]]
  /\ inbox' = {}
  /\ pipe' \in Truncated
  /\ UNCHANGED <<nextId, dirty, answer, performed>>

onModuleDestroy ==
  /\ Idle
  /\ child = "running"
  /\ Fault
  /\ initialized' = FALSE
  /\ child' = "killed"
  /\ UNCHANGED <<servers, initPromise, nextId, pending, dirty, call, answer, inbox,
                 pipe, performed>>

Next ==
  \/ \E c \in Call : startServer(c) \/ joinServer(c) \/ callTool(c)
  \/ onStdout
  \/ \E id \in Id : timeout(id)
  \/ serve
  \/ exit
  \/ onModuleDestroy

Spec == Init /\ [][Next]_vars

\* Microtasks run and timers fire; a server need not answer or exit.
FairSpec ==
  /\ Spec
  /\ \A c \in Call : WF_vars(callTool(c))
  /\ \A id \in Id : WF_vars(timeout(id))

-----------------------------------------------------------------------------
(* Properties *)

\* The client, the server and the pipe between them hold values of their types,
\* and no tool call is performed twice.
TypeOK ==
  /\ child \in {"none", "running", "killed"}
  /\ servers \in Nat
  /\ initialized \in BOOLEAN
  /\ initPromise \in {"none", "running", "resolved", "rejected"}
  /\ nextId \in 1..(MaxId + 1)
  /\ pending \in [Id -> Caller \cup {Nobody}]
  /\ dirty \in BOOLEAN
  /\ call \in [Call -> CallStep]
  /\ answer \in [Call -> Caller \cup {Nobody}]
  /\ inbox \subseteq Request
  /\ pipe \in Seq(Line \cup {Cut})
  /\ performed \in [Call -> 0..1]
  /\ faults \in 0..MaxFaults

\* A call is given the answer to its own request and to no other, whatever
\* answers of a dead server or of requests that timed out come late.
OwnAnswer == \A c \in Call : At(c, "answered") => answer[c] = c

\* At most one server process holds the mnemonic and signs, and a client that
\* has none is ready to spawn one: no exit leaves it initialized.
OneServer ==
  /\ servers = IF child = "none" THEN 0 ELSE 1
  /\ child = "none" => initPromise = "none" /\ ~initialized

\* A call that waits is never forgotten: its own request, or the start it
\* waits for, is pending, and exactly once.
NoLostCaller ==
  /\ \A c \in Call : At(c, "awaiting") => \E i \in Id : pending[i] = c
  /\ Starting # {} => initPromise = "running" /\ \E i \in Id : pending[i] = Start
  /\ \A i, j \in Id : pending[i] # Nobody /\ pending[i] = pending[j] => i = j

\* The client seen as AtMostOnceCall sees it.
stateBar ==
  [c \in Call |-> CASE At(c, "new")            -> "idle"
                    [] At(c, "answered")       -> "answered"
                    [] call[c] \in {"failed", "threw"} -> "failed"
                    [] OTHER                   -> "open"]
performedBar == {c \in Call : performed[c] > 0}
AtMostOnce == INSTANCE AtMostOnceCall WITH state <- stateBar, performed <- performedBar

\* Restarts, late lines, timeouts and lost answers together never repeat a
\* call, answer one that was not performed, or revive one that failed.
ImplementsAtMostOnceCall == AtMostOnce!Spec

\* Every call ends, although the server may never answer.
CallEnds == \A c \in Call : call[c] \in Waiting ~> call[c] \notin Waiting

=============================================================================
