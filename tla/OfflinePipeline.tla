--------------------------- MODULE OfflinePipeline ---------------------------
(***************************************************************************)
(* The offline agent: the scheduler that queues runs in Redis, the worker, *)
(* the runs started over REST, and OfflineAgentService.runPipeline: crawl, *)
(* analyse, generate signals, pass the quality gate, store.                *)
(*                                                                         *)
(* Nothing keeps two runs apart but the worker, which takes one queued run *)
(* at a time.  The process may restart at any point; the queue survives.   *)
(***************************************************************************)
EXTENDS Crawlers, Sequences

CONSTANTS
  Rsi,          \* the RSI of the rows of the TradingView crawler
  Answer,       \* what the decision provider may answer
  NoAnswer,     \* it failed, or was not asked
  MaxRestarts

ASSUME PipelineAssumption ==
  /\ Rsi \subseteq 0..100
  /\ NoAnswer \notin Answer
  /\ Answer \subseteq [choice : {"pass", "review", "reject"}, confident : BOOLEAN,
                       analysisGrounded : BOOLEAN, signalsSupported : BOOLEAN]
  /\ MaxRestarts \in Nat
  /\ \A s \in Setup : /\ s.mode \in {"disabled", "shadow", "enforce"}
                      /\ s.provider \in {"none", "unkeyed", "keyed"}
                      /\ s.scheduler \in BOOLEAN

VARIABLES
  scheduler,   \* "off", "starting", "up", "closing", "manual"
  queue,       \* the jobs waiting in Redis
  active,      \* the job of the worker
  stalled,     \* stalled[j]: how often the worker of j died
  run,         \* run[j]: the stack frame of runPipeline
  analyses,    \* analyses[j]: the rows that run j stored in AnalysisResult
  stored,      \* stored[j][s]: the rows of signal s that run j stored
  restarts

runVars == <<scheduler, queue, active, stalled, run, analyses, stored, restarts>>
vars == <<crawlVars, runVars>>

\* A stack frame with nothing but its step and the time it began.
Frame(step, since) ==
  [step |-> step, since |-> since, answer |-> NoAnswer, approved |-> FALSE, todo |-> {}]
Running == {"crawling", "analysing", "gating", "storing", "persisting"}
Ended == {"completed", "failed"}

Init ==
  /\ CrawlInit
  /\ scheduler = "off" /\ queue = << >> /\ active = NoJob
  /\ stalled = [j \in Job |-> 0]
  /\ run = [j \in Job |-> Frame("new", 0)]
  /\ analyses = [j \in Job |-> 0]
  /\ stored = [j \in Job |-> [r \in Rsi |-> 0]]
  /\ restarts = 0

At(j, step) == run[j].step = step
Becomes(j, step) == run' = [run EXCEPT ![j].step = step]

-----------------------------------------------------------------------------
(* The scheduler *)

\* runPipeline, to its first await; the event pipeline.started goes out.
runPipeline(j) ==
  /\ run' = [run EXCEPT ![j] = Frame("crawling", now)]
  /\ callCrawlers(j)

\* onModuleInit; without the scheduler runs start over REST alone.  With it the
\* queue and its worker exist before queue.add is asked.
onModuleInit ==
  /\ scheduler = "off"
  /\ scheduler' = IF setup.scheduler THEN "starting" ELSE "manual"
  /\ UNCHANGED <<crawlVars, queue, active, stalled, run, analyses, stored, restarts>>

\* queue.add of the repeated job returns, and an initial run starts.
initialRun(j) ==
  /\ scheduler = "starting" /\ At(j, "new")
  /\ scheduler' = "up"
  /\ runPipeline(j)
  /\ UNCHANGED <<setup, now, cached, budgetVars>>
  /\ UNCHANGED <<queue, active, stalled, analyses, stored, restarts>>

\* queue.add throws: shutdown closes the worker, which takes no other job and
\* ends the one it has, and leaves the manual trigger.
initFails ==
  /\ scheduler = "starting"
  /\ scheduler' = "closing"
  /\ UNCHANGED <<crawlVars, queue, active, stalled, run, analyses, stored, restarts>>
shutdown ==
  /\ scheduler = "closing" /\ active = NoJob
  /\ scheduler' = "manual"
  /\ UNCHANGED <<crawlVars, queue, active, stalled, run, analyses, stored, restarts>>

\* A repeated job comes due, one of an earlier process too, or
\* triggerPipelineNow adds one.
enqueue(j) ==
  /\ scheduler \in {"starting", "up"} /\ At(j, "new")
  /\ queue' = Append(queue, j)
  /\ Becomes(j, "queued")
  /\ UNCHANGED <<crawlVars, scheduler, active, stalled, analyses, stored, restarts>>

\* POST run-pipeline, and triggerPipelineNow without a queue.
runInline(j) ==
  /\ scheduler \in {"up", "manual"} /\ At(j, "new")
  /\ runPipeline(j)
  /\ UNCHANGED <<setup, now, cached, budgetVars>>
  /\ UNCHANGED <<scheduler, queue, active, stalled, analyses, stored, restarts>>

\* The worker runs from its construction on, and takes the next job when it has
\* none, be it one that an earlier process left.
work ==
  /\ scheduler \in {"starting", "up"} /\ active = NoJob /\ queue # << >>
  /\ active' = Head(queue)
  /\ queue' = Tail(queue)
  /\ runPipeline(Head(queue))
  /\ UNCHANGED <<setup, now, cached, budgetVars>>
  /\ UNCHANGED <<scheduler, stalled, analyses, stored, restarts>>

\* What a new process finds of the runs of the last one: BullMQ gives the job
\* of a worker that died back to the queue, unless that happened to it before,
\* and other runs are gone.
MaxStalledCount == 1
GivenBack == active # NoJob /\ stalled[active] < MaxStalledCount
LeftBehind(j) ==
  IF run[j].step \notin Running THEN run[j]
  ELSE IF j = active /\ GivenBack THEN Frame("queued", 0) ELSE Frame("failed", 0)

Mut_JobIsLost ==
  /\ restarts < MaxRestarts /\ restarts' = restarts + 1
  /\ crawlersRestart
  /\ scheduler' = "off"
  /\ active' = NoJob
  /\ run' = [j \in Job |-> IF At(j, "queued") THEN run[j]
                           ELSE IF run[j].step \in Running THEN Frame("new", 0) ELSE run[j]]
  /\ UNCHANGED <<stalled, queue, analyses, stored>>

Mut_AlwaysGivenBack ==
  /\ restarts < MaxRestarts /\ restarts' = restarts + 1
  /\ crawlersRestart
  /\ scheduler' = "off"
  /\ active' = NoJob
  /\ queue' = IF active = NoJob THEN queue ELSE <<active>> \o queue
  /\ run' = [j \in Job |-> IF j = active THEN Frame("queued", 0) ELSE LeftBehind(j)]
  /\ UNCHANGED <<stalled, analyses, stored>>

\* The process ends, in an orderly way or not, and starts again; the queue is
\* in Redis.
restart ==
  /\ restarts < MaxRestarts /\ restarts' = restarts + 1
  /\ crawlersRestart
  /\ scheduler' = "off"
  /\ active' = NoJob
  /\ queue' = IF GivenBack THEN <<active>> \o queue ELSE queue
  /\ stalled' = [j \in Job |-> IF j = active /\ GivenBack THEN stalled[j] + 1 ELSE stalled[j]]
  /\ run' = [j \in Job |-> LeftBehind(j)]
  /\ UNCHANGED <<analyses, stored>>

-----------------------------------------------------------------------------
(* A run *)

\* The signals of SimpleMomentum; only rows of TradingView have an RSI.
generateSignals == {r \in Rsi : r < 30 \/ r > 70}

\* The run is over; the worker is free, and pipeline.completed or .failed out.
End(j, step) ==
  /\ run' = [run EXCEPT ![j] = Frame(step, 0)]
  /\ active' = IF active = j THEN NoJob ELSE active

\* Promise.all of the crawlers, which never throws; cleaning and normalising.
crawled(j) ==
  /\ At(j, "crawling")
  /\ \A c \in Crawler : crawl[c][j].step \in {"has", "failed"}
  /\ crawl' = [c \in Crawler |-> [crawl[c] EXCEPT ![j] = NoCall]]
  /\ run' = [run EXCEPT ![j].step = "analysing", ![j].since = 0]
  /\ UNCHANGED <<setup, now, cached, pending, flight, budgetVars>>
  /\ UNCHANGED <<scheduler, queue, active, stalled, analyses, stored, restarts>>

\* The gate is there: it approves everything, whatever its mode, where no
\* provider is chosen.
Gated == setup.mode # "disabled" /\ setup.provider # "none"

\* generateAnalysis returns a text whatever happens.  The gate needs no answer
\* when it is not there, or when the provider has no key.
generateAnalysis(j) ==
  /\ At(j, "analysing")
  /\ IF Gated /\ setup.provider = "keyed" THEN Becomes(j, "gating")
     ELSE run' = [run EXCEPT ![j].step = "storing",
                             ![j].approved = ~Gated \/ setup.mode # "enforce"]
  /\ UNCHANGED <<crawlVars, scheduler, queue, active, stalled, analyses, stored, restarts>>

\* The status of an answer: every check at least at the threshold.
status(answer) ==
  IF answer = NoAnswer THEN "error"
  ELSE IF answer.choice = "pass" /\ answer.confident
          /\ answer.analysisGrounded /\ answer.signalsSupported THEN "pass"
  ELSE IF answer.choice = "reject" /\ answer.confident THEN "reject" ELSE "review"

Mut_ErrorsPass(answer) == setup.mode = "shadow" \/ status(answer) \in {"pass", "error"}

approves(answer) == setup.mode = "shadow" \/ status(answer) = "pass"

evaluate(j) ==
  /\ At(j, "gating")
  /\ \E answer \in Answer \cup {NoAnswer} :
       run' = [run EXCEPT ![j].step = "storing", ![j].answer = answer,
                          ![j].approved = approves(answer)]
  /\ UNCHANGED <<crawlVars, scheduler, queue, active, stalled, analyses, stored, restarts>>

\* analysisResult.create; when it fails, so does the run.
storeAnalysis(j) ==
  /\ At(j, "storing")
  /\ \/ /\ analyses' = [analyses EXCEPT ![j] = @ + 1]
        /\ run' = [run EXCEPT ![j].step = "persisting",
                     ![j].todo = IF run[j].approved THEN generateSignals ELSE {}]
        /\ UNCHANGED active
     \/ End(j, "failed") /\ UNCHANGED analyses
  /\ UNCHANGED <<crawlVars, scheduler, queue, stalled, stored, restarts>>

\* tradeSignal.create; a signal that fails is skipped.
persistSignals(j) ==
  /\ At(j, "persisting")
  /\ \E s \in run[j].todo :
       /\ run' = [run EXCEPT ![j].todo = @ \ {s}]
       /\ stored' = [stored EXCEPT ![j][s] = @ + 1] \/ UNCHANGED stored
  /\ UNCHANGED <<crawlVars, scheduler, queue, active, stalled, analyses, restarts>>

complete(j) ==
  /\ At(j, "persisting") /\ run[j].todo = {}
  /\ End(j, "completed")
  /\ UNCHANGED <<crawlVars, scheduler, queue, stalled, analyses, stored, restarts>>

Step(j) ==
  \/ Request(j) /\ UNCHANGED runVars
  \/ crawled(j) \/ generateAnalysis(j) \/ evaluate(j)
  \/ storeAnalysis(j) \/ persistSignals(j) \/ complete(j)

Start == onModuleInit \/ initFails \/ shutdown \/ \E j \in Job : initialRun(j)

Next ==
  \/ Start \/ work \/ restart
  \/ \E j \in Job : enqueue(j) \/ runInline(j) \/ Step(j)
  \/ tick /\ UNCHANGED runVars

Spec == Init /\ [][Next]_vars

\* Requests, calls and writes return or fail; the process comes up and works.
FairSpec ==
  /\ Spec
  /\ WF_vars(Start) /\ WF_vars(work)
  /\ \A j \in Job : WF_vars(Step(j))

-----------------------------------------------------------------------------
(* Properties *)

\* The crawlers, the queue and the runs hold values of their types; a job is
\* queued once, the worker's job runs, and no job is run, or stores an analysis,
\* more often than the queue gives it back, however often the process restarts.
TypeOK ==
  /\ CrawlTypeOK
  /\ scheduler \in {"off", "starting", "up", "closing", "manual"}
  /\ queue \in Seq(Job)
  /\ \A i, k \in DOMAIN queue : queue[i] = queue[k] => i = k
  /\ \A j \in Job : At(j, "queued") <=> \E i \in DOMAIN queue : queue[i] = j
  /\ active \in Job => run[active].step \in Running
  /\ run \in [Job -> [step : {"new", "queued"} \cup Running \cup Ended, since : Time,
                      answer : Answer \cup {NoAnswer}, approved : BOOLEAN,
                      todo : SUBSET Rsi]]
  /\ stalled \in [Job -> 0..MaxStalledCount]
  /\ analyses \in [Job -> 0..(1 + MaxStalledCount)]
  /\ stored \in [Job -> [Rsi -> Nat]]
  /\ restarts \in 0..MaxRestarts

\* What a run works on was fetched after it started or, from the cache, less
\* than the time to live before; a run that shares a request shares the answer,
\* never rows that were old when it asked.
DataIsFresh ==
  \A c \in Crawler, j \in Job :
    At(j, "crawling") /\ crawl[c][j].step = "has" =>
      \/ crawl[c][j].value.at >= run[j].since
      \/ crawl[c][j].value.at + Ttl[c] > run[j].since

\* What Dune bills on a day is the budget of each process, the posts whose answer
\* was lost and, on a later day, one post that crossed midnight.
\* (.env.example:110: "per backend process, resets at UTC midnight")
BudgetIsBounded ==
  \A d \in Day :
    billed[d] <= (restarts + 1) * MaxExecutions + lost + (IF d = 0 THEN 0 ELSE 1)

\* A run stores a signal only with an analysis to explain it that it has not
\* stored the signal for, also when a restart makes the worker run a job again;
\* and where a gate enforces, only if the provider vouched for the research.
SignalsAreVouched ==
  [][\A j \in Job : \A s \in Rsi : stored'[j][s] # stored[j][s] =>
       /\ stored'[j][s] <= analyses[j]
       /\ Gated /\ setup.mode = "enforce" => status(run[j].answer) = "pass"]_vars

\* A job in the queue is run to its end, over restarts, unless the scheduler
\* failed to start.
QueuedRunsEnd ==
  \A j \in Job : At(j, "queued") ~> run[j].step \in Ended \/ scheduler = "manual"

=============================================================================
