---------------------------- MODULE ReviewClient ----------------------------
(***************************************************************************)
(* The Kubernetes client of src/kube.rs: a review (a TokenReview made by   *)
(* KubernetesAuthenticator::authenticate or a SubjectAccessReview made by  *)
(* KubernetesClient::authorize) looks in its cache, and on a miss asks the *)
(* API server through request_with_retry and caches the answer.  The two   *)
(* callers have the same control; they differ in what a question, its body *)
(* and its cache key are, which are constants here.                        *)
(*                                                                         *)
(* Every .await is a step boundary: while one task waits for its turn, for *)
(* a reply or for a backoff to end, the others run, the cluster changes    *)
(* and cache entries age.  What the code does between two awaits, under    *)
(* its Mutex or alone, is one action.                                      *)
(*                                                                         *)
(* Time.  One tick is a fraction of the 30 seconds an entry lives.  Ages   *)
(* are kept instead of instants and saturate where the code stops telling  *)
(* them apart (TTL), so the state is finite however long the proxy runs.   *)
(* reqwest is built without a timeout, so nothing in the code limits how   *)
(* long a reply stays in flight: Latency is the network's bound, not the   *)
(* program's.                                                              *)
(***************************************************************************)
EXTENDS ApiServer

CONSTANTS
  Tasks,       \* requests being filtered concurrently
  Questions,   \* what a task can ask: a bearer token, an attribute record
  Keys,        \* cache keys
  Body,        \* Body[q]: the part of q the review carries
  Key,         \* Key[q]: the key q is cached under
  NoQuestion,  \* a task that asks nothing
  Failed,      \* Err(_): a send error, an unusable body, a status not 2xx
  Retryable,   \* a response with status 429 or 5xx
  Absent,      \* no entry in the cache; no reply to this task
  TTL,         \* ticks a cache entry is used for (30 s)
  Latency      \* most ticks a reply spends between the server and the client

ASSUME ClientAssumption ==
  /\ Body \in [Questions -> Bodies]
  /\ Key \in [Questions -> Keys]
  /\ NoQuestion \notin Questions
  /\ {Failed, Retryable, Absent} \cap Answers = {}
  /\ Failed # Retryable /\ Failed # Absent /\ Retryable # Absent
  /\ TTL \in Nat \ {0}
  /\ Latency \in Nat
  /\ Stale = TTL + Latency

\* Mutant: one attempt fewer.
OneRetryLess == 1

\* for attempt in 0..3
LastAttempt == 2

VARIABLES
  pc,        \* pc[t]: where t is between two awaits
  question,  \* question[t]: what t asked, NoQuestion when idle
  attempt,   \* attempt[t]: the loop variable of request_with_retry
  reply,     \* reply[t]: the response on its way to t, Absent when none is
  replyAge,  \* replyAge[t]: ticks since the server evaluated it
  result,    \* result[t]: what the review returned, Failed until it does
  cached,    \* cached[k]: the answer stored under k
  elapsed,   \* elapsed[k]: ticks since it was stored
  sends      \* sends[t]: requests sent for this question (history)

taskVars == <<pc, question, attempt, result, sends>>
wireVars == <<reply, replyAge>>
cacheVars == <<cached, elapsed>>
vars == <<apiVars, taskVars, wireVars, cacheVars>>

Replies == Answers \cup {Failed, Retryable, Absent}

TypeOK ==
  /\ ApiTypeOK
  /\ pc \in [Tasks -> {"idle", "lookup", "acquire", "sent", "backoff", "done"}]
  /\ question \in [Tasks -> Questions \cup {NoQuestion}]
  /\ \A t \in Tasks : pc[t] = "idle" <=> question[t] = NoQuestion
  /\ attempt \in [Tasks -> 0 .. LastAttempt]
  /\ reply \in [Tasks -> Replies]
  /\ \A t \in Tasks : pc[t] # "sent" => reply[t] = Absent
  /\ replyAge \in [Tasks -> 0 .. Latency]
  /\ result \in [Tasks -> Answers \cup {Failed}]
  /\ \A t \in Tasks : pc[t] # "done" => result[t] = Failed
  /\ cached \in [Keys -> Answers \cup {Absent}]
  /\ elapsed \in [Keys -> 0 .. TTL]
  /\ sends \in [Tasks -> Nat]

Init ==
  /\ ApiInit
  /\ pc = [t \in Tasks |-> "idle"]
  /\ question = [t \in Tasks |-> NoQuestion]
  /\ attempt = [t \in Tasks |-> 0]
  /\ reply = [t \in Tasks |-> Absent]
  /\ replyAge = [t \in Tasks |-> 0]
  /\ result = [t \in Tasks |-> Failed]
  /\ cached = [k \in Keys |-> Absent]
  /\ elapsed = [k \in Keys |-> 0]
  /\ sends = [t \in Tasks |-> 0]

-----------------------------------------------------------------------------
(* A review, from the call to its result. *)

Ask(t, q) ==
  /\ pc[t] = "idle"
  /\ pc' = [pc EXCEPT ![t] = "lookup"]
  /\ question' = [question EXCEPT ![t] = q]
  /\ UNCHANGED <<apiVars, attempt, result, sends, wireVars, cacheVars>>

\* Mutant: an entry is used however old it is.
UsableForever(k) == cached[k] # Absent

\* at.elapsed() < 30 s, under the lock of the cache
Usable(k) == cached[k] # Absent /\ elapsed[k] < TTL

\* Mutant: a hit renews the entry's stamp.
HitRenews(t) ==
  /\ pc[t] = "lookup"
  /\ Usable(Key[question[t]])
  /\ pc' = [pc EXCEPT ![t] = "done"]
  /\ result' = [result EXCEPT ![t] = cached[Key[question[t]]]]
  /\ elapsed' = [elapsed EXCEPT ![Key[question[t]]] = 0]
  /\ UNCHANGED <<apiVars, question, attempt, sends, wireVars, cached>>

\* A live entry answers at once.
Hit(t) ==
  /\ pc[t] = "lookup"
  /\ Usable(Key[question[t]])
  /\ pc' = [pc EXCEPT ![t] = "done"]
  /\ result' = [result EXCEPT ![t] = cached[Key[question[t]]]]
  /\ UNCHANGED <<apiVars, question, attempt, sends, wireVars, cacheVars>>

\* The lock is released before the review is made: a second task that misses
\* the same key makes a review of its own.
Miss(t) ==
  /\ pc[t] = "lookup"
  /\ ~Usable(Key[question[t]])
  /\ pc' = [pc EXCEPT ![t] = "acquire"]
  /\ attempt' = [attempt EXCEPT ![t] = 0]
  /\ UNCHANGED <<apiVars, question, result, sends, wireVars, cacheVars>>

\* acquire().await returned (RateLimiter models it) and the request is sent.
Send(t) ==
  /\ pc[t] = "acquire"
  /\ pc' = [pc EXCEPT ![t] = "sent"]
  /\ sends' = [sends EXCEPT ![t] = @ + 1]
  /\ UNCHANGED <<apiVars, question, attempt, result, wireVars, cacheVars>>

\* The API server evaluates the request: it answers with what is true at that
\* instant, it is overloaded, or the exchange fails.
Evaluate(t, r) ==
  /\ pc[t] = "sent"
  /\ reply[t] = Absent
  /\ r \in {truth[Body[question[t]]], Retryable, Failed}
  /\ reply' = [reply EXCEPT ![t] = r]
  /\ replyAge' = [replyAge EXCEPT ![t] = 0]
  /\ UNCHANGED <<apiVars, taskVars, cacheVars>>

TakeReply(t) ==
  /\ reply' = [reply EXCEPT ![t] = Absent]
  /\ replyAge' = [replyAge EXCEPT ![t] = 0]

\* A usable answer is stored, stamped with the time of arrival, and returned.
Store(t) ==
  /\ pc[t] = "sent"
  /\ reply[t] \in Answers
  /\ pc' = [pc EXCEPT ![t] = "done"]
  /\ result' = [result EXCEPT ![t] = reply[t]]
  /\ cached' = [cached EXCEPT ![Key[question[t]]] = reply[t]]
  /\ elapsed' = [elapsed EXCEPT ![Key[question[t]]] = 0]
  /\ TakeReply(t)
  /\ UNCHANGED <<apiVars, question, attempt, sends>>

\* 429 or 5xx before the last attempt.
Backoff(t) ==
  /\ pc[t] = "sent"
  /\ reply[t] = Retryable
  /\ attempt[t] < LastAttempt
  /\ pc' = [pc EXCEPT ![t] = "backoff"]
  /\ TakeReply(t)
  /\ UNCHANGED <<apiVars, question, attempt, result, sends, cacheVars>>

\* The sleep of 50 ms, then of 100 ms, ended.
Retry(t) ==
  /\ pc[t] = "backoff"
  /\ pc' = [pc EXCEPT ![t] = "acquire"]
  /\ attempt' = [attempt EXCEPT ![t] = @ + 1]
  /\ UNCHANGED <<apiVars, question, result, sends, wireVars, cacheVars>>

\* Mutant: the last overloaded response does not leave the loop.
GiveUpOnErrorOnly(t) ==
  /\ pc[t] = "sent"
  /\ reply[t] = Failed
  /\ pc' = [pc EXCEPT ![t] = "done"]
  /\ TakeReply(t)
  /\ UNCHANGED <<apiVars, question, attempt, result, sends, cacheVars>>

\* Mutant: the entry is written before `?` looks at the outcome.
FailureIsCached(t) ==
  /\ pc[t] = "sent"
  /\ \/ reply[t] = Failed
     \/ reply[t] = Retryable /\ attempt[t] = LastAttempt
  /\ pc' = [pc EXCEPT ![t] = "done"]
  /\ cached' = [cached EXCEPT ![Key[question[t]]] = reply[t]]
  /\ elapsed' = [elapsed EXCEPT ![Key[question[t]]] = 0]
  /\ TakeReply(t)
  /\ UNCHANGED <<apiVars, question, attempt, result, sends>>

\* The last attempt was answered 429 or 5xx, or the exchange failed: `?`
\* leaves the loop at once, nothing is stored.
GiveUp(t) ==
  /\ pc[t] = "sent"
  /\ \/ reply[t] = Failed
     \/ reply[t] = Retryable /\ attempt[t] = LastAttempt
  /\ pc' = [pc EXCEPT ![t] = "done"]
  /\ TakeReply(t)
  /\ UNCHANGED <<apiVars, question, attempt, result, sends, cacheVars>>

\* The caller takes the result; the task can ask again.
Return(t) ==
  /\ pc[t] = "done"
  /\ pc' = [pc EXCEPT ![t] = "idle"]
  /\ question' = [question EXCEPT ![t] = NoQuestion]
  /\ attempt' = [attempt EXCEPT ![t] = 0]
  /\ result' = [result EXCEPT ![t] = Failed]
  /\ sends' = [sends EXCEPT ![t] = 0]
  /\ UNCHANGED <<apiVars, wireVars, cacheVars>>

Review(t) ==
  \/ Hit(t) \/ Miss(t) \/ Send(t) \/ Store(t) \/ Backoff(t)
  \/ Retry(t) \/ GiveUp(t) \/ Return(t)

-----------------------------------------------------------------------------
(* The environment. *)

Change ==
  /\ \E b \in Bodies, a \in Answers : Revise(b, a)
  /\ UNCHANGED <<taskVars, wireVars, cacheVars>>

InFlight(t) == reply[t] # Absent

Tick ==
  /\ \A t \in Tasks : InFlight(t) => replyAge[t] < Latency
  /\ ApiAge
  /\ elapsed' = [k \in Keys |-> IF cached[k] = Absent THEN 0
                                ELSE Older(elapsed[k], TTL)]
  /\ replyAge' = [t \in Tasks |-> IF InFlight(t) THEN replyAge[t] + 1 ELSE 0]
  /\ UNCHANGED <<taskVars, reply, cached>>

Next ==
  \/ \E t \in Tasks, q \in Questions : Ask(t, q)
  \/ \E t \in Tasks : Review(t)
  \/ \E t \in Tasks, r \in Replies : Evaluate(t, r)
  \/ Change
  \/ Tick

Spec == Init /\ [][Next]_vars

\* tokio runs a task that is ready and a timer that is due; the server or the
\* connection ends every exchange (a premise: the code sets no timeout); time
\* passes.  Nobody has to ask and the cluster does not have to change.
Fairness ==
  /\ \A t \in Tasks : /\ WF_vars(Review(t))
                      /\ WF_vars(\E r \in Replies : Evaluate(t, r))
  /\ WF_vars(Tick)

FairSpec == Spec /\ Fairness

-----------------------------------------------------------------------------
(* Properties. *)

\* What an entry says was true of some question it is the entry of, and
\* stopped being true at most Latency ticks before it was stored: concurrent
\* misses, replies that overtake each other and a cluster that changes while
\* a reply is in flight never make an entry older than its stamp and the
\* network admit (kube.rs 301-305, 350-354, 523-534).
CacheFaithful ==
  \A k \in Keys : cached[k] # Absent =>
    \E q \in Questions : /\ Key[q] = k
                         /\ lastTrue[Body[q]][cached[k]] <= elapsed[k] + Latency

\* The reply on the wire was true when the server evaluated it.
ReplyFaithful ==
  \A t \in Tasks : reply[t] \in Answers =>
    lastTrue[Body[question[t]]][reply[t]] <= replyAge[t]

\* The loop variable counts the requests that were sent.
Counted ==
  \A t \in Tasks :
    /\ pc[t] \in {"idle", "lookup"} => sends[t] = 0
    /\ pc[t] = "acquire" => sends[t] = attempt[t]
    /\ pc[t] \in {"sent", "backoff"} => sends[t] = attempt[t] + 1
    /\ pc[t] = "backoff" => attempt[t] < LastAttempt
    /\ sends[t] <= 3

\* The inductive invariant behind the theorems.
IInv ==
  /\ TypeOK
  /\ Counted
  /\ TruthIsCurrent
  /\ ReplyFaithful
  /\ CacheFaithful

\* t's review returns a in this step.
Returns(t, a) ==
  /\ pc[t] # "done"
  /\ pc'[t] = "done"
  /\ result'[t] = a

\* A review returns the API server's answer to what was asked, to this very
\* body, and an answer that was still true less than TTL + Latency ago.
OwnAnswer ==
  [][\A t \in Tasks, a \in Answers :
       Returns(t, a) => Fresh(Body[question[t]], a)]_vars

\* Where questions share a cache key, and so each other's answers, a review still
\* returns nothing but an answer to one of the questions with the key of the one
\* asked, and one that was still true less than TTL + Latency ago
\* (kube.rs 291-305, 350-354).
SharedAnswer ==
  [][\A t \in Tasks, a \in Answers :
       Returns(t, a) =>
         \E q \in Questions : Key[q] = Key[question[t]] /\ Fresh(Body[q], a)]_vars

\* request_with_retry puts at most three requests per review on the wire and
\* gives up on an overloaded server only after the third; a failed exchange
\* ends the review at once, and a review that fails stores nothing
\* (kube.rs 363-380, 528-534).
RetryBudget ==
  [][\A t \in Tasks :
       /\ sends'[t] <= 3
       /\ reply[t] = Failed /\ reply'[t] = Absent => Returns(t, Failed)
       /\ Returns(t, Failed) => /\ reply[t] = Retryable => sends[t] = 3
                                /\ UNCHANGED cacheVars]_vars

\* Once the cluster stops changing its mind, the proxy forgets what it heard
\* before: from some point on every review that gets an answer gets the
\* answer the API server would give now.
Convergence ==
  <>[][UNCHANGED truth]_vars =>
    <>[][\A t \in Tasks, a \in Answers :
           Returns(t, a) => a = truth[Body[question[t]]]]_vars

\* The client implements the service the pipeline relies on: how a review
\* gets its answer is hidden, from the lookup to the last retry.
Phase == [t \in Tasks |-> CASE pc[t] = "idle" -> "idle"
                            [] pc[t] = "done" -> "answered"
                            [] OTHER -> "asked"]

Service == INSTANCE ReviewService WITH phase <- Phase, outcome <- result

ImplementsService == Service!ServiceSpec
=============================================================================
