# RAG knowledge platform: specifications, model checking and proofs

TLA+ models of the platform in this repository: the ingestion of documents by an
API, a message queue and workers; the admission of uploads; the status stream;
rate limiting; credentials and tokens; the connection pool and the models that the
requests of an API process share; answering, its citations and its metering;
retrieval and its evaluation; chunking and parsing; and the parts of the web frontend
that keep state. TLC checks every model on a small instance, and TLAPS proves most of the
safety properties, of every component with processes among others, for every value of
the constants.

- [The system](#the-system)
- [The modules](#the-modules)
- [How the modules correspond to the code](#how-the-modules-correspond-to-the-code)
- [The runs](#the-runs)
- [Fairness](#fairness)
- [What is proved](#what-is-proved)
- [Where the code falls short of its own words](#where-the-code-falls-short-of-its-own-words)
- [What is assumed, and what is not modelled](#what-is-assumed-and-what-is-not-modelled)
- [Plan](#plan)

Paths below are relative to the repository; `api/`, `services/`, `worker/`, ... are
directories of `src/rag_platform/`.

## The system

A FastAPI service over PostgreSQL (with pgvector), Redis and Celery workers, and a
Next.js frontend whose server side is the only client that browsers talk to.

| component | state | operations | correct when |
|---|---|---|---|
| document ingestion: `services/ingestion.py`, `worker/`, `api/routes/documents.py`, `cli.py ingest` | the `documents` and `chunks` rows, the Celery queue, what each worker holds | register + enqueue, take, mark PROCESSING, parse and embed, replace the chunks, retry, mark FAILED, acknowledge, delete | chunks agree with their row; searchable documents stay so; every document settles, once, with a reason when it fails |
| upload admission: `register()`, single and batch upload | rows of a tenant, the progress of each request | size, type, quota, unique content, enqueue, mark FAILED | the quota holds or is exceeded by little; duplicates have one winner; a batch reports each file as it is |
| status stream: `GET /documents/{id}/events` | what each generator read and sent | read, report, done, timeout, sleep | clients see a document move forward, and the stream ends |
| rate limiter: `ratelimit.py`, `api/deps.py` | one expiring Redis counter per tenant and window | INCR, EXPIRE, compare, fail open | a window lets through its limit; no counter stays for ever; Retry-After is right |
| credentials and tokens: `security.py`, `api/deps.py`, `api/routes/auth.py`, `cli.py` | `api_credentials`, the tokens signed | create, revoke, exchange, check a call | revocation takes effect at once, for good |
| API process: `db.py`, `api/deps.py`, `api/routes/health.py`, `llm/local_embeddings.py`, `llm/reranker.py` | connections of the pool, models loaded and their locks | connect, load a model once, stream, meter, poll, probe | no lock-up of the pool; each model is loaded once; every request ends |
| answering and metering: `services/answering.py`, `api/routes/answers.py`, `llm/` | the stream of a request, `usage_records` | retrieve, refuse or call the LLM, stream deltas, record usage, done | a finished answer is whole and metered exactly once |
| frontend chat: `Chat.tsx`, `lib/api.ts` | the message shown, the parser's buffer, `busy` | ask, read a piece, handle a frame, end, fail, leave | what is marked done is complete; the page never stays busy |
| usage roll-up: `api/routes/usage.py` | the records in a window | group, sum, total | no partial sum passes for a total |
| retrieval: `retrieval/` | the rankings of one request | dense and keyword search, fuse, rerank, cut | fusion respects both rankings; the best candidates survive |
| citations: `parsers.py` (pages), `chunking.py` (metadata), `services/answering.py` | the location of each passage, the markers of an answer | number the passages, merge pages and headings, filter | a citation leads to the text it names, and only what was used is cited |
| chunker: `ingestion/chunking.py` | the current chunk, its overlap | read a unit, emit, carry over, finish | chunks fit, overlap forward, and cover the text |
| parsers: `ingestion/parsers.py` | heading stack, fence flag, buffer | Markdown: heading, fence, text, end of file; HTML: heading, text element | blocks get the headings that enclose them; text is kept, once |
| retrieval evaluation: `evals/run_eval.py` | the one evaluation tenant, its documents, each run's scores | recreate, ingest, score, report, sweep | scores are about a known corpus |
| documents page: `app/documents/page.tsx` | the table, loads in progress, the poll timer | mount, tick, show, upload, delete | it polls while something is in flight and shows the outcome |
| session proxy: `app/api/rag/[...path]/route.ts`, `lib/session.ts` | a session's cached token and its expiry | take or ask for a token, send, refresh once, retry once | no token expires in use; one refresh heals what it can |

They interact through shared rows (`documents` and `chunks`: upload, workers,
status stream, page, search), one queue (upload to workers), tokens (Access signs
and checks what the session proxy caches), server-sent events (answering and the
status stream to the frontend), `usage_records` (written by answering, read by
the roll-up), one tenant's quota (counted for calls that the credential check let in),
and the connection pool of an API process.

What is hard here: attempts on one document overlap because Celery acknowledges
late and Redis redelivers; ORM sessions keep the row as it was when it was loaded,
and a flush writes only what differs from that; checks and writes are separate
statements under READ COMMITTED; a stream can break between any two bytes; the
frontend's requests overlap and answer out of order; tokens expire while they
travel; a streamed answer needs a second connection of a pool from which others hold
their first; text elements nest. The complete list, at the lines where they bite, is
`hazards` in `PROJECT.json`.

## The modules

| module | what it is |
|---|---|
| `Ingestion` | queue, workers, CLI, deletion and their failures over the two tables |
| `DocumentLifecycle` | what users of a document are promised: an abstract specification, as documented (`Relapses = FALSE`) and as it remains under repeated delivery (`TRUE`) |
| `IngestionRefinement` | the mapping under which `Ingestion` implements both |
| `Uploads` | concurrent single and batch uploads of a tenant |
| `StatusStream` | the server-sent events of a document, composed with `DocumentLifecycle` |
| `DocumentsPage` | the frontend page, composed with `DocumentLifecycle` |
| `RateLimiter` | the fixed-window check, command by command |
| `Access` | credentials, exchanges, calls |
| `SessionProxy` | the requests of one browser session; its `Valid` is what `Access` promises |
| `Answering` | server side of an answer, the network, the chat page |
| `ApiProcess` | the connection pool and the lazily loaded models, shared by the requests of a process, and the readiness probe |
| `Chunking`, `Sections`, `HtmlBlocks`, `Citations`, `Retrieval`, `UsageSummary` | sequential algorithms |
| `Evaluation` | overlapping runs of the retrieval evaluation over one tenant |
| `MCGate` | `Access` and `RateLimiter` composed, on one clock: what a call passes before its handler |
| `MCIngestion`, `MCUploads` | instances for TLC: symmetry, values of constants |
| `MCRequests` | `RateLimiter`, `SessionProxy` and `StatusStream` side by side: each behaviour runs one of them |
| `MCAlgorithms` | the sequential algorithms and `Evaluation` side by side, likewise |
| `IngestionProofs` | theorems about `Ingestion` and about `IngestionRefinement` |
| `UploadsProofs`, `AnsweringProofs`, `ApiProcessProofs`, `DocumentsPageProofs` | theorems about the module of that name |
| `GateProofs` | theorems about `RateLimiter`, `Access` and `MCGate` |
| `RequestsProofs` | theorems about `SessionProxy` and `StatusStream` |
| `AlgorithmsProofs` | theorems about all parts of `MCAlgorithms` |

Every module has one action per handler or step, labelled by a program counter
where a handler can be interrupted: at each database statement or commit, Redis
command, network leg, `await` or `yield`. Names are those of the source where TLA+
allows it. Definitions marked "Mutant" are plausible slips of the code (a dropped
guard, a wrong bound, a swapped order); they are used by no specification, and
`PROJECT.json` pairs each with the property that must fail when it replaces the
definition it follows.

## How the modules correspond to the code

`map` in `PROJECT.json` gives the lines of every definition. In outline:

**Ingestion.** `status`, `error`, `chunkCount` are columns of `documents`; `chunks[d]`
counts the rows per `chunk_index` (1: the complete set, 2: doubled). `queue` is a
bag of messages, each a document and its `retries`. An actor is a Celery pool
process or a CLI run; `held` is the message it works on, `seen` the row as its ORM
session loaded it, `swept` says that its open transaction has deleted the chunks.
`process()` is `Load` (missing or COMPLETED ends the task), `MarkProcessing` (a
commit), `ParseAndEmbed` or `ParseFails`, `DeleteChunks` (uncommitted), `Store` (the
inserts, the row and the commit, which fails if another attempt's chunks occupy the
unique index or the row is gone). `Transient` is any other exception at any of these
steps: rollback, then `PublishRetry` or, when exhausted, `LoadToFail` and
`CommitFailure`. `Flush` is what the ORM writes: the columns that differ from `seen`.
`unacked` are the workers whose message the broker still keeps. An upload whose message
cannot be published takes two steps, `DelayRaises` and the commit of `mark_failed()`
(`EnqueueFails`), between which a worker can have the message after all. The failures are
`host_crash` (the message is restored), `late_crash` (there is none to restore: it has been
delivered again, or the broker has lost it), `child_killed` (the parent acknowledges),
`redelivery` (visibility timeout), `broker_restart` (Redis forgets what is queued and what
is unacknowledged), `ambiguous_publish`, `retry_refused` (`RetryNotPublished`: Celery raises
`Reject(requeue=False)` in place of `Retry`), `mark_error` and `api_crash`; `Faults` says which
may happen and `MaxFaults` how many. `Strikes` gathers the seven losses that nobody
recovers from.

**Uploads.** For each file of a request: `Refuse` (size or type), `CheckQuota` (the SUM),
`Insert` (unique per tenant and content), `Enqueue` or `EnqueueFails` (mark FAILED,
503), `Abort` (an unexpected error ends the request). `rows` holds who inserted what.
A single upload is a batch of one. What becomes of an accepted row is `Ingestion`.

**StatusStream.** `Read` in a short session of its own, `Report` when the status is new,
`Done`, `Timeout` or `Sleep`. The documents move by `DocumentLifecycle` between any two
steps. `relapsed` is a history variable: the documents that left a terminal status.

**DocumentsPage.** `loads` are the list requests in progress, read by the server or not;
`Show(i)` applies any of them when it arrives. `Tick` is the interval, enabled while the
table shows something in flight. `overtaken` is a history variable: a load was read
or answered before an older one.

**RateLimiter.** `ReadClock` names the window, `Incr` may arrive up to `MaxDelay` later,
`Expire` only by the request that counted 1. `Tick` removes expired counters.
`FailOpen` lets a request pass when Redis fails, before or after it counted.

**Access.** An exchange is `LookupClient`, `Stamp` (`last_used_at`), `SignToken`; a call is
`DecodeToken`, `CheckCredential`, `Answer`. `late` is a history variable: requests that
arrived when their credential had been revoked.

**MCGate.** A call that `Access` lets in (`running`) passes `RateLimiter` under the same
identity, and is answered only when admitted; `GateTick` advances both clocks.

**ApiProcess.** `main` are the requests whose own session holds a connection, from the
credential check (`Connect`, `Authenticate`) until it is closed (`Respond`, `StartStream`,
`EndStream`); `extra` those with a short-lived one (metering, polls, the probe). `closing` is
when the installed FastAPI closes the session of a streamed response: before it
starts, or after it has ended. `UseModel`, `AcquireLock`, `CheckAgain`, `LoadModel` and
`LoadFails` are `_get_model()`. `PoolTimesOut` is the pool's own timeout; `CheckTimesOut` the
probe's; `Hang` stops the database.

**SessionProxy.** A round is `FindSession`, `TakeToken` (cached and fresh, unless forced),
`Grant` or `Refuse`, `StoreToken`, `Send`, `Serve` (the API executes the request or rejects
it), `PassOn`, `Retry`; `NetworkFails` breaks a leg on the way there or back. `since` dates the
current leg; `executed` is a history variable: how often the API has executed each request.

**Answering.** Server: `Prepare`, `SendNotice` (nothing found), `SendCitations`, `StartCall`,
`Delta`, `CallEnds`, `RecordUsage`, `SendDone`, `ServerFails`. Network: a frame is two halves
(its lines, and the blank line that ends it) and `ReadPiece` takes any number of
halves. Page: `HandleFrame`, `StreamEnds`, `StreamBreaks`, `Leave`.

**Chunking.** Words are numbers, a document is a length and the set of words that end a
sentence. A chunk is an interval of words and a token count. `Estimate` is
`round(n / 0.75)` exactly. **Sections.** A file is a sequence of line kinds, a
fence with its mark, its length and whether an info string follows; the stack, the buffer
and the blocks hold line numbers. **HtmlBlocks.** A page is its elements in
document order, each a heading, a text element or another, with its parent;
`Outermost` is `find_parent() is None`. **Citations.** A file is the number of sentences on
each of its pages or under each of its headings; a chunk is a run of sentences;
`Location` is `_merge_meta()` and `format_location()`; an answer is its markers.
**Evaluation.** `tenant` names the run, and the chunk size, for which the tenant was last
created; what a run finds is any rank while that is itself, and nothing afterwards.
**Retrieval.** A ranking is a sequence of ids;
fused scores are scaled by a common multiple to stay integers. **UsageSummary.** A
record's cost is its tokens or unknown.

## The runs

Every run is small enough for a laptop (seconds to a minute and a half) and, where it
does not say otherwise, deadlock is not checked because the modelled requests come
to an end.

| run | instance | asks |
|---|---|---|
| `ingestion_faults` | 2 documents (one corrupt), 2 workers, 1 CLI, 1 retry, any 2 failures of all nine kinds; deadlock checked | are the chunks right and never taken away, whatever overlaps and fails, and which failures can strand a row? |
| `ingestion_live` | 1 document, 2 workers, 2 retries, 2 host crashes, redeliveries or ambiguous publishes; the broker keeps its messages and accepts every retry; deadlock checked | does every open row have somebody who answers for it, does every upload settle, and is the lifecycle with relapses implemented? |
| `ingestion_calm` | 2 documents (one corrupt), 2 workers, 2 retries, no failure of the environment (transient errors remain, and the broker may refuse an upload's message, but not a retry); deadlock checked | one attempt at a time; error message exactly when FAILED; is the documented lifecycle, with its final statuses, implemented, liveness included? |
| `ingestion_terminal` | 1 host crash | expected violation: a terminal status is not final (see below) |
| `uploads_batch` | 2 requests of up to 2 files of one tenant, 4 contents, quota 2 | how far can the quota be overrun, and does each file's result match its row? |
| `page` | 1 document, 3 loads in progress | does it keep polling, does it show the outcome? |
| `gate` | 2 credentials of a tenant, 2 exchanges, 2 calls, 3 ticks, limit 1, 1 failure | is revocation immediate; is the quota the tenant's, and untouched by revoked credentials? |
| `requests` | three parts side by side. Limiter: 3 requests, windows of 3 ticks, limit 1, slack 1, delay 1, 6 ticks, 1 failure. Proxy: 2 requests (one with a body), tokens of 4 ticks, margin 2, latency 1, one change of the signing key, network failures, throttling, logout, revocation. Stream: 1 document that may relapse or never settle, 2 streams, 3 sleeps | does a window keep its limit and every counter expire; expiry in use, one refresh, nothing executed twice; shape of the events, forward only, done is final |
| `api` | a search, a streamed answer, a status stream, a probe; 2 connections, 1 model, both times of closing | is a model loaded once, can the pool lock up, does every request end? |
| `api_late` | the same without the status stream | expected violation: a streamed answer holds a connection (see below) |
| `answering` | 1 question and 1 API call, up to 4 deltas, all failures, a reader who leaves | metering, completeness, the page never stays busy |
| `algorithms` | seven parts side by side. Texts of up to 12 words with target 5 and overlap 3; Markdown files of up to 5 lines with four sorts of fences; HTML pages of up to 4 elements with 2 heading levels; answers with up to 2 markers over 2 passages of 3 pages or sections of up to 2 sentences; rankings of up to 3 of 4 chunks with `rrf_k` 2; 3 calls of 2 models over 3 days; 2 evaluation runs of 2 files, 2 questions, up to 2 sizes | what each algorithm's users count on |

What they show is the `about` of each run in `PROJECT.json`. Every module of the
components with processes, but `Evaluation`, has a `TypeOK`; a run lists it where a
theorem rests on it. All properties hold except those the two `violation` runs exhibit.

A property of `MCRequests` or `MCAlgorithms` is that of the module it names, and
`RevocationIsImmediate` of `MCGate` is that of `Access`; four gather related ones: `StreamIsTrue` (`WellFormed`, `ForwardOnly`, `DoneIsFinal`), `PathsAreEnclosing`
(of both parsers, and `CodeIsCode`), `TextIsKept` (of both) and `ScoresMeanSomething`
(`KnownCorpus`, `ScoresAgree`).

*Why the bounds are enough.* Ingestion: documents share nothing but workers, so one
document and the two workers that can overlap on it give every conflict; two
documents add contention and the corrupt file, two failures let a second one hit the
recovery from the first. A document moves through three statuses before it can relapse,
so three sleeps see every transition one by one or missed. The page needs three loads for two
answers to overtake a third. The limiter's three requests span two window borders, and exceed together
what a window admits with one failure. In `gate` two calls and two credentials are
enough for a quota of one to be exceeded. The proxy's clock covers a token's whole life. With
two connections, three requests that need one and two that need a second can all
wait for each other; a second model would go through the same lines with its own lock.
Four elements are a text element in a text element in another beside a heading, or three
headings above a text. Twelve
words are several chunks with overlap, with sentences of every length up to more
than two pieces. Five lines hold three heading levels with skips up and down, or a
fence that a longer one quotes with a heading inside; the four fences are a bare one, a
longer one, one of the other mark and one with an info string. `K < RrfK + 2` is the condition under which two bottom ranks
outweigh one top rank; 3 and 2 are its tightest case, the defaults 30 and 60 lie far
inside.

*Symmetry* is used for workers, rate checks, and the exchanges and calls of `gate`, in
runs without temporal properties other than `[][A]_v`.

## Fairness

| specification | weak fairness of | because |
|---|---|---|
| `Ingestion!FairSpec` | the steps of a request, of a running actor, and of an idle worker with a message | request handlers end; worker processes run and prefetch one message each; crashes, uploads and deletions need not happen |
| `DocumentLifecycle!FairSpec` | progress of an open document | this is what the workers are shown to provide |
| `DocumentsPage!FairSpec` | the timer and the requests; strong fairness of a load being read and shown | `setInterval` fires; a load may fail, but not all of them for ever |
| `ApiProcess!FairSpec` | every request and probe that has arrived | the event loop and the threads run, the pool's and the probe's timeouts fire; nobody has to arrive or leave, and a lock that is free is got by somebody |
| `Answering!FairSpec` | server and page of a question | the provider's SDK ends every answer or raises; the browser reads what arrives |

Losing a message's worker is repaired only if failures stop, which `MaxFaults` says. The
liveness of `Ingestion` leaves the losses out (`Lossless`): refused retries, a broker that
restarts, hosts lost after a second delivery, killed pool processes, `mark_failed()` calls
that fail, API crashes and the CLI.

## What is proved

By TLAPS, for every value of the constants that the assumptions declared in the modules
allow: any finite number of requests, any number of documents, workers, files, retries
and failures. A theorem that needs more says so (`ASSUME ... PROVE`). Each result rests
on an inductive invariant that TLC had checked before it was proved; the file begins with
it, in named parts. The parts that carry the argument:

`IngestionProofs`, on `Ingestion`:

- `TypeCorrect`; `ChunksAlwaysMatch`: under every failure `chunks` agrees with the row. Not
  inductive alone: an uncommitted DELETE says nothing of what another attempt has
  committed. The strengthening says what an attempt that is past its DELETE may assume,
  and that the unique index is what makes the second `Store` fail.
- `SearchableUntilDeleted`: the same invariant gives that no step empties the chunks of
  a document it leaves in place.
- `OnlyNamedLosses`: whatever of the above fails, a PENDING or PROCESSING row loses the last upload
  request, message or attempt that answers for it only in one of seven losses (`Strikes`).
  An attempt about to write FAILED over a row it saw FAILED answers for nothing; the
  invariant under the argument (`ViewsProcessing`) is that a running attempt saw
  PROCESSING, so that the terminal status it writes is in the UPDATE.
- `NothingStuck`, its corollary: without these losses (`Lossless`) every open row is answered
  for.
- Without failures of the environment (`Calm`), from an invariant that ties the message,
  the attempt and the row of a document together: `OneAttemptAtATime`,
  `TerminalForGood`, and `ErrorsAreFailures`, which adds what the session of a running
  attempt has seen of the row it will write.
- `ImplementsLoose`: every step under every failure is a step or a stutter of
  `DocumentLifecycle` with relapses. `ImplementsStrict`: without failures, of the
  documented one. Both concern initial states and steps, not fairness.

`UploadsProofs`, on `Uploads`:

- `TypeCorrect`; `ResultsMatchRowsHolds`: a row belongs to a file that has been answered, as
  the answer says, or to the file its request is at.
- `OverrunBoundedHolds`: the quota is exceeded by at most the largest admissible file of every
  request of the tenant but one. The invariant (`Overrun`) counts what requests past their
  check are about to insert as if it were stored: then only `CheckQuota` can raise the
  total, and it has just compared it. The bytes of a tenant are a fold over its rows; that
  it adds up in any order, grows with each row and is bounded is proved first.

`GateProofs`, on the limiter, the credential check and the two composed:

- `WindowLimitHolds`, `LimiterTypeCorrect` assume INCRs within the slack (`MaxDelay <= Slack`).
  The invariant: a bucket does not expire before the slowest INCR of its window
  (`KeptLongEnough`), so no count is handed out twice (`CountsDiffer`); and each request that
  failed open has cost a failure (`PassedCost`).
- `NoImmortalBucketHolds` needs no assumption on time.
- `RevocationIsImmediateHolds`, `RevokedForGoodHolds`: a call that arrived late is held where
  the credential is still to be checked.
- `GateImplementsParts`: `MCGate` is a step-by-step refinement of both parts, so that what is
  proved of them holds of it; `QuotaIsTheTenantsHolds` follows with the link between a call
  that runs and a check that is made for it.

`RequestsProofs`, on the session proxy and the status stream:

- `ProxyTypeCorrect`; `AtMostOnceHolds`: nothing is executed before the API answers it, and
  the second round sends no body (`NotYet`).
- `NeverExpiresInUseHolds`, if two network legs are shorter than the margin and the margin
  shorter than a token's life: the invariant (`OnTheWay`) dates every token that travels.
- `RefreshHealsHolds`, if the key changes at most once besides: what a rejection means
  (`Rejected`) and with which key a second round is made (`SecondRound`).
- `StreamIsTrueHolds`: `Aware` is what a generator knows where it is, `Behind` that what it
  knows has happened before what it will read, for a document that does not relapse.

`ApiProcessProofs`, on `ApiProcess`:

- `TypeCorrect`; `LoadedOnceHolds`, since who loads holds the lock and has looked again;
  `NoPoolDeadlockHolds`: with early closing not every connection of an exhausted pool is
  held by somebody who waits for another one, since nobody who waits holds any
  (`WaitersHoldNothing`) and short sessions are short (`Pooled`).

`AnsweringProofs`, on `Answering`:

- `TypeCorrect`; `DoneIsMeteredHolds`, from where the usage of a call stands at each step
  (`Metered`); `WholeAnswerHolds`: the shape of the stream (`WellFormed`), and the page as what
  the stream says up to some frame, with the halves it has read since in its buffer
  (`InStep`).

`DocumentsPageProofs`, on `DocumentsPage`:

- `TypeCorrect`; `PollsWhilePendingHolds`: while no answer has overtaken another, what is shown,
  or what the last load in progress has read, watches every document uploaded here that is in
  flight (`Watches`), and a load reads only documents that were there (`Born`).

`AlgorithmsProofs`:

- From `Overlap < Target` (which the settings' validator enforces) one inductive invariant of
  the chunker, in named parts (where the current chunk begins, what is carried while it
  is, sizes before and after a unit is added, the last chunk relative to the current
  one, coverage), gives `TypeCorrect`; `ChunksFit` (no chunk exceeds the target by more than
  the overlap); `Complete` (every word is in a chunk); `MovesForward` (consecutive chunks
  begin and end later and leave no gap); `PacksGreedily` (a chunk is closed only when the next
  unit does not fit). `KeepsSentences` (no chunk breaks a sentence that fits in one) needs
  a second invariant (`CleanCuts`): no such sentence lies on both sides of a place where a
  unit or a chunk begins. Two lemmas provide the arithmetic of `Estimate` and the greatest element a
  bounded set of units has.
- `ScoresMeanSomethingHolds`, for the evaluation with at most five results
  (`ScoringAssumption`), and for runs that still own the tenant (see
  [item 12](#where-the-code-falls-short-of-its-own-words)): the corpus is what that run has ingested
  (`OwnCorpus`), and a hit within a cutoff is one within the next (`Scored`).
- `NoPartialTotalHolds`, for the usage roll-up. The folds over records and over models are
  first shown to be sums (`SumIsSumOf`, `TotalIsSumOf`) that can be taken in any order and by
  parts (`SumSplits`, `SumOfParts`); known costs never add up to what looks unknown
  (`KnownSum`).
- `PathsAreEnclosingHolds`, `TextIsKeptHolds`, for the parsers as the run has them.
  One lemma serves both: what the while loop leaves of the heading stack, with the new
  heading on it, is the path of the headings so far (`PathGrows`). *Markdown*: the invariant
  `ScanInv` says that every line scanned is filed once, is a heading, or is blank
  (`FiledOnce`), that the stack is the path of the headings so far, which all come before
  what is in the buffer (`StackIsPath`), and that a block has the path above each of its lines.
  That code opens no section and hides none (`CodeIsCode`) is said of the lines down to the
  first fence that is itself quoted in code (see
  [item 11](#where-the-code-falls-short-of-its-own-words)): down to there the flag of the parser is
  what CommonMark says (`CodeInv`).
  *HTML*: the elements that enclose one another form a chain (`Nests`), so the first
  text element around a piece of text is the only outermost one; the blocks are the outermost text
  elements visited so far, each once (`FoundOnce`).
- `CitedIsUsedHolds`, `LocationIsTrueHolds`, for the citations: what the labels of the sentences
  are (`BlocksStand`), by counting the sentences part by part; a passage lies between the
  labels of its ends, since labels never fall (`OnePart`).
- `FusionIsFairHolds`, `BestAreReturnedHolds`, for the search. The scale of the model is a
  multiple of every denominator (`ScaleDivides`), so its quotients compare as the fractions do;
  with `K < RrfK + 2` (`RankAssumption`: the defaults are 30 and 60) two shares of any rank
  outweigh one of the first (`TwoOutweighOne`). The invariant: the list holds every candidate
  of both searches once (`Candidates`), by the fused scores or by the reranker's. One lemma
  serves the citations and the search: the sequence that has at each place the element with as
  many before it lists the set in order (`CountingSorts`).

Induction over finite sets and numbers is by the smallest counterexample (lemmas
`SmallestSubset`, `LeastNumber`, `LeastNat`), because the induction theorems of the library take an
operator as a parameter; that a recursive function of the model has the values its
definition says (`Ancestors`, `Opening`, `FlattenSeq`, `Scale`) is shown in the same way (`RecursionExists`).

*Only model-checked:*

- Liveness and fairness, which is beyond the prover: `EventuallySettled`, the fairness
  halves of the refinements, `CatchesUp`, `NeverStuck`, `EveryRequestEnds`.

Every safety property of the passing runs is proved. In `Citations` and `Retrieval` `sorted()`
is written as counting what comes before, and not with `SetToSortSeq`: `SortSeq` is built into
the tools, and the prover knows nothing of what it returns.

## Where the code falls short of its own words

Met while modelling. The first two are kept as runs; the others can be reproduced by the
change of a constant, or are visible in a property that states what is left.

1. *A terminal status is not final* (run `ingestion_terminal`). `process()` sets
   PROCESSING on any row that is not COMPLETED (`services/ingestion.py:127`). If the
   worker host is lost between `mark_failed()` and the acknowledgement, the message is
   delivered again and the FAILED row goes back to PROCESSING, while
   `api/routes/documents.py:32-33` tells pollers that it never changes again. Until it
   settles, the row shows the old `error_message` (`ErrorExactlyWhenFailed` fails with
   `Faults = {"host_crash"}`), and with two failures a second attempt can write FAILED
   without any message because the flush leaves an equal column out.
2. *A stream may hold the connection of its request* (run `api_late`).
   `services/answering.py:4-5` relies on the request's session being closed when
   streaming begins. It is closed by a yield-dependency (`api/deps.py:51-52`), and FastAPI
   runs the end of one before a streamed response only up to 0.117; `pyproject.toml:8`
   admits later versions. With those every streamed answer needs two connections when it
   is metered, and enough of them at once wait for each other until the pool's timeout,
   with the usage lost; `NoPoolDeadlock` is stated for early closing.
3. *A killed pool process loses its message.* With `task_acks_late` but without
   `task_reject_on_worker_lost` the parent acknowledges; the comment at
   `worker/celery_app.py:22-23` says otherwise. `NoOrphan` fails with
   `Faults = {"child_killed"}`.
4. *`mark_failed()` may itself fail*, outside any handler (`worker/tasks.py:106`): the row
   stays PROCESSING (`EventuallySettled` fails with `Faults = {"mark_error"}`), as it
   does after a transient error under `cli ingest` (`Clis = {c1}`); after a crash of the API
   between commit and enqueue it stays PENDING (`"api_crash"`). A transient error whose retry the broker refuses
   ends the same way (`"retry_refused"`): Celery drops the delivery
   (`Reject(requeue=False)` from `worker/tasks.py:124-126`) and the row stays PROCESSING.
   A restart of Redis loses what is queued (`"broker_restart"`), which the documents admit for
   messages that nobody has started, whose rows stay PENDING (`README.md:115` and `511-515`,
   `SCALABILITY.md:39-41`); a retry waits in the queue, too, and its row stays PROCESSING. And a
   message that was being worked on is not restored when the host dies afterwards
   (`"late_crash"`). `LossesAreNamed` says that these and item 3 are the only ways, of the
   failures modelled here, to strand a row; nothing in the repository publishes a stranded
   document again.
5. *The quota is two statements* (`services/ingestion.py:76-89`): concurrent uploads of a
   tenant exceed it. `OverrunBounded` says by how much.
6. *A 503 upload is told to retry and then refused with 409*: the FAILED row keeps the
   content hash until it is deleted (`api/routes/documents.py:66-71`).
7. *The documents page can stop polling* when an answer overtakes another
   (`page.tsx:30`): `PollsWhilePending` needs its `~overtaken`.
8. *A rate-limit counter can stay for ever* when EXPIRE fails after INCR
   (`ratelimit.py:38-41`): `NoImmortalBucket` needs its `faults = 0`.
9. *The proxy cannot retry a request with a body*: the second round reads a consumed body
   and throws (`route.ts:68-82`). `AtMostOnce` says that the API has not executed such a
   request, so that it can be sent again without harm. And a 401 that survives the retry is
   passed on to a browser that is logged in, where `lib/api.ts:27` expects 401 only without
   a session.
10. *An LLM call whose stream is broken off is not metered*: usage is recorded when the
   stream ends (`services/answering.py:165`). `DoneIsMetered` is about finished answers.
11. *Any fence closes any fence* (`parsers.py:109`), whatever its mark, length and info string:
    a line `~~~` inside a block of backticks ends the code, and so do three backticks, with
    or without the name of a language, inside a block that four opened. `# ...` in what follows
    is then a heading to the parser, against its comment (`parsers.py:112`), and headings further
    down may be taken for code. `CodeIsCode`, a part of `PathsAreEnclosing`, therefore speaks of
    the lines down to the first fence that is quoted in code; without that condition it fails.
12. *Overlapping evaluations share one tenant* (`run_eval.py:63`): the second recreates it,
    and the first goes on to score an empty corpus without an error. `KnownCorpus` is about the
    run that owns the tenant, and says that it never scores a mixed or partial one.
13. *"mrr@5" counts every rank* (`run_eval.py:104`): with `--top-n` above 5 a document at
    rank 6 counts in it; `ScoringAssumption` has at most five results.

## What is assumed, and what is not modelled

Assumed of the surroundings: READ COMMITTED isolation; sessions that do not expire
loaded rows on commit (as `db.py` configures them); a broker that, until it
restarts, keeps a message until it is acknowledged, records a delivery as unacknowledged
in the same step that takes it from the queue, and acknowledges each delivery by itself;
INCRs that arrive within the five seconds of slack (`MaxDelay <= Slack`); two network legs
that are shorter together than the proxy's margin (`2 * MaxLatency <= Margin`), where a
leg includes the time the proxy takes to read a browser's body between choosing a token
and sending it (`route.ts:72-75`: an upload slower than that may find its token expired);
one change of the signing key at a time; tenants that share nothing but the queue and
the processes.

Simplified: a document's chunks are one unit (they are written in one commit); a
rate-limit key is one tenant's; one browser session; a question is asked once; every
load of the page lists all documents of the instance (the list is cut at 100 in the
code); a token that does not decode is left out; costs equal tokens. In `ApiProcess` JSON answers
and uploads do not occur (they hold one connection, like a search); the instance has
one model. In `Citations` a heading path is one heading; `Sections` and
`HtmlBlocks` have the paths. In `Sections` indented fences (CommonMark has them, the
parser takes them for text) and lines that begin with inline code in three backticks (the
parser takes them for fences) are left out. The questions of an evaluation are alike.

Not modelled: wiring, settings, error types and schemas, migrations (declarations);
metrics, tracing, request ids and logs, which no other component reads; the login form,
layout and rendering; the fakes of the LLM and the embedder; `cli create-tenant` and
`cli search`; the answer evaluation, a sequential script; benchmarks and infrastructure.
What BeautifulSoup, pypdf, PostgreSQL, Redis and the LLM return is any value they can
return.
`Abort` (an unexpected error ends a batch) is in `Uploads` without a property of its own,
because nothing in the repository promises one. The two searches of a request are two
statements; that a document may be re-ingested in between is left out.

## Plan

Done: the ingestion core, its abstract specification and its proofs; the components
around it, the composition of the two checks every call passes, and what the requests of
a process share; the sequential algorithms; the safety properties of all runs, proved.
Left, in this order:

1. `cli.py create-tenant`, whose tenants the models take as given.
2. The answer evaluation (`evals/answer_eval.py`), which rebuilds its tenant as `Evaluation`
   does and scores answers instead of ranks. It promises to look for a fact in the chunk cited
   (`evals/answer_eval.py:7`) and looks in the citation's snippet (line 101), which is the first 200
   characters of the chunk (`services/answering.py:122`): faithfulness comes out too low for
   facts further down.
