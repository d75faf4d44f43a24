# TLA+ models of dd-iast-go

`dd-iast-go` is a library for interactive application security testing. It is compiled into a Go program by
build-time instrumentation: weak ciphers and hashes call into it when they are used, and
`tracer.Span.Finish` calls into it when a span ends. It keeps, for each trace, an *annotation* with the
vulnerabilities found, and hands it to the tracer with the root span.

All of its code runs on the goroutines of the host program, in any interleaving, and any span can be
finished, dropped or garbage collected at any point. That is what these models are about.

## The parts of the system

| part | state | operations | interacts with |
|---|---|---|---|
| annotation store, `internal/spans` | a concurrent map of weak span pointers to annotations; the sampling decision of each; the tag of the root span | `AnnotationFor` (with `trimStore`, `samplingDecision`), `Finished`, `NewOrphanVulnerabilitySpan` | called by `Report` and by the tracer's `Finish`; reads the configuration; starts the heartbeat |
| reporting, `internal/vulnerability` and `internal/model` `Event` | the event of an annotation, guarded by its `RWMutex` | `Report`, `AddVulnerability`, `selectLocationTrace` | the store, the tracer (stack traces, meta structures), the counters |
| frames, `internal/vulnerability/stacktrace` | none | `Matches`, `LocationFromFrame`, `IsGeneratedFile` | called by `Report` |
| counters, `internal/instrumentation/telemetry` and `heartbeat` | atomic counters of the build and of the run | `Add` by reports and by injected `init` functions; `heartbeat.Report` | the telemetry client calls the heartbeat |
| configuration, `internal/config` with `loader` and `parser` | package variables, set once | `load` | environment, telemetry, every other part |
| sinks, `iast/crypto/cipher` and `iast/crypto/hash` | none | `ReportWeakCipher`, `ReportWeakHash`, `RegisterInstrumentedSinks` | `Report`, the counters |
| wire format, `internal/model`, its generated codecs and constants | none | truncation, JSON and msgp encodings, enumerations | the tracer's serializer |
| start-up | package variables and injected `init` functions | Go's order of initialization | store, counters, configuration |
| build integration, `internal/build`, `*.yml` | none at run time | | compiler |
| `benchmarks/overhead/runner`, `_integration/otelc`, `taint` | a benchmark command; an integration test; a package that is still empty | | |

What is hard in it:

* **check then act**: `AnnotationFor` asks whether there is space, then stores. Between the two, other
  goroutines store and finish, and spans die (`annotation.go:56`, `:103`).
* **an object that leaves a map while others hold it**: `Finished` removes and publishes an annotation that
  other goroutines may be about to change (`orchestrion.go:23`, `:35`).
* **locks held over several steps** by `Report` and `Finished`, one inside the deferred calls of the other
  (`report.go:52`, `:100`, `orchestrion.go:30`).
* **partial failure**: the tracer refuses a stack trace or a meta structure (`report.go:108`,
  `orchestrion.go:35`).
* **counters read while they change**, and heartbeats that begin before initialization is over
  (`heartbeat.go:59`, `telemetry.go:22`).
* **arithmetic at the edges**: the trim threshold overflows for large limits (`annotation.go:28`), frame
  indices are subtracted unsigned (`report.go:133`), settings are converted to `int` (`config.go:81`).
* **packages reached before they are initialized**: injected code calls this repository by linkname, so
  sinks run and spans finish while its package variables are still nil (`annotation.go:25`, `init.go:10`).
* **functions that are instrumented and call each other**: one use of a cipher enters several sinks, seen
  through two tools and two layouts of receivers (`cipher/orchestrion.yml:124`, `stacktrace.go:63`).
* **encoders whose count of fields and fields are computed apart**, and readers of messages that are cut
  short or come from a newer model (`location_gen.go:16`, `event_gen.go:107`).

What makes each part correct: the store is bounded and never gives two annotations to one live root; an
event stays within its limit, has no duplicates and refers to recorded stacks only; an orphan report is
delivered and tagged; every call returns; no count is lost or submitted twice; every setting ends in its
range; nothing panics during the start; each hash computed and each cipher constructed is reported once for
every time it is, at its first caller outside the functions that construct it (code of the application, or
of a library that uses the algorithm, as PKCS#12 does); what the tracer sends is what was found, whichever
way it is encoded.

## The modules

| module | models | kind |
|---|---|---|
| `AnnotationRegistry` | what `internal/spans` promises: a bounded registry of live spans | abstract |
| `AnnotationStore` | `annotation.go`, `orchestrion.go`, `vulnerability.go` of `internal/spans` | detailed, implements `AnnotationRegistry` |
| `Reporting` | `Report`, `AddVulnerability` and `Finished`, on top of the store | composes with `AnnotationStore` |
| `StackFrames` | `Matches`, `LocationFromFrame`, `IsGeneratedFile` | operators |
| `SelectLocation` | `selectLocationTrace` | algorithm, step by step; extends `StackFrames` |
| `Sinks` | the calls of the cryptographic libraries, the sinks and the vulnerability they report | composes with `SelectLocation` |
| `EventModel` | values of `internal/model`, their constructors, truncation, enumerations | operators |
| `MessagePack` | what the generated codecs have in common: tokens, maps, arrays, pointers, skipping | operators |
| `EventCodec` | the generated codec of each type, and the JSON form | operators; extends `EventModel`, `MessagePack` |
| `EventTransport` | an event from its first vulnerability to the reader of a payload | composes with `EventCodec` |
| `EventDocument` | what a reader without the model finds in either encoding | operators; extends `EventTransport` |
| `CountLedger` | what telemetry promises of a counter: each event is delivered once | abstract |
| `Heartbeat` | the counters and `heartbeat.Report` | detailed, implements `CountLedger` |
| `StartUp` | package initialization, and the program that runs meanwhile | composes with `Heartbeat` |
| `Config` | `config.load`, the loader and the parser | algorithm, step by step |
| `AnnotationStoreProofs`, `ReportingProofs` | theorems about the store, and on top of them about reporting and delivery | proofs |
| `SinksProofs` | lemmas about frames, captures and steps of the search; on top of them, the theorems about the sinks | proofs |
| `StartUpProofs`, `ConfigProofs` | theorems about counters and start-up, and about the configuration | proofs |
| `Readers` | theorems about the loops of `MessagePack`, for any reader of a field or of an element | proofs |
| `RoundTripProofs` | its instances, one per type; what readers make of the messages of `EventTransport` | proofs |
| `EventTransportProofs` | messages that are cut short, and what events retain; extends `RoundTripProofs` | proofs |
| `MC*` | small instances for TLC | |

### AnnotationStore

A goroutine is at a `pc`: `idle` in the host program, `size`, `trim`, `recheck`, `compute` inside
`AnnotationFor` (the two readings of `store.Size()`, the `DeleteMatching` between them, and
`LoadOrCompute`), `annotated` back in `Report`, `delete` and `finishing` inside `Span.Finish`. Its other
variables are the locals of these functions. Each operation of the concurrent map is one step, because the
map makes it atomic; nothing between two of them is. `span.Root()` may give the root of the trace or, once
that is finished, the span itself (`RootCandidates`). A span is `none`, `open` or `finished`; it turns
`none` again when it is garbage collected, which turns its key in the map dead, and its identifier can stand
for a new span when the key is gone. `tracer.StartSpan` is external; the model assumes a running tracer, which
gives `NewOrphanVulnerabilitySpan` a span that can be finished.

Two things of the code are not visible as steps: `new(Annotation)` for a caller that gets none from the
store (nobody else can see it: `ann` stays `NoAnn`, and `Sampled` is false), and the logging.

`size()` and `DeleteMatching` of the map are taken to be atomic. For the size it is sound, since the answer
is used as a number only. `DeleteMatching` deletes bucket by bucket; the keys it deletes are dead, so nobody
else can look them up, store under them or delete them but another trim.

### Reporting

Extends the store by what a goroutine does with an annotation: lock, check, append, record the stack, set
its identifier, unlock (`phase` `check` ... `unlock`), and on the other side `rlock` and `attach`. The write
lock (`writer`) and the read lock (`readers`) are state. The check of `AddVulnerability` and its append are
separate steps: that they cannot be separated is what the lock is for, and what the theorems prove.

The tracer is external: `SetTag` and `SetMetaStruct` ignore a finished span; `SetMetaStruct` and
`RecordStackTrace` fail or succeed (`MetaStructOutcomes`, `RecordOutcomes`); after `Finish` the serializer
reads what is attached, at some point and without a lock. `json.Marshal` of an event is taken to succeed. An
event attached by reference is the annotation's (`metaStruct`), one attached as JSON is a copy (`json`). Two
effects are left to other places: `executed.Add(1)` is `Execute` of `Heartbeat`, and the tag that asks the
tracer to keep the trace (`orchestrion.go:34`) is the tracer's business.

### Sinks, SelectLocation and StackFrames

The libraries (`crypto/md5`, `crypto/des`, `pkcs12`, ...) are external. A call of theirs is the sequence of
the call stacks in which it enters its functions, leaf first, with the algorithms it uses; `Calls` lists those
the injection rules name. A PKCS#12 decode derives a key and an initialization vector, each by SHA-1 entered
several times (`MaxHashes` bounds how often), before it constructs the PBE and its cipher. Entering a function
runs what the rules prepend to its body: nothing, or a report with its list of frames to skip (`SkipList`).
Orchestrion gives that statement a `<generated>` position and otelc does not; the tracer gives a value
receiver as a class, or as part of the function's name. Both are chosen at the start (`tool`, `joined`).

`Report` then captures the stack and chooses the location: each iteration of the two loops of
`selectLocationTrace` is a step. The capture is external: it leaves out hidden frames and keeps both ends of
a deep stack; a frame keeps its position as an index. A name is the sequence of its parts, so that `Matches`
and `LocationFromFrame` are about where names are split and not about characters.

### EventModel, MessagePack, EventCodec and EventTransport

A text is the sequence of the widths of its characters in UTF-8: that is all truncation looks at. A pointer
is a sequence of at most one element, and a slice knows whether it is nil. MessagePack is a sequence of
tokens, each a kind and a value. A reader returns whether it succeeded, the value, and what follows it in
the payload; `ReadMap` and `ReadArray` are what the generated loops have in common, and each type has its
own `Marshal`, `Unmarshal` and `Msgsize`. `TokenSize` is the length of what the writer appends for a token,
whose header has 1 to 5 bytes. The input of the hash of a vulnerability stands for the hash.
`EventTransport` builds events from what the constructors are given, encodes them one behind the other, at
times with a field of a newer version of the model in any of the maps, and reads them back. Nothing in the
repository calls the readers (its tests read JSON, made by `msgp.UnmarshalAsJSON` or sent as such): they are
for other programs, and here they say what the writer's output means.

### Heartbeat

Every atomic access is a step: an `Add` by a report or an `init` function; a `Load` or `Swap` of the
heartbeat; and the submission of the value, separately. `happened` is a history variable.

### StartUp

Go initializes, of the packages whose imports are all initialized, the first by import path (`IsNext`); the
imports of this repository's packages are their import declarations, those of the application, direct or not,
are a parameter. The initialization of `spans` is two steps: its package variables (`storeMade`,
`triggerTrimThreshold`), and its `init` function, which registers the heartbeat. Meanwhile the application
runs what it has initialized: sinks (a sampled one is `Execute` of `Heartbeat`), `tracer.Start`, spans that
start and finish. A store that is nil panics. `TrimThreshold` is for limits whose triple is an `int`: the
threshold that overflows is in `AnnotationStore`, and nothing of the start depends on it. What `Report` and
`Finished` do with a store is the subject of `Reporting`.

### Config

`load` reads one setting per step. A value is an integer; a text the parser rejects is `NotParsed` or an
integer outside `Parsable`. `ToInt` is the conversion `int(...)` of Go, which wraps.

## The runs

| run | instance | what it shows |
|---|---|---|
| `store_trace` | 2 goroutines; a root, its child, an orphan; 3 annotations; limit 1; sampling a draw | types; everyone who holds the annotation of an unfinished root holds the same one; the store exceeds its limit by at most one per other goroutine; it implements the registry |
| `reporting_request` | 2 goroutines, one request, 2 hashes, limit 2 per event, JSON only | types; no duplicates; stack identifiers resolve |
| `reporting_orphan` | the same with an orphan span, limit 1, both ways to attach | the limit holds; an orphan report is delivered, its span has the tag of its decision, or the first tag where there was no room for one; what is attached has left the store |
| `reporting_liveness` | 2 goroutines, a request and an orphan span, fairness | every call returns, also the `Finish` deferred before the `Unlock` |
| `start_up` | two packages with sinks, three of the application, this repository's; 3 build-time and 3 run-time counters, up to 2 events each, DEBUG, fairness | types; nothing panics; the configuration comes before its use; events are conserved, the ledger is refined, every event is submitted; build-time counters are reported whole |
| `config` | 5 settings, each unset, not a number, or one of 7 integers around the bounds | range; closest value; telemetry and warnings |
| `location` | every call of the libraries under every stack of up to 3 frames of the application; traces of 4 frames; 2 recaptures; both tools and layouts | types; each hash and each cipher is reported once for every time it is computed or constructed; its nearest caller is found and named in full; indices do not wrap |
| `event_transport` | 2 messages with 2 vulnerabilities and a source in all, every kind of evidence, values around a limit of 2 characters, 16 marks, a path of 32 and a class of 256 bytes | what is read is what was written; a cut message is rejected; the size estimate suffices; JSON says the same; texts keep what fits |
| `documented_limit`, `event_guarded`, `analyzed_tag`, `start_up_early_application` | | each violates what a comment or the README says: see below |

**Bounds.** Every race modelled here is between two goroutines: the third party, if there is one, is the
garbage collector, the serializer or the heartbeat, which are actors of their own. Three annotations suffice
for two goroutines and one entry of the store: one that nobody refers to any more can stand for a new one
(`Unused`). A limit of 1 and three spans let the store fill, overflow and be trimmed. A limit of 2 per event
lets an event be empty, in between, and full; the limit itself is checked at 1 with two hashes, where
nothing but the test in `AddVulnerability` keeps a second finding out. Three frames of the application, each
ordinary, generated or hidden, below the longest call of a library, and two recaptures let the search end in
each of its ways: in the trace, after its gap, by a recapture, at the end of the stack, and by giving up.
One and two hashes per derivation enter one sink once and again; that the number does not matter is proved.
Two messages show that a reader stops where a message ends; the findings have every kind of evidence, a
location by line, by method and none, with headers of one, two and three bytes. In `start_up` one
application package precedes `config` by import path, and heartbeats begin before the last package with
sinks is initialized. What does not depend on the bounds is proved below.

**Symmetry and views.** Goroutines, annotations and hashes are interchangeable where no liveness is checked.
The views leave out what cannot influence the future: the contents of an annotation nobody refers to (it is
written before it is used again), and the finding of a goroutine that is not reporting.

**Deadlock.** In the runs of `Reporting` an identifier of a span is used up when its key stays in the store
dead: with one or two identifiers the host program then has nothing left to do. The runs of the store and
those of `StartUp` check for deadlock. `Config`, `Sinks` and `EventTransport` end.

**Fairness.** `reporting_liveness` assumes that a goroutine inside `Report` or `Finish` keeps running (weak
fairness: Go schedules every runnable goroutine), and that a `sync.RWMutex` serves a waiting writer or
reader even if the lock is taken again and again (strong fairness: a waiting writer holds off later readers,
and its unlock lets waiting readers in). Nothing is assumed of the host program: it need never report or
finish. `start_up` assumes that `init` functions return, that somebody starts the tracer (`main` can), and
that the telemetry client then keeps sending heartbeats.

## Where code and words differ

* `documented_limit`: README says `DD_IAST_MAX_CONCURRENT_REQUESTS` is the maximum number of requests
  processed concurrently. Two requests that both pass `trimStore` before either stores exceed it. What does
  hold is `CapacityBound`.
* `event_guarded`: the event is declared to be accessed under its lock. `Finished` attaches it by reference,
  and a report that got the annotation earlier appends to it under the lock while the serializer reads it
  without.
* `analyzed_tag`: a report that arrives between the removal of an annotation and the end of `Finish` makes a
  second one for the same span, draws again, and can tag a span that carries findings `0`.
* `constants.go:12` says that the tag is 1 when the request was analyzed. The span of a report without one is
  started with that tag (`vulnerability.go:16`). If the store is full, or the limit is 0, nothing is analyzed
  and nobody changes the tag, so the span finishes with it. `OrphanTagged` of `reporting_orphan` says exactly
  this: the tag of the decision, or 1 where there was none.
* `start_up_early_application`: `cmd/app/main.go:24-25` says that a sink can run before the `init` functions
  of this repository and must not panic. Sinks do ask `config.Enabled`, which is false until `config` is
  initialized; but `spans`, which has the store, is initialized later, after the tracer. A package of the
  application whose turn comes in between, `example.com/db` say, that imports the tracer and `crypto/md5`,
  panics when its `init` function hashes; it panics with IAST disabled too when it finishes a span.
  Importing `spans`, directly or through any package, avoids it: `NoPanicIfSpansImported`.
* README:48 says integers outside a range are clamped. A negative one for an unsigned setting is not parsed
  and falls back to the default, with a warning. No run shows this: it follows from `Parsable` in `Config`,
  where it counts as a value the parser rejects.

## What is proved

All theorems are about the specifications as they stand, for all values of the constants that meet the
assumptions of the modules: finitely many goroutines and spans, traces of any shape (the root of a root is
itself), limits within the integers of the platform, and the ranges the configuration leaves.

* **`StoreTypeCorrect`, `StoreShares`** follow from one inductive invariant, `LocalInv`: a goroutine that
  holds a span keeps it alive, has a root inside `AnnotationFor`, and an annotation from the store is either
  still there or its root has been finished. The type invariant alone is not inductive: that a root is a
  span depends on where the goroutine is.
* **`StoreCapacity`**: `CapacityBound` is not inductive either, since it says nothing of the goroutines that
  were told there is space and have not used it. The invariant counts them: the stored annotations and the
  *pending* goroutines are together at most the limit less one plus all goroutines. A step to `compute` with
  space happens below the limit (`ThresholdBelowLimit`: also if the threshold overflowed), and storing turns
  one pending goroutine into one entry.
* **`StoreImplementsRegistry`**: each step of the store is a step of the registry or stutters, given the
  invariants above. The registry's bound is the one just proved.
* **`ReportingUsesStore`**: every step of `Reporting` is a step of the store or leaves it alone, so that all
  of the above holds of it (`ReportingImplementsRegistry`).
* **`ReportingTypeCorrect`, `EventsStayWithinLimit`, `EventsHaveNoDuplicates`**: `LockInv` says who holds
  which lock in which phase and that readers keep writers out. `EventInv` adds `RoomToAppend`: between the
  check and the append an event has room for the finding, and does not hold it. Two writers hold different
  annotations (`OneWriter`), so nobody disturbs it.
* **`StackIDsAlwaysResolve`**: that published identifiers have stacks is inductive together with what the
  writer of an event owes it in each phase (`ResolvesInPhase`): all vulnerabilities but the one being
  recorded resolve already (`StackInv`).
* **`PublishedEventsDetached`**: an attached event has left the store for good, since an annotation is
  stored under one key at most (`StoredOnce`) and is not stored again once it was removed
  (`RemovedForGood`); only sampled ones hold vulnerabilities (`EventsSampled`).
* **`OrphansDelivered`, `OrphansTagged`** rest on two invariants. `OwnSpan`: nobody but the goroutine that
  started an orphan span works on it, and it is the root of nothing else. `OrphanInv`: that goroutine alone
  has its annotation (`Exclusive`), the tag is that of the decision, or the 1 of the start if no annotation
  was stored, and the event holds nothing before the
  append and that one finding after it. The other goroutines are shown to leave all of it alone
  (`Undisturbed`), whatever they do to the store.
* **`HeartbeatTypeCorrect`, `EventsConserved`, `HeartbeatImplementsLedger`**: what a heartbeat has taken out
  of a counter and not submitted counts as pending; one lemma per step says what it does to the pending
  events.
* **`StartUpImplementsLedger`**: every step of the start is a step of the counters or leaves them alone, so
  the two theorems above hold of it.
* **`ConfigurationComesFirst`** and **`NoPanicIfSpansImported`** hold for any packages and import paths.
  `OrderInv` says that what is initialized has initialized imports; `spans` imports `config`, so that the
  store is made for the loaded value, and heartbeats, which `spans` registers, come later still. Under
  `ApplicationImportsSpans` code of the application runs only with the imports of its package done, that is,
  with a store. The condition is about the imports of a program, not about this repository: without it
  `NoPanic` is false, as `start_up_early_application` shows.
* **`SettingsWithinRange`, `SettingsClosest`, `SettingsReported`**: what `Load` does to the setting it loads
  (`LoadInRange`), and that it leaves those before it alone, for any range within `int`.
* **`SinksTypeOK`, `EveryUseIsReportedOnce`, `ReportsAreLocatedAtTheCaller`, `IndicesStartAtTheLocation`,
  `LocationsNameTheCaller`** follow from `SinksInv` (`SinksCorrect`), for applications of any depth below
  any call of the libraries, key derivations with any number of hashes, traces and recaptures of any length,
  both tools and both layouts of receivers.
  Its parts: the inputs stay what was chosen at the start (`InputsOK`); what is captured are frames of the
  call stack, in order, each at its own index (`TraceOfTheStack`); and the reports so far are those of the
  uses so far (`ReportsOfTheUses`). The facts about single calls (`SkipsTheConstruction`: the frames a sink
  lists are, among those of the call, exactly the library's construction of the algorithm) are shown call by
  call, since the injection rules name finitely many. The hard part is `CallerAhead`: while the search goes
  on, no visible frame it has passed is the caller's. A scan passes a frame only if it is to be skipped, so
  this is kept within a trace; a gap in the trace ends the scan; and a capture that starts deeper is shown
  to begin at or before the first frame not yet seen, and to skip at least one visible frame more than the
  last. The captured frames are found by their rank among the visible ones, so that "the nearest" and "the
  next" are least elements (`SmallestElement`). The one assumption about sizes is that a call stack has
  fewer frames than a 32-bit number.
* **`RetainedTextBounded`**: what each constructor makes of any text is within the limit, and exactly as
  long if it is marked as cut; an event only ever takes such values (`EventCorrect`). `truncation.String`
  tests the bytes first: that a text that fits in bytes fits in characters needs `BytesBound`, that no text
  has more characters than bytes. `Bytes` is a fold, and folds are recursive functions underneath: that the
  recursion has a solution is shown with an explicit one (`ASumExists`), and the bound by the smallest set
  of characters that would break it.
* **`RoundTripCorrect`** says that every message is accepted and read as what was written, for any inputs of
  the constructors, any number of messages and any newer field in any of their maps. The work is in
  `Readers`. There a reader of a field and a reader of an element are operator constants: the provers cannot
  instantiate a lemma with an operator as a parameter, but a module with constant operators can be
  instantiated, once for each type. `MapEncodingRoundTrip` and `ArrayEncodingRoundTrip` hold for all of
  them. A loop of a generated reader is a fold, hence a recursive function: that it has a solution is shown
  once (`RunExists`), and that the rounds for the first i fields read these and no more, by the least i for
  which they would not (`SmallestNumber`). An encoding of a map is one of its parts' encodings, or has the
  newer field in front (`EncodingOfMap`, `EncodingOfFlat`), and skipping looks no further than the end of
  what it skips (`SkipLocal`). Bottom up, each type is then shown to read every encoding of what it wrote
  *and nothing behind it* (`EventIsRead`), which is what makes the next message readable. The inductive
  invariant is `TransportInv` (`TransportCorrect`): what is still to be read is an encoding of each event
  sent and not yet received, end to end. `RoundTrip` alone is not inductive, since it says nothing of the
  payload.
* **`CutMessageIsRejected`**: a message that lost any number of tokens at its end is rejected. A cut of two
  joined payloads is a cut of the first, or leaves it whole and cuts the second (`CutOfJoin`). So a cut of a
  map or of an array goes through one of its parts, which its reader rejects, or leaves too few of them, and
  the loop, which the header told how many there are, runs out of tokens (`WrittenMapCutRejected`,
  `WrittenArrayCutRejected`). Without the theorems on reading it would not go through: that the parts before
  the cut are read, and exactly those, is what they say. The one delicate case is a pointer, where a cut
  value must not be taken for nil (`MapIsNotNil`).
* The theorems on messages assume of the inputs their types (`InputsAssumption`: fields are of the Go types
  the constructors take, enumerations are among the declared constants, and a finding has at most one
  evidence and one location) and of the newer value that it is one value of MessagePack
  (`NewerValueAssumption`).

Model-checked only:

* `SizeBound` of `event_transport` (with headers of one to three bytes; those of five need texts of 64 KiB)
  compares numbers with the lengths of field names and of enumerations'
  strings, and the provers know no length of a string. `SameDocument` compares with a reader that is
  recursive (`EventDocument`), for which the provers have no rule;
* all liveness: `CallsReturn`, `EventsSubmitted`, `BuildTimeReported` (fairness and `ENABLED` are out of the
  prover's reach).

## What is not modelled

* **The compilers** that apply the injection rules, and `internal/build`, whose `Tool` and `Instrumented`
  are constants of a build. What the rules inject is modelled: reports (`Sinks`), `init` functions
  (`StartUp`) and the call of `Finished` (`AnnotationStore`).
* **The locks inside the tracer's span and inside the buckets of the map**: `annotation.go:55` says that a
  trim within the callback would deadlock, and the code does not do it; the calls are atomic here. No code
  of this repository holds one of them while it takes the other, but `SetTag` in the callback of
  `LoadOrCompute`, which always takes them in the same order.
* **Hashes**: in `Reporting` a model value, in `EventModel` its input. Two vulnerabilities with the same
  32-bit hash are duplicates by design.
* **Reading into an event that was used before**: nothing in the repository calls `UnmarshalMsg`. The model
  reads into a fresh target; a slice's capacity is taken to be its length.
* **Sizes of the store's table** (`annotation.go:25`, `WithPresize`), which belong to `xsync`.
* `RequestTainted` and its metric: nothing writes it yet. `taint` holds declarations only.
* `benchmarks/overhead/runner`: a sequential command, one pass over a fixed list; what is left is input,
  output and statistics.
* `_integration/otelc`: an integration test of the instrumented build; its comments are quoted above where
  they state what the library promises.

## The plan

Done:

1. `AnnotationRegistry`, `AnnotationStore`: the store and its races; refinement; proofs of types, capacity,
   sharing.
2. `Reporting`: events, locks and delivery; liveness; proofs of limit, duplicates, stack identifiers,
   detachment, orphan spans.
3. `CountLedger`, `Heartbeat`; proofs of conservation and refinement.
4. `StackFrames`, `SelectLocation`, `Sinks`: frames, the choice of one, and the sinks of both tools; proofs
   of all their invariants.
5. `Config`: runs and proofs.
6. `StartUp`: package initialization, the first heartbeats, sinks and spans before the store exists; proofs.
7. `EventModel`, `MessagePack`, `EventCodec`, `EventTransport`: evidence and truncation, the codecs, and the
   way of an event; proofs of what texts retain, and that a reader takes back what was written and rejects
   what is cut (`Readers`, `RoundTripProofs`, `EventTransportProofs`).

Left, when the code gives occasion:

8. A lock-order model of the map's buckets, the span's lock and the annotation's lock, once code of this
   repository holds two of them at once.
9. Sources and taint, once `taint` has code: who adds a source to an event, and `RequestTainted`.
