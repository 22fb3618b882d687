# derrors: verification project

TLA+ models of the `derrors` Go module (canonical errors with a code and a
reason, and their projection to HTTP and gRPC), model-checked with TLC, with
theorems checked by TLAPS. Paths below are relative to the repository; `src/`
is its root.

## 1. The system

| component | code | state | operations | who calls it |
|---|---|---|---|---|
| segment trie | `mapper/internal/segmenttrie/trie.go` | nodes keyed by segment, a value and a pattern at some nodes | `Insert`, `Match`, `MatchWithPattern` | `mapper.New` inserts; `HTTPStatus`, `GRPCStatus` and `Explain` look up, from any goroutine, without a lock |
| mapper | `mapper/mapper.go`, `builder.go`, `options.go`, `helpers.go`, `defaults.go` | package tables; a builder inside `New`; the finished mapper's maps and tries | `New`, six options, `HTTPStatus`, `GRPCStatus`, `Status`, `Explain` | the application builds it, `httpx` and `grpcx` query it |
| error value | `derrors.go`, `option.go` | heap objects that share `Details` maps and `Cause` pointers | `E`, `WithReason`, `WithMessage`, `WithDetail`, `WithDetails`, `WithCause`, `Unwrap`, the options | every domain function |
| reason, code | `reason/reason.go`, `code/code.go`, `code/codes.go` | none (a pointer receiver for `UnmarshalText`) | `Normalize`, `Parse`, `Validate`, `MustParse`, `MarshalText`, `UnmarshalText` | the mapper (`Normalize` of rule prefixes), applications |
| gRPC edge | `grpcx/grpcx.go` | one request at a time | `UnaryServerInterceptor`, `ExtractDescriptor` | the gRPC server; clients |
| HTTP edge | `httpx/httpx.go` | one response at a time | `Writer.Write` | HTTP handlers |
| adapter | `adapter/convert.go` | none | `ToDescriptor`, `ToView` | logging, buses |
| interfaces, wire types | `apis/*.go`, `api/derrors/v1/*` | - | declarations and generated code | - |

Hard behaviour, and what makes each component correct:

* **Segment trie.** A lookup backtracks: at each node it takes the literal
  branch, then the `*` branch, and keeps the deepest rule seen. It is right when
  a literal dead end never hides a `*` rule, when ties between rules of one
  length go to the rule whose first difference is a literal (nothing in the code
  says so: it follows from a strict `>` and the order of the branches), when a
  refused prefix leaves nothing behind, and when the two copies of the search
  agree. Lookups run concurrently and unlocked: they are safe because the trie is
  complete before the mapper is returned.
* **Mapper.** `New` applies options in order, ranges over Go maps in random
  order, and stops at the first invalid prefix. It is right when the result - a
  mapper or an error - is a function of the option list, whatever the iteration
  order and whatever other calls of `New` are doing with the package tables, and
  when `Explain`, a separate code path, tells the truth about `Status`.
* **Error value.** The `WithX` helpers are promised to be copy-on-write while
  they share maps and causes; errors are shared between goroutines.
* **Reason, code.** Text comes from outside and goes out again. They are right
  when `Parse`, `Validate` and `Normalize` are views of one format, when a text
  that is refused leaves a receiver alone, and when the format, written three
  times (a regexp, a check of prefixes in `mapper` and one in `segmenttrie`) and
  read a fourth time by the byte scan of a lookup, is one format.
* **Edges.** One step of several can fail (attaching details, marshalling,
  writing), a type assertion decides what is "ours", and a status may be any int
  an option gave. They are right when a failure does not go out as a success, when
  what a client is told about the status is what the mapper said, on both
  transports, and when the first answer decides an HTTP response.

`PROJECT.json` lists the hazards one by one, at their lines, with the properties
that cover each.

## 2. Modules

| module | what it is | code |
|---|---|---|
| `Segments` | prefixes and reasons as sequences of segments; which rule covers a reason, which of two rules wins | `trie.go` |
| `LongestPrefixMatch` | abstract: a dictionary of rules that answers in one step with the deciding rule | what `New` and the mapper rely on |
| `SegmentTrie` | the trie and each caller's search, one recursion step of `dfs` per action | `trie.go` |
| `MCSegmentTrie` | instances for TLC | |
| `SegmentsProofs`, `SegmentTrieProofs` | lemmas and theorems | |
| `DefaultTables` | the two package tables | `defaults.go` |
| `MapperOptions` | options, normalisation, the int to `codes.Code` conversion | `options.go`, `reason.go` |
| `MapperContract` | abstract: `New` returns in one step what the option list determines | the policy in `mapper.go:161-199` |
| `Mapper` | `New` step by step for several overlapping calls; the queries | `mapper.go`, `builder.go`, `helpers.go` |
| `MCMapper` | instances for TLC | |
| `MapperProofs` | lemmas and theorems | |
| `GoMaps` | Go maps as functions on the keys present | the copy loops in `derrors.go` |
| `ErrorContract` | abstract: an error is a value; a helper returns a value with one thing changed | the comments on `Error` |
| `ErrorValues` | errors and maps as objects behind pointers; a copy one entry per step; several goroutines | `derrors.go`, `option.go` |
| `MCErrorValues` | instance for TLC | |
| `ErrorValuesProofs`, `ErrorRefinementProofs` | lemmas and theorems | |
| `Texts` | strings as characters with widths and lower-case forms | package `strings` |
| `CodeSyntax`, `ReasonSyntax` | the parsers and (un)marshallers | `code.go`, `reason.go` |
| `SegmentSyntax` | dotted text taken apart: the two checks of prefixes and the byte scan | `mapper.go`, `trie.go` |
| `TextExchange` | a value made of text in one process and unmarshalled in another | callers of both packages |
| `MCTextExchange` | instance for TLC | |
| `TextExchangeProofs` | lemmas and theorems | |
| `StatusPolicy` | the status an option list determines, as operators of that list | the policy in `mapper.go:161-220` |
| `LibraryCodes` | the declared codes and the statuses their comments offer | `codes.go` |
| `EdgeMapper` | what the edges share: a mapper, errors, the adapter's projections | `convert.go`, `mapper.go:224` |
| `GRPCEdge` | a chain of unary calls through the interceptor | `grpcx.go` |
| `HTTPEdge` | a response and the calls of `Writer.Write` on it | `httpx.go` |
| `Service` | both edges with one mapper | |
| `MCService` | instances for TLC | |
| `StatusProofs`, `ServiceProofs` | lemmas and theorems | |

`Mapper` uses a trie as a dictionary that answers with the deciding rule: that is
`LongestPrefixMatch`, which `SegmentTrie` is proved to implement. `Segments` gives
both the one definition of "covers" and "beats".

### State and actions against the code

* **SegmentTrie.** `nodes` are the trie's nodes, named by the path from the root;
  `rule` gives value and pattern of those with `hasVal`. `Insert` is the whole of
  `Trie.Insert`: check every segment, make the path, store value and pattern (a
  second `Insert` of a prefix replaces). `InsertInvalid` is its error return.
  `Publish` is the end of `New`: no insert after it, no lookup before it. `Call`
  enters `Match` or `MatchWithPattern`. The code holds two copies of the search, and so
  does the module: `MatchEnter` ... `MatchFinish` are the `dfs` of `Match`,
  `PatternEnter` ... `PatternFinish` that of `MatchWithPattern`, each with its own test
  of the next segment, comparison of depths and place to resume at, so that a change to
  one copy is a change to one family of actions. `XEnter` is the first half of `dfs`
  (weigh the node, parse the next segment), `XExact` and `XWildcard` its two recursive
  calls, `XReturn` its return to the call for the parent node, `XFinish` the return of
  the lookup. What they share (`Branch`, `ReturnUp`, `ReturnOut`) is how Go calls,
  returns and reads a map. The recursion stack needs no variable: the path of the node
  tells which branch each call on the stack is in. `Match` has no `bestPat`; in its
  copy the `pattern` of `best` is a history variable, and its answer leaves it out.
* **Mapper.** One frame per call of `New` holds the builder and the locals.
  `ApplyOption` applies one option; `BuildHTTPTries`, `VisitCode`, `InsertRule`,
  `StoreTrie` and `BuildGRPCTries` are the two loops over maps, `VisitCode`
  picking any code not visited yet as Go's `range` may; `Freeze` copies maps into
  the result. `tables` are the package variables that all calls read. Queries are
  operators on the finished mapper (`StatusOf`, `ExplainOf`), which nothing
  changes after `New`.
* **ErrorValues.** A pointer is a position in `errors` or `maps`, 0 is nil. A
  helper's first step (`WithReason`, `Make`, ...) reads the receiver; `CopyEntry`
  and `StoreEntry` are the iterations of the copy loops in any order; `Attach`
  sets `cp.Details`; `Return` hands out `&cp`, after which anyone may derive from
  it. `NewMap` and `SetMap` are what the owner of a map passed to `WithDetails`
  does to it before and after the call. `E` with options is `E` followed by calls
  of the helpers by the same goroutine.
* **TextExchange.** `Type` is the caller typing; `Convert` is Go's conversion
  `code.Code(s)` or `reason.Reason(s)`, which checks nothing; `MakeByParse` and
  `MakeByMustParse` call the parsers (a panic ends the behaviour). `Marshal` is
  `MarshalText` on whatever the sender holds, `UnmarshalSent` is `UnmarshalText` of
  that text into the receiver's field, `UnmarshalTyped` the same on text nobody
  marshalled, as a configuration file is read.
* **GRPCEdge.** An error is the list of its layers as `errors.Unwrap` walks it.
  `HandlerReturns` is the interceptor up to `base`: nil, "not ours", or the
  mapper's status; `Asserted` is its type assertion, which sees the outermost layer only. `Attach` is `anypb.New` and `WithDetails`, both of which may fail.
  `Answer` is the gRPC server and client (external): `status.FromError`, and a code
  that must fit an int32. `FailedCallReturns` makes the caller a service whose own
  handler returns the failure bare, wrapped, or as the cause of a new error.
* **HTTPEdge.** `CallWrite` is `Write` up to the header map, `WriteHeader` and
  `WriteBody` its two calls of `net/http` (external); the errors of both are
  ignored in the code and so change nothing here. `HandlerWrites` is a handler that
  had begun an answer, `Recover` a middleware that survives the panic of
  `WriteHeader` and may call `Write` again.
* **Service.** `options` is the list the mapper was built from. The edges see a
  mapper only through `Status`, so they use `StatusPolicy`, what `MapperContract`
  says a finished mapper answers.

## 3. Runs

| run | question | bounds, and why they are enough |
|---|---|---|
| `trie_deep` | Does one search, at every step, keep the invariant, and answer as the dictionary does? | Every pair of prefixes of 1-3 segments over two literals and `*`, two values, reasons of up to 3 segments. Ties, shadowing and dead ends need two rules and depth two; depth three puts a tie above a dead end. |
| `trie_callers` | Do searches interleave, the two copies of the search agree step by step, never go back, and end? | Two callers, each with either lookup, two values, up to three of four accepted prefixes that share nodes, tie, shadow and dead-end (a fifth is refused), one reason of three segments and one with a malformed segment; a third rule makes one rule win over two. |
| `trie_malformed` | Does a malformed reason match nothing, as `Match` says? | Violated by one rule `a` and the reason `a.<malformed>`. |
| `mapper_new` | Is the result of `New` determined by the options, in every iteration order? Does `Explain` agree with `Status`? | Every list of up to three of thirteen options over two codes (one with library defaults) and both transports; three options put one default, override and rule, or two rules for one spelling and one more, on a code. `CodeModulus` 64 stands for 2^32: -1, 64 and 70 are the values that do not fit. |
| `mapper_two` | Do overlapping calls of `New` affect each other? | Two calls, lists of up to two of four options. |
| `mapper_override` | Do prefix rules beat overrides, as the options say? | Violated by one override and one rule. |
| `mapper_parse` | Does every accepted prefix parse as a reason? | Violated by a rule of five segments. |
| `mapper_canceled` | Is `canceled` 499 by default? | Violated by `New` without options. |
| `errors_shared` | Do shared pointers and entry-by-entry copies behave as values? | Two goroutines, three errors, three maps, two keys with two values: enough for a receiver with details, a key of both maps beside a key of one, a caller's map, and a second goroutine deriving from the same error during the copy, if the receiver has no details yet. Two goroutines that copy one details map at a time need a fourth error, which is more than five minutes of states: `CopiesAreExact` and `ErrorsAreValues` cover them, as they do every bound. |
| `syntax` | Do the parsers agree with each other, do values survive a round trip, do the readers of dotted text agree? | Every text of up to four of eleven characters, one of each class (letter, capital, a capital of three bytes that lowers to one ASCII letter, digit, `_`, `-`, `/`, `.`, blank, `*`, other non-ASCII), and every text of letters and dots of up to ten: five segments, both ends of both length ranges, scaled down. |
| `edges` | Does a failure arrive as a failure, described truly, the same over both transports? | Chains of three calls (one to fail, one to relay it, one to relay the relay) beside two `Write`s on one response; ten option lists with a status of every class `net/http` and the wire tell apart: final, informational, 101, without body, refused, OK, beyond int32, negative, and a rule for one reason only; three sets of errors that differ in code, in reason alone, or in that one cannot be marshalled. `CodeModulus` 4096 stands for 2^32: 2048, and -1 when it wraps, are above int32. All library codes, for `DefaultsAsOffered`. |
| `extract` | Does `ExtractDescriptor` read back what the interceptor attached? | Violated by one call. |

The five violations are disagreements between code and comments or README, quoted in
`PROJECT.json` under `findings`; the code is modelled as it is.

**Fairness.** Only `EveryLookupReturns` needs it: `FairSpec` has weak fairness on
`Search(c)`, the steps of a caller that is inside a lookup. A search takes no lock
and waits for nobody, so a goroutine that the Go scheduler runs at all goes on.
Whether a caller ever starts a lookup is left open.

**Deadlock** is checked except where the system really stops: every call of `New`
has returned (`Mapper`), the text has been delivered or a panic has ended the
sender (`TextExchange`), the calls and writes are over (`Service`).

**Symmetry** is used only where no property is a liveness one.

## 4. Theorems

All hold for every value of the constants, under the named assumptions of
`Segments` and `SegmentTrie` (`*` and the malformed segment are no accepted
segments; prefixes and reasons are sequences of these three) and of `ErrorValues`
(no cause and a foreign cause are no positions of errors; bounds are natural
numbers), and of `MapperOptions` ("" is no code), `EdgeMapper`, `GRPCEdge` and `HTTPEdge` (a
`codes.Code` holds the codes gRPC defines, an int32 every HTTP status; errors are
records of code, reason and "can be marshalled").

* `SegmentsProofs`: lemmas about paths - what lies below a node splits into what
  lies below its children, which paths a search leaves for later when it enters a
  branch, how a path and its parent compare.
* `SegmentTrieProofs`:
  * `WellFormed` - types, and `TrieShape`: the nodes are the root and the prefixes of
    the rules.
  * `SearchCorrect` - the inductive invariant of a search: the node it is at and
    the best so far cover the reason (`SearchSound`); every covering rule lies
    below a branch still to take, is the best so far or is beaten by it
    (`SearchComplete`); what is still ahead loses ties against what is behind
    (`SearchOrder`, which is why a strict `>` on depth suffices). Correctness at the end alone
    is not inductive: it says nothing about a search half-way, which is what the
    three conjuncts add.
  * `TrieImplementsLPM` - `SegmentTrie` implements `LongestPrefixMatch`: either
    `Finish` maps to the answer, other steps of a search to stutters.
  * `TheTwoSearchesAgree` (`LookupsAgree`) - at one place of the trie the two searches carry one
    best rule, and they answer alike for one reason. That the copies take the same steps
    (`SameSteps`) is not enough, for the callers run at different times: a search's best
    rule is not ahead of a search at the same place, which has therefore weighed it
    (`SamePlaceSameRule`), and two rules never beat each other (`BeatsOneWay`).
  * `SearchesMoveOn` (`SearchMovesOn`) - `Ahead(c)` is what a search has still to come to: the
    rest of its call of `dfs`, of the calls on the stack, and every node it has still to
    enter. A step on, down or up (`EveryMove`) comes to a member of it and leaves it
    smaller. `StepsRunOut` adds that a trie is finite, so that the number of steps
    left is at most four for each node and falls with every step.
  * `TrieTypes`, `SearchesAreSound` and `TiesAreOrdered` are the
    other invariants the runs check.
* `ErrorValuesProofs`, by the invariant `Typed /\ Sealed /\ Copied`:
  * `NothingSharedIsWritten` (`Sealed`) - a map being stored into is known to one
    goroutine and to no error. From it, a step of one goroutine leaves every other
    map as it is (`StepEffect`, `ContentKept`), on which the rest stands.
  * `CopiesAreExact` (`Copied`) - needed for types too: an entry stored is one of
    the old map's.
  * `Immutability` - no step changes what a published error says.
  * `CausesHaveNoCycle`, `TypeCorrect`.
* `ErrorRefinementProofs`: `ErrorsAreValues` - `ErrorValues` implements
  `ErrorContract`. A helper's first step maps to the contract's `Call`, `Return`
  to `Return`, and the copy between to stutters: the value that will be returned
  is fixed at the start, since nobody stores into what is being read.
* `StatusProofs`: `StatusInRange` - the status an option list determines is an int,
  and for gRPC one that `codes.Code` holds. `OneDecides` is behind it: among the
  rules that cover a reason one decides over every other, since a finite total
  order has a first element; without it the `CHOOSE` in `Status` would say nothing.
* `MapperProofs`. The invariant says what each phase of `New` has: after `n` options
  the builder's maps hold the last of the first `n` for every code (`LastGiven`) and
  its rule lists those of the first `n` in order (`RulesFrom`); the trie at hand holds
  the first `inserted` rules of its code (`TrieOf`); every finished trie is the one the
  options determine, and a code with rules is still to visit, at hand, or has its trie
  (`Compiling`). The last is what the order of a map iteration could break, and none
  of it is visible in what `New` returns, so the properties alone are not inductive.
  * `MapperImplements` - `Mapper` implements `MapperContract`: the return maps to the
    contract's `ReturnNew`, the steps before to stutters. It rests on `MapperAnswers`:
    a mapper frozen from such a builder answers every query as `Status` says, where
    the last insert for a prefix meets the last option for it (`TrieComplete`) and
    the search of the trie the option that decides (`TrieDecides`).
  * `Types`, `ExplainIsStatus` - the invariants of the runs.
* `ServiceProofs`, by an invariant that relates each stage of a call to the stage
  before (`status` is what the mapper says of `err`, a descriptor belongs to one of
  the errors, an answer is what was returned or made up by the client) and each
  stage of a `Write` to the list of writes:
  * `NoFalseSuccess`, `DescriptorsAreTrue`, `TransportsAgree` - for any options,
    errors and length of the chain. The descriptors of earlier calls travel in the
    causes of later ones, so the invariant speaks of every layer of `err`.
  * `FailuresAreRelayed` - the action property `RelayedAsIs`.
  * `FirstFinalWins` - for any number of writes: as long as no final status was
    written the response is open, and afterwards nothing changes its status line.
  * `EdgeTypes`.

  * `LibraryAnswersAsOffered` (`DefaultsAsOffered`) - a mapper without options
    answers a declared code from the tables for every reason, since with an empty
    option list nothing chooses and no rule covers; the two tables are then compared
    with the comments on the codes one code at a time.
* `TextExchangeProofs`, for every alphabet, every text and every length of it.
  * `CodeNormalizeIdempotent`, `ReasonNormalizeIdempotent` - statements about
    `Normalize` alone. It trims and then maps characters; trimmed text has no blank at
    either end, the map makes a blank of nothing else and maps what it made to
    itself, so a second pass finds nothing to do.
  * `ParseIsCanonicalCorrect`, `TypeCorrect`, `RoundTripCorrect`,
    `ReceiverStaysCanonicalCorrect` - the invariants of the exchange follow: `TypeOK` is
    inductive as it stands, because it says that what is on the wire is canonical,
    and canonical text is what every parser returns as it is.
  * `OneGrammarCorrect` - the regexp speaks of positions of dots, the checks in `mapper` of
    the segments `strings.Split` cuts there. The bridge is that the k-th dot
    exists and is unique (`RankOfCut`, `EveryRankIsTaken`, from the cardinality of
    the dots before a position), so that the segments are the stretches
    between neighbouring dots (`SplitAtCuts`) and a condition on every
    stretch is one on every segment (`RegexpIsSegments`).
  * `ScanStopsAtMalformedCorrect`, `ScanReadsSegmentsCorrect` - one step of the byte scan
    at the start of a segment reads that segment or refuses it
    (`ScanReadsLiteral`); from the first refusal backwards, the whole scan is the
    beginning of the split (`ScanAllIsPrefix`). `StartsExist` and `ScanAllReads` show that
    the recursive function the scan is written with exists, which a definition by
    recursion does not say by itself.

The proofs about texts assume `CharAssumption` (blanks are neither letters, digits nor
the separators; lowering gives characters, never a new blank), `ReasonAssumption` (a
reason has at least one byte, and the limits are natural numbers) and
`PriorAssumption` (what a receiver held before was parsed). Where a fact about all
lengths would take induction - "every segment", "the k-th dot", "the rest of the
scan" - it is had from a first or last position instead (`LeastOf`, `GreatestOf`):
a set of natural numbers has a least element, which the library states without an
operator parameter.

**Model-checked only:** `EveryLookupReturns`: liveness under fairness is out of the
prover's reach. What carries it is proved (`StepsRunOut`); what is left to TLC is that
a lookup which can take a step, and whose goroutine runs, takes it. Every invariant and every action property of the passing runs is
the statement of a theorem.

## 5. Not modelled

* Nil receivers (`(*Trie)(nil)`, `(*Error)(nil)`): `New` hands out no nil trie,
  and the helpers dereference their receiver.
* A caller that writes to the exported fields of an `Error`, or to a `Details` map
  it read from one: the comment on `Details` asks for it to be treated as
  immutable, and the language does not enforce it.
* The wording of `Error()`, of `Explain` and of errors; what goes in and out is modelled,
  not its text.
* A handler that returns a nil `*derrors.Error` as its `error`: the assertion at
  `grpcx.go:90` succeeds and line 96 dereferences it, so the interceptor panics. Errors
  of the model are never nil.
* The return of `New` when `Insert` refuses a prefix that `New` has accepted
  (`mapper.go:81-83`, `101-103`): the two checks are one formula on segments, so an
  action for it could never be taken. That the two loops over bytes are one check
  is a statement about text, `ScanReadsSegments`.
* `ToView` copying details: `*Error` has no method `ErrorDetails`, so that branch of
  `convert.go` never runs, and no property says whether it should.
* `helpers.go:103-167`, which nothing calls; `apis`, which declares; generated code.
* In the edges: `Content-Type`, the fields of `Meta` and `Extras` that are copied and
  decide nothing, nil mappers, panics of a handler or of `MetaFn`, streaming calls
  (the package has no interceptor for them).
* `String()` of codes and reasons, the identity.

## 6. Plan

Every invariant and action property of the passing runs has its theorem. What is
left to strengthen is between the components rather than in them:

1. `Mapper` asks its tries with `IsBest`, and `TrieImplementsLPM` says that a trie answers
   so: the two meet in `Segments`, by name. A theorem over an instance of
   `SegmentTrie` per code would say it of one composed system.
2. `SegmentTrie` takes segments as atoms, `SegmentSyntax` takes them apart into
   characters. `ScanReadsSegmentsCorrect` and `ScanStopsAtMalformedCorrect` justify the
   step from one to the other; a refinement that maps texts to sequences of
   segments would state it as one.
