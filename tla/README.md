# velocitron-core, specified in TLA+

This directory holds TLA+ modules that model the velocitron Petri-net runtime
(`src/implementations/python/src/velocitron/`), TLC configurations that check
them on small instances, and TLAPS proofs that carry the main safety results to
every value of the constants. Line numbers of the modelled code are in the
`map` section of `PROJECT.json`; "the code" below is the Python implementation
unless TypeScript is named.

## 1. The system

Velocitron executes coloured Petri nets. A *net* is data: typed places,
transitions with input arcs (`consume`, `read`, `inhibit`, each with a weight
and an optional filter), a guard, produce templates, an optional timer, and the
name of a *handler*. An engine finds a *binding* (which tokens each arc takes),
runs the handler on it, and deposits what the handler returned.

| Part | State | Operations | Talks to |
|---|---|---|---|
| **Runtime** (`runtime.py`) | `marking`, `_attempt`, `_active`, `_lane_in_use`, `_failures`, `_blocked_transitions`, `_injection_attempt`, status, `_change` event | `start`, `stop`, `inject`, `inject_batch`, `cancel_scope`, `_admit`, `_execute`, `_invoke`, `wait_idle` | calls the engine's `reserve`, `settle`, `inject_tokens`; runs handlers as asyncio tasks or in worker threads; is called by sources, timers and handlers |
| **Engine** (`engine.py`) | none between calls, except its attempt counters | `enabled_transitions`, `select_binding`, `fire`, `reserve`, `settle`, `inject_tokens`, `tick`, `timer_maturities`, `run` | registry, CEL adapter, journal |
| **Token sources and mailboxes** (`runtime.py`) | a queue or pending set per source | `put`, `get`, dispatch, supervise with reconnect | `_apply_arrival` of the Runtime |
| **Native timers** (`runtime.py`, `engine.py`) | clock places inside the marking | compute maturities, wait, advance clocks | marking, `_admit` |
| **Durable journal, tape replay** (`durable_sqlite.py`) | an append-only SQLite table | `record`, `events`, `replay_events` | the engine emits to it; a restarted Runtime takes the replayed marking |
| **Registry and policies** (`registry.py`) | handler and scope tables | lookup, first-found and priority policies | engine, Runtime |
| **Composition** (`composition.py`, `composition-merge.ts`) | none | merge nets by fusing wired ports | parser |
| **Property pass, lint** (`properties.py`, `lint.py`) | none | judge a recorded run, advise on a net | journal records, nets |
| **Schema, parser, contract** (`schema.py`, `parser.py`) | none | parse and validate nets, compositions and tokens | all |
| **Petri-net DSL** (`dsl/`) | none between calls; tables while it compiles | lower sources to contributions, collect and resolve them, emit canonical source, `velocitron check` | schema, Markdown files |
| **Explanation, visualisation** (`dsl/explain.py`, `viz.py`) | none | tell or draw a net, a composition, a view of it | schema |
| **TypeScript port** (`src/implementations/typescript`) | as the Python parts | a synchronous port of engine, composition and DSL | its registry and journal |

### What is hard, and what makes each part right

*Runtime.* One asyncio event loop interleaves firings, injections,
cancellations, timers and shutdown. `reserve` takes a firing's tokens out of
the marking long before the firing's outcome is known, and a failure puts the
*whole place* back as it was. So: overlapping firings must never touch a place
another may roll back; a rollback must be exact; nothing may be lost or
duplicated whichever way a firing ends; a lane's counter must be right on every
exit; no enabled work may be left waiting when something frees it; a failed
transition must be retried exactly when its inputs change; waiting injections
must be applied; `stop` must return.

*Engine.* The binding search is a lexicographic product with a sub-multiset
test; the candidate prefilter must not hide an enabled transition; what is
removed must be what was bound; the run loop's failure budget must stop a
failing net without starving a healthy one; each deposit-violation mode must
leave the marking and the journal in agreement.

*Sources.* A bounded mailbox under three policies (lossless, batch, coalesce)
between a producer and a dispatcher that waits for conflicting firings; a failed
source is reconnected; a failed arrival must not silently end its dispatcher.

*Timers.* A clock is a token: the time written into it may be older than the one
already there, because the writer waited in between.

*Durability.* The tape must say what the marking was, at any crash point, and
replaying it must rebuild exactly that.

*Composition.* The fusion of ports must be the equivalence the wires generate,
and every mention of a fused place must follow it, in arcs, produce
destinations, timers and their bindings, and initial markings.

*DSL.* A document may be written in any order and over several sources. Forward
references, facts told twice in different spellings, order facts that move arcs
after handles have been given to them, and an emission that leaves out what it
can infer: each is a place where two arrangements of the same document could
come to mean different things, or where something written is dropped.

*Explanation, pictures.* They are read instead of the net, so what they leave
out or draw at the wrong node misleads.

## 2. Modules

| Module | What it is |
|---|---|
| `PetriNet` | the net and the pure operations on markings: enablement, removal, deposit, footprint conflict, arrival |
| `AtomicNet` | abstract specification: a marking that changes only by whole firings and whole arrivals |
| `ArcBindings` | computes a transition's bindings from its arcs, for the instances |
| `Runtime` | the asyncio Runtime with the engine calls it makes |
| `MCRuntime` | two small nets for it |
| `RuntimeProofs` | the TLAPS proofs about `Runtime` |
| `DurableRuntime` | `Runtime` with a durable journal, killed and restarted from the replayed log |
| `MCDurable`, `DurableProofs` | its instance, half of the race net, and the proofs about it |
| `Channel` | abstract specification: what a token source is promised about its items |
| `SourceMailbox` | supervisors, mailboxes, dispatchers, `wait_idle` and `stop` on an explicit event loop |
| `MCSources`, `SourceProofs` | its instance and the proofs about it |
| `TimedNet` | abstract specification: the atomic net with maturities in real time |
| `TimedRuntime` | `Runtime` together with its timer task and a clock |
| `MCTimers`, `TimedProofs` | its instance and the proofs about it |
| `Subsequences`, `SubsequenceProofs` | the elements at chosen positions of a sequence, and facts about them and about sequences without repetitions |
| `BindingSelection` | the engine's binding search on ordered places, and the candidate prefilter |
| `EngineRun` | the synchronous engine: `fire`, `inject_token(s)`, `tick` and the `run` loop |
| `PropertyPass` | the property pass, reading the tape of `EngineRun` |
| `MCEngine` | the net they are checked on |
| `EngineProofs` | the TLAPS proofs about the search, the engine and the property pass |
| `JsonValues` | JSON values with the two spellings of a number, their equality and canonical text |
| `NetDocument` | the net document `parse_net` makes or refuses, and the lint on it |
| `Composition` | what `parse_composition` demands, and `merge_nets` |
| `Contributions` | the compiler as a state machine: sources are written, collected, resolved |
| `Emission` | `emit_petrinet`, canonical and compact |
| `DocumentLaws` | what compiler, emission, account and merge promise |
| `Account` | `explain_net` |
| `Drawing`, `MarkdownCheck` | `viz`, `velocitron check` |
| `PictureLaws` | what those two promise |
| `DocumentProofs`, `CompositionProofs` | the TLAPS proofs about the compiler and the account, and about the merge |
| `MCDocuments` | the small documents all of it is checked on |

A definition headed "Variant" is a plausible mistake in the definition that
follows it; no specification uses it. It shows that the properties would notice.

### PetriNet

A place's contents are a bag: a function from token values to counts. Token
order decides which binding the engine finds *first*, and the Runtime's
correctness must not depend on that, so a reservation takes *any* enabled
binding. `Bindings[t]` is the set of token choices a transition's arcs, filters
and guard admit (`take` for consume-mode arcs, `read` for read-mode arcs,
`block` for the tokens whose presence inhibits it); `Enables` is the engine's
test that the choice is a sub-multiset of the places and that no inhibiting token
is there. `Conflict` is `Runtime._footprints_conflict` with its four
comparisons; like the code it compares a reader with a writer of a place and not
with a consumer, and leaves inhibitor arcs out. `Inject` is an
arrival: an append, a batch, or a replacement of a place.

### Runtime

Everything runs on one event loop, so an atomic step is what a coroutine does
between two suspensions. The exception is `_admit`: it does not suspend, but
makes any number of admissions, so the model unrolls it. While `turn = "admit"`
only `AdmitStep` is possible.

A firing's `phase` says where its asyncio task is:

| phase | the task |
|---|---|
| `created` | exists, its first step has not run |
| `running` | `_execute` is awaiting the handler |
| `cancelling` | `Task.cancel` was called, `CancelledError` has not been delivered |
| `doomed` | cancelled while `created`: asyncio throws into a coroutine that never started, so `_execute`'s `try` is never entered |
| `lost` | ended without settling: its `_active` entry, tokens and lane slot stay |
| `orphaned` | reserved, but the scope resolver raised before the task was made |
| `completed`, `failed` | settled |

| Action | Code |
|---|---|
| `Start`, `Stop`, `StopReturns` | `start`, `stop` (which cancels every active task and gathers) |
| `Admit`, `ScopeResolverRaises`, `AdmitReturns` | one turn of `_admit`: candidate filter, policy, `Engine.reserve`, scope resolver, task creation |
| `HandlerStarts` | the task's first step |
| `Complete`, `HandlerFails`, `ContractViolated`, `CancelDelivered` | the handler's outcome, `Engine.settle`, the failure bookkeeping, and the end of `_execute` |
| `SettleRaises` | `settle` raises (deposit violation without a journal, or the journal's own error) |
| `CancelSwallowed` | an async handler catches `CancelledError` and goes on |
| `NeverStarted` | the end of a `doomed` task |
| `LateWorkerEnds` | `_record_late_worker` |
| `CancelScope` | `cancel_scope`, from outside or from a running async handler, which spares its own task |
| `InjectNow`, `InjectWaits`, `InjectResumes`, `InjectNowRaises`, `InjectRaises` | `inject` and `inject_batch` through `_apply_arrival`, waiting while an active firing has the place in its footprint |

`DepositViolation` is what `Runtime.__init__` chooses: with a journal a violation
is recorded and the deposit dropped (the firing fails), without one it raises.

### AtomicNet and the refinement

`AtomicNet` has one variable, the committed marking. A step fires one
transition (its consumed tokens are all there and leave, one contract-respecting
deposit arrives) or applies one arrival. `Runtime` implements it under

    Committed[p] = saved[p] of the active firing that consumes from p, if there is one,
                   marking[p] otherwise

that is, the marking a rollback of everything in flight would give. Reservation,
rollback, cancellation and shutdown are stutters; a completion is one `Fire`.

### DurableRuntime

`DurableRuntime` extends `Runtime` with the event log. Each step of `Runtime`
that emits a record appends it: `LoggedEnd` for the ends of a firing,
`LoggedClient` for arrivals, `Unlogged` for the rest. A firing's record holds
every bound token, read ones included, as `inputTokens` does; `ReplayFiring`
removes, place by place, what the transition has a consume arc for, as
`_consume_sources` and `_remove_tokens` do. A batch writes one record per
token; the records follow each other without a suspension, so the model keeps
them as one entry, and `Parts` says what may be on the log when the batch is
cut short by a write that raises (`LogPart`) or by the death of the process
(`CrashInBatch`).

`Crash` may happen in every state. `Restarted` is what a new process has:
`marking' = Replay(log')` and the values `Runtime.__init__` gives everything
else. The effects a handler had outside the net are not modelled; ADR 0022
leaves them to the caller.

`Durably` is a second instance of `AtomicNet`, now with `committed <-
Replay(log)`. In contrast to `ImplementsAtomicNet` it speaks about the log
alone, and across restarts.

### BindingSelection and EngineRun

Here a place is a sequence, oldest token first, because the code's choices
depend on order. `SelectBinding(t, m, attempt)` is `_select_binding`: the product
over the binding arcs of the combinations of matching positions, walked in
itertools order (`Before`, `First`), the choices that fail the sub-multiset test,
an inhibitor or the timer skipped, the guard asked last; a guard that raises ends
the search. (What a list comprehension with a condition, or a combination, takes
out of a list is `Subsequence` and `Among`, written without recursion so that they
can be reasoned about.) Its result is a set with at most one binding. `IsCandidate` is the
bit mask by which `enabled_transitions` skips transitions.

`EngineRun` has one consumer that calls the engine at most `MaxCalls` times.
`phase` says whether `run` is under way (one step of the model is one turn of its
loop), and `raised` that an exception has left it, after which the consumer does
nothing more. Inside `run`, `marking` is its local `current`; a returned call
hands it back. `tape` is what the journal has received.

| Action | Code |
|---|---|
| `RunFires` | one turn of `run`: probe, budget filter, policy, `fire`, the failure counts |
| `RunReturns` | its exits: `max_steps`, nothing selectable |
| `CallRun`, `CallFire`, `CallTick` | `run`, `fire`, `tick` (a replacing injection followed by `run`) |
| `CallInject` | `inject_token` and `inject_tokens`, an injection that `_validate_injection` refuses included |

`Completes`, `Fails`, `Drops` and `Raises` are the ways `fire` ends. The policy is
`_priority`, which equals `_first_found` when the priorities are equal. A
journal is attached; its writes do not raise here (`DurableRuntime` has that).
The engine checks what handlers, fallbacks and the environment put into a
marking, not the marking it starts with; `EngineAssumption` takes that to be of
accepted types, as in a net that compiles.

This module and `Runtime` meet in `AtomicNet`: `Runtime` uses bags and any
enabled binding, and `ImplementsAtomicNet` of `EngineRun` checks that the
ordered search, the removal by equality, the fallbacks and the injections of the
engine do to the bags what `AtomicNet` says, with `committed <- BagOf(marking)`
and the bindings that `ArcBindings` computes from the arcs.

Two alternatives of `_eval_predicate` are in `BindingSelection`: a filter of one
equality test is answered from the token's text, any other is given to the
expression evaluator, and an evaluation that fails counts as no match
(`TextAt`, `Evaluated`). `RequireTransition` is the refusal of `fire` for a name
that no transition has.

`EnablementIsExact` compares the search with a reference definition (an
assignment of *distinct* positions that passes every test);
`TapeIsTheRun` replays the tape token by token and in order; `RunStopsForAReason`
reads the failure counts off the tape and not from `failures`.
`ProbeAgreesWithFire` says that what `enabled_transitions` lists is what `fire`
then fires.

### PropertyPass

`check_replay` reconstructs each marking of a run from the recorded events and
the net alone. The module translates its walker (which slices of a record's
tokens a consuming arc removed, what entered a place) and each kind of property,
and applies it to the tape of `EngineRun` at any moment. The expressions of a
property are the tokens or the counts at which they hold; keys are the values of
a key function, with a marker for an absent field. `EntriesAreSeen` relates the
entries the walker finds to what the engine did, and `ReportFollowsTheRun` says
that each property is reported as the markings the engine really went through
decide.

### SourceMailbox

Which task runs next is the point here, so the event loop is explicit: `ready`
is asyncio's queue of tasks, `waiters` those that wait on the one event
`_changed`, and only the head of `ready` takes steps, several in one run of its
coroutine (`mid`) until it suspends. `pc[task]` is where its coroutine stands.

| Action | Code |
|---|---|
| `SourceOpens`, `SourceSuspends`, `SourceYields`, `SourceRaises`, `SourceEnds`, `SupervisorBacksOff`, `BackoffElapses`, `SupervisorReturns` | `_supervise_source`: open, read, record the failure, back off, reconnect |
| `PutsItem`, `PutCoalesces`, `PutBlocks` | `_Mailbox.put` and the `queue.put` in it |
| `DispatcherAwaitsItem`, `DispatcherTakes`, `ArrivalWaits`, `ArrivalApplies`, `ArrivalRaises` | `_dispatch_source`, `_apply_arrival`: take, wait on `_changed` while a firing conflicts, apply, admit, `task_done` |
| `HandlerSuspends`, `HandlerEnds`, `FiringSettles` | `_execute`, reduced to footprint, admission and signal |
| `WaitIdleCalled`, `WaitIdleWaits`, `WaitIdleReturns` | `wait_idle`: test, clear the event, wait |
| `Stop`, `SupervisorCancelled`, `DispatcherCancelled`, `FiringCancelled`, `StopReturns` | `stop` with its `gather` |

Asyncio's details that matter are in: an event's `set` moves all waiters to the
end of `ready`; a cancelled task that is ready already is resumed with the
cancellation instead; a task cancelled before its first step never runs.

`Channel` is what a user of a source may rely on: items are sent, delivered once
and in order, or superseded by the next one of the same key if the source
coalesces; an item the net refuses is dropped, and after `stop` what is in
transit may be abandoned. `ImplementsChannel` maps `pending` to hand, queue and
the item being put, in that order.

### TimedRuntime

It extends `Runtime` with the clock (`now`), the task that runs `_run_timers`
(where it stands, which places it is about to advance and the time it read for
them), what it sleeps until, and the event `_timer_changed`. A clock token's
value is the time it shows, and a timer's condition is part of the bindings: the
values at which it is false inhibit. So a binding can be mature in real time
and not yet enabled, which is what the task is there for.

| Action | Code |
|---|---|
| `TimedStart` | `start`: the clock places get their tokens before the tasks exist |
| `TimerAdvances`, `TimerWaitsForFirings`, `TimerResumes` | `_advance_timer_clocks`: waits for firings that read a clock, then writes the time it read before |
| `TimerSleeps`, `TimerWakes`, `TimerCancelled` | the wait with a timeout, the event, `stop` |
| `Tick` | time passes |
| `RuntimeStep` | every step of `Runtime`, with the signal it gives the timer task |

`TimedNet` hides the clocks: under `ImplementsTimedNet` a timed transition's
firing commits only when real time has reached the maturity of what it takes.

### JsonValues, NetDocument, Composition

A JSON number is an integer or a float of so many halves; `SafeInteger`,
`PlainBelow` and `LargestFinite` stand for 2^53 - 1, 10^21 and the largest
binary64 number, the bounds at which the code refuses a number or changes its
spelling. `JsonEqual` is the code's own equality (1 is 1.0, and neither is
`true`), `Rendered` its canonical text. The code's recursions over nested values
are walked level by level: `Levels` lists what stands how deep, `Rebuilt` puts a
result together from the deepest level upwards, and `Throughout` compares two
values wherever they match. `Nesting` bounds the depth of the walk, and `IsText`
says that no text is deeper. `ReadWith`, `WrittenWith` and `JsonAlike` are what
the recursive functions do at one node.

A net document has the members the DSL can give it, in order where the order is
kept. `parse_net` takes a net that `Parses`: first `SchemaValid`, the clauses of the
JSON Schema on what may be empty (names, colors, references, expressions, lists of
colors) and on data being objects, then `ValidNet`, what `_validate_net` demands.
The types the schema also asks for, and the bounds `_validate_net` or the resolver
asks for as well, are not repeated in `SchemaValid`. In `Composition` a port is a
pair of alias and place. The union-find of `_UnionFind` is a function from each
wired port to its parent, which `Union` changes wire by wire, with the path
compression of `find`; a merged place is named by the set of the output ports of
its class, for the sorted join of their names. `IsNet` says which members a net
document has, and which of them are lists.

### Contributions and Emission

`Contributions` is a state machine because the order of writing is the input:
`Write` adds one statement to the current source and collects it into `tables`,
`NextSource` begins a second source, `Resolve` makes the outcome: `resolved` with a
document, `refused` with a diagnostic, or `undiagnosed` where `parse_net` alone
refuses: the schema first, whose refusals are never located, then the structure,
then the timers, which are. Names and expressions may be empty, lists may repeat
themselves and integers may be too large: `ContributionAllowed` says what lowering
and the resolver refuse of one statement, whatever else is written. It does not
look at the ends of arcs, at handlers or at the name of a net, because the code does
not. The `Collect...` operators are the branches of
`resolve_contribution_ir`, the rest of the module its final resolution: ranks of
order facts, references, elaborations of arcs by their authored handles, the
payload that keeps handles with index and fingerprint.

`Emission` is the way back. It has the choice of arrows over facts in compact
form, what topology alone says of order and colors (`TopologySuffices`), the
order facts written where it does not, generated handles, and token statements
with templates.

### Drawing, Account, MarkdownCheck

A picture is a sequence of lines: nodes with an id, a look, a label (a sequence
of parts) and a tooltip, and edges. Font, layout and escaping are left out. The
modules keep what decides which line stands where: fusion places drawn as one
instance per transition, token groups, selected markings, positions and routes
that the code attaches by scanning the lines already drawn. An account is the
sequence of paragraphs `explain_net` writes, as records of the clauses in them.
`MarkdownCheck` has the fence scanner line by line, the relocation of line
numbers, and the walk over directories.

## 3. Runs

`MCRuntime` defines two nets.

*Race* is the timeout race of the documentation: `work` consumes a job while
reading a window, `expire` consumes the window and its handler cancels the
work's scope, `report` is inhibited while a job is queued. `work` and `expire`
share a lane of capacity 2. It has a reader that overlaps a consumer, a
produced place that another transition consumes, an inhibitor, a batch arrival
over two places and a replacing arrival.

*Mix* has two token values and a weighted arc (`pair` takes any two tokens), a
transition that reads and consumes from one place (`pick`), and one that only
reads (`poll`) and so can overlap itself up to its lane's capacity.

*Half* (`MCDurable`) is the race without `report` and the lane: `work` reads the
window that `expire` consumes, `expire` may put the job back.

| Run | Question | Constants that matter |
|---|---|---|
| `runtime_race` | Does the committed marking change only atomically? Is everything admissible admitted, is the failure budget kept, does every committed gain unblock, does `stop` return? | Race; a contract-violating `work`, budget 2, `stop`, 4 firings, 2 injections |
| `runtime_faults` | Do rollbacks stay exact and lane counters right when journal writes and scope resolvers raise and the policy declines? | Mix; 3 firings, 1 injection, everything may go wrong |
| `timers` | Do timed firings commit only once mature, and mature ones without waiting for ever? Do clocks go forward, does the timer task rest, does admitted work settle? | two clocks, time to 2, 3 firings, 1 injection |
| `sources` | Is each item of a source applied once and in order, or superseded, refused and counted? Is no wake-up lost, is nothing applied after `stop`, does `wait_idle` return? | a coalescing source, capacity 1, 3 items, 1 failure, 2 firings, two keys on two places |
| `sources_idle` | "Wait until no handler is active and every source mailbox is empty": violated | a lossless source of 2 items, 1 firing |
| `runtime_cancel_leak` | "commits or rolls that reservation back when work reaches a terminal outcome": violated | Race |
| `durable_crash` | Does the log replay to the committed marking at every moment? Does the durable marking change only by whole firings and by arrivals, each recorded once, across a kill at any point? | Half, a batch over two places, violations, late workers, `stop`, 2 firings in each process, 1 restart |
| `durable_read_consume` | "remove only consume-mode inputs": violated | Mix, `pick` |
| `engine_run` | Are enablement, tape, stopping and token types of the synchronous engine right, does it implement the atomic net, and does the property pass read off the tape what happened? | two calls, 4 steps in a run, budget 2, all three deposit modes |
| `documents` | Does what is written, and not how it is arranged, decide the net, the merged net, the account and the pictures? | thirteen scripts, below |
| `documents_canonical` | "Canonical DSL is ... a fixed point": violated | the script `Shape` |
| `composition_arcs` | "preserving the Arc-centric representation": violated | the script `Plumbing` |

The net of `timers` (`MCTimers`): `expire` takes a job at its deadline, `poll`
fires only while its own clock shows 1, so its window can be missed, and `work`
takes a job at any time and reads the clock of `expire`, so that the timer task
has to wait for it with a time it read before. One clock has a token from the
start, the other gets its token from `start`. Time 2 is the smallest at which
there are a clock value before, at and after a maturity.

The net of `engine_run` (`MCEngine`) has a transition with two consuming arcs and
a reading one on one place, filters by text and by expression, one transition with
a read arc and a timer, one with a correlated inhibitor and a guard that
refuses attempt 1 and raises at attempt 3, one with no binding arc, and one
without handler; outputs that break the contract, literal and computed fallbacks
and a computed one that fails; a replacing arrival, a batch, and a batch whose
second token is refused; and a property of each kind. Four steps are enough to
fail twice (the budget), complete, and be selectable again, which is what
distinguishes the right clearing of the counts from a wrong one; two calls put an
injection before a run.

In `sources` three items and one slot make the queue full with an item in the
dispatcher's hand and a third being put, which is when the supervisor blocks or
coalesces; two keys and two places make a replacement possible and impossible
and an arrival blocked and free. The proofs of section 5 extend the result to
any number of sources, capacities and policies; what stays at the bounds are the
wake-ups and the liveness.

`MCDocuments` has thirteen scripts: `Shape` (appearance, colors, ports, capacities),
`Elaboration` (facts about the arcs of handles), `Timing`, `Ordering` (ranks and
metadata), `Viewing` (geometry, markings, fusion places), `Tokens` (templates,
numbers in two spellings and out of range), `Lacking` and `Nameless` (whatever may be
empty, repeated or too large), `Using`, `Wiring` and `Unnamed` (compositions),
and two with a second source, which has or lacks a header. A script is a
beginning and a pool from which any three or four statements (two of `Lacking`, whose
faults are single statements, one of `Nameless` and `Unnamed`) follow in any order and
with repetition, so every pair of conflicting, repeated or forward-referring
statements occurs in both orders, with a third between them, and in every
prefix. The bounds on numbers are scaled: `SafeInteger` = 3, `PlainBelow` = 5 and
`LargestFinite` = 6 keep the order of the real ones and leave room between them;
`TokenGroupLimit` = 2 is met by three different tokens. `Nesting` = 2 is as
deep as the values of the scripts go, which `ScriptsAssumption` has TLC check, as it
does `PortsAssumption` and `LibraryAssumption`.

Bounds. `MaxFirings` bounds admissions and `MaxInjections` injections; both are
guards of the model (`_admit` behaves as if nothing were admissible once firing
numbers run out) and nothing in the properties depends on them:
`NothingLeftToAdmit` is stated only while a number is left. Three or four firings
(with a crash, two in each process) are enough for every pairwise hazard: two
firings in flight, one that settles while the other runs, a third admitted because
of it, and with the fourth a transition that fails, is blocked, and is retried
after an unblocking. One restart is enough to meet a log written by an earlier
process, with firings of both on it; `MaxBatch` bounds how many equal tokens a
part of a batch holds. `MaxItems`, `MaxRestarts` and `MaxTime` bound a source's
items, its failures, and time. Every action fires in some passing run. The
theorems of section 5 have no such limit: they hold for every value of the bounds.

`CHECK_DEADLOCK FALSE` is set in the configurations, because a Runtime that has
nothing to do, or has stopped, legitimately makes no step, and a resolved
document is the end of a compilation.

## 4. Fairness

All fairness is weak, and is asked only of steps that the event loop, the clock
or user code that must return make by themselves. Nobody has to inject, cancel or
stop, and a source owes nothing: it may stay silent for ever.

`Runtime` (`FairSpec`): `start` returns, `_admit` goes on once it is running, a
created task gets its first step, a handler ends (the assumption on user code), a
cancelled task is ended, a worker thread ends, `gather` returns. A waiting
injection is retried because every `_execute` calls `_signal` when it settles,
which wakes `_apply_arrival`: `WF_vars(InjectResumes(c) \/ InjectRaises(c))`. The
runs under fairness have no scope resolver that raises: such an exception
leaves `_execute` before `_signal`, so the wake-up would not be justified.

`TimedRuntime` (`TimedFairness`) adds that time passes and that the timer task
runs when it can. `SourceMailbox` (`Fairness`) asks that the loop runs whatever
is ready (`LoopStep`), handlers return, a backoff elapses and `gather` returns;
there the wake-ups themselves are part of the model, so nothing is assumed of
them.

`AcceptedWorkSettles` is checked on nets whose firings use up their tokens.
`_execute` runs `_admit` before the arrival it wakes, so a transition that
re-enables itself on the arrival's place can be admitted again each time, and
starve the arrival; weak fairness would not exclude that, and the hazard list
says so. `MatureBindingsFire` leaves out a transition blocked by a failure, which
its clock does not unblock.

The engine and the documents state no fairness: their callers may stop at any time.

## 5. What is proved

`RuntimeProofs` proves, for every net, lane assignment, capacity, budget, client
set and bound that satisfies `NetAssumption` and `RuntimeAssumption`:

| Theorem | States |
|---|---|
| `TypeCorrect` | `Spec => []TypeOK`; in particular no place ever holds a negative count |
| `LanesAreAccounted` | `Spec => []LaneAccounting` |
| `RollbackIsExact` | `Spec => []ReservedInputsUntouched` |
| `AdmissionIsEager` | `Spec => []NothingLeftToAdmit` |
| `BudgetIsKept` | `Spec => []BudgetBoundsFailures` |
| `RuntimeIsAtomic` | `Spec => ImplementsAtomicNet`, when no scope resolver raises |
| `GainsUnblock` | `Spec => CommittedGainUnblocks` |

`NetAssumption` and `RuntimeAssumption` only give the constants their kinds, plus
two facts about nets: a binding takes tokens only from places the transition has
consume arcs on, and a contract-respecting deposit lies within its produce
templates. Both come from the engine (`_select_binding`, `_validate_deposits`);
TLC evaluates them in every run, where `ArcBindings` computes the bindings from
the arcs.

The argument. `ReservedInputsUntouched` is not inductive alone. `IInv` adds

* `Exclusive`: two active firings do not conflict. Without it another firing's
  deposit or rollback could touch a reserved place. It is what `Admissible`
  tests on the way in, and it survives because settled firings only leave.
* `UnusedAhead`: firing numbers not yet handed out are free and not active, so an
  admission changes no existing reservation.
* `HoldsABinding`: an active firing's `take` is the `take` of one of its
  transition's bindings, whose tokens its `saved` places contain. This is what
  makes a completion a step of `AtomicNet!Fire`.
* `LaneAccounting`, whose preservation needs that a set of firings changes by
  exactly one element (`FiniteSetTheorems`).

The refinement then goes by cases: a step either leaves `Committed` alone
(reserve, rollback, phase changes) or changes it by one `Fire` or `Arrive`.
`AdmissionIsEager` follows from which steps leave `turn = "loop"`: none of them
makes a transition `Admissible` that was not. `BudgetIsKept` needs that a
transition that consumes or produces conflicts with itself, so at most one of
its firings is in flight when its failures are counted.

`DurableProofs` proves two theorems about `DurableSpec`, under `Replayable`:

| Theorem | States |
|---|---|
| `ReplayIsExact` | `DurableSpec => []ReplayIsCommitted` |
| `LogIsAtomic` | `DurableSpec => DurablyAtomic` |

`Replayable` has three conjuncts: no transition reads a place it consumes from
(needed, as `durable_read_consume` shows), no scope resolver raises (such a
firing never settles, and its tokens count as gone), and a journal whose writes
may raise gets no arrivals of more than one token (a write that raises in a batch
tears it). The number of restarts is any natural number.

The argument. Replay is a fold over the log. A fold is characterised as the one
function that satisfies its recursion (`OneFold`), from which
`Replay(Append(log, e)) = Effect(Replay(log), e)` follows (`ReplayAppend`)
without an induction over entries. Each step then appends the entry whose effect
is the change of `Committed` that the lemmas of `RuntimeProofs` compute; a
restart makes `marking = Replay(log)` and leaves no active firing, so
`Committed = marking`, and `IInv` holds as in an initial state (`FreshIInv`).

`SourceProofs` proves three theorems about `SourceMailbox`, for any number of
sources, policies, capacities and bounds that satisfy `SourceAssumption` and
`ItemAssumption` (a coalescing source has capacity 1, as `TokenSource` demands):

| Theorem | States |
|---|---|
| `ArrivalsEnd` | `Spec => StopEndsArrivals` |
| `LossesAreCounted` | `Spec => []NothingLostUncounted` |
| `SourcesKeepTheirPromise` | `Spec => ImplementsChannel` |

The argument. An arrival is a step of a dispatcher that has not been cancelled,
so `StopEndsArrivals` rests on `Cancellation`: once `stop` has been called,
every task that has not ended is cancelled, which each step preserves because a
task that makes steps afterwards only ends. `Mailboxes` is the type of the mailbox
variables and, for each source, `Books`: the queue's unfinished count is its
length and the hand, an item is in the hand or being put exactly when the task
stands where it has one, and what was sent is accounted for by what is applied,
in transit, coalesced or refused. The refinement takes each action in turn: a put
is `Send`, or `Supersede` when it replaces the queue's item, an application is
`Deliver`, an arrival that raises is `Refuse`, a cancelled task that holds an
item is `Abandon`; moving an item from the queue to the hand changes no
`Pending`.

`TimedProofs` proves three theorems about `TimedSpec`, for any timers, any
bindings and any length of time that satisfy `TimerAssumption`:

| Theorem | States |
|---|---|
| `TimedTypeCorrect` | `TimedSpec => []TimedTypeOK` |
| `ClocksOnlyGoForward` | `TimedSpec => ClocksGoForward` |
| `TimedRuntimeIsTimed` | `TimedSpec => ImplementsTimedNet`, if no scope resolver raises |

`TimerAssumption` says what the modelling of timers rests on: a condition is false
of every clock before the maturity, nobody but the Runtime writes a clock, and
an initial marking gives a clock at most one token, which shows no later time
than it is. (A clock that starts in the future, as one restored from another
process's monotonic clock could, is outside the assumption.)

The argument. A step of the timer task writes clocks only, and no firing takes
from a clock or deposits into one, so `IInv` survives it and every step of the
Runtime keeps the clocks. `TimedIInv` adds `ClocksShowThePast`, by which an
enabled binding is mature in real time, since its condition is false of every
earlier clock; `HoldsAMatureBinding`, which carries that from the admission to the
commit, because time does not go back; and `DueStaysDue`, by which the time the
task has read before waiting for firings is still ahead of the clocks it is written
into: while it waits nobody else moves them. The refinement reuses the lemmas on
`Committed`, which a write into a clock changes only where `HideClocks` hides it.

From the same assumptions it proves one theorem more:

| Theorem | States |
|---|---|
| `NoWakeupIsLost` | `Spec => []NoLostWakeup` |

The argument. The inductive invariant is `Loop` and `Wakeups`, on top of
`Cancellation` and `Mailboxes`. `Loop` says that the event loop's queue and the
event's waiters hold no task twice, and that a task stands where its coroutine
is, so that a waiting task never runs. `Wakeups` says what each waiter waits for
has not happened, with one exception, `Arriving`: a dispatcher that has just taken
the last item of a mailbox has made a `wait_idle` wait for nothing, until, in the
same run of its coroutine, it either reports a conflict, which is a reason to wait
again, or applies the item and wakes everybody.

`EngineProofs` begins with the binding search, and proves one theorem about it and
the lemmas on choices, on bags of ordered places and on removal that the rest uses:

| Theorem | States |
|---|---|
| `SelectionStopsAtFirst` | the search ends at the first choice, in the order of itertools, that passes the tests and whose guard does not refuse; there is one if any choice is left; a guard that raises there ends it without a binding |

It rests on the order `Before` being total on the product (`FirstIsFirst`), which
is shown arc by arc from the order of the combinations of one arc.

It then proves, for every net, policy priority, budget and handler outputs
that satisfy `SelectionAssumption` and `EngineAssumption`:

| Theorem | States |
|---|---|
| `ProbeIsFired` | `Spec => ProbeAgreesWithFire` |
| `RunStopsWithReason` | `Spec => RunStopsForAReason` |
| `OnlyAcceptedEnter` | `Spec => []OnlyAcceptedTokens`, under `ComputedHasItsType` |
| `EngineIsAtomic` | `Spec => ImplementsAtomicNet`, under `ComputedHasItsType` and `NetListsItsFirings` |
| `EnabledHaveBindings` | `Spec => []EnablementIsExact`, under `ComputedHasItsType`, `SharedArcsTakeOne`, `MatchesAsDeclared` and `GuardsRaiseAlike` |

`ComputedHasItsType` says that a computed fallback is a token of its template's
type, which `_deposit` makes it by building the token with that type
(`engine.py:1268`); the type of the token is no choice of the expression.
`NetListsItsFirings` ties the two descriptions of a net to each other:
`Bindings` lists what the product over the arcs can consume, and `Deposits` the
bags of deposits that keep the contract. `AtomicNet` is stated with the one, the
engine works on the other; `ArcBindings` and `MCDeposits` compute the former from
the latter in the instance.

The argument. `RunStopsForAReason` speaks of the tape, so the invariant
`Counting` says that during a run the last `steps` records of the tape are its
steps', and that `failures` are the failures among them since the last
completion. `OnlyAcceptedTokens` is inductive together with the type of the
marking (`Accepting`): a removal leaves a subset (`RemoveEachCounts`), and each
way in has its own check. For the refinement, of each token value a firing removes
as many as its binding consumes, which the place holds because the whole binding,
read tokens included, is a sub-multiset of it (`ConsumedIsBound`).

`EnabledHaveBindings` compares the search with bindings in which no token is used
twice. A choice in which arcs of one place take different positions passes the
sub-multiset test (`SpreadIsSubmultiset`), so the search finds every such binding.
The other way, a choice may use one position for two arcs as long as the place holds
another equal token: `SpreadExists` gives the n-th arc that asks for a token of some
value the n-th position that holds it, of which there are enough by the sub-multiset
test, and the choice then binds the same sequences of tokens, so it passes the
same tests. `SharedArcsTakeOne` asks for weight 1 of arcs that share a place with
another binding arc, which is the case of the instance's `pair`. It is needed: with
two arcs of weight 2 on one place that holds `<<a, b, b, a>>`, a choice that uses one
position twice can bind the tokens in an order that no choice of distinct positions
has, and a guard may accept only that order; nothing is claimed of such nets.
`GuardsRaiseAlike` is needed because a
guard that raises at an earlier choice hides a later one. `MatchesAsDeclared` ties
the abstract net's `match` to the type and the filter that the search evaluates.

Where a definition is
a recursive function over arcs, tokens or records, the induction is done by
looking at the least counterexample (`LeastNatural`), since the library's induction
theorems cannot be instantiated.

`EngineProofs` also proves three theorems about `PropertyPass`, which reads the tape of
`EngineRun`, for every net and every set of checks, under `ComputedHasItsType` and
`CheckAssumption`:

| Theorem | States |
|---|---|
| `TapeTellsTheRun` | `Spec => []TapeIsTheRun` |
| `EntriesAreWhatWasSeen` | `Spec => EntriesAreSeen` |
| `ReportFollows` | `Spec => ReportFollowsTheRun` |

`CheckAssumption` says that the source of an eventually-reaches check is a place of
the net; the pass takes any other for one that stays empty, and the model has no
marking for it.

The argument. The record of a completed firing gives the tokens of its binding by
place, and the walker must find out again which of them which arc took: it cuts each
place's tokens at the offsets of its arcs. `BindingIsSplit` shows, arc by arc, that
the slices of the consuming arcs are the engine's own consumed tokens, also where
another arc reads from the same place, because both sides go through the arcs in the
same order and an arc takes exactly its weight. So the walker removes what the
engine removed and refuses no record. A walk depends on nothing behind it
(`WalkedGrows`), so a step of the engine extends the walk by its own records: none,
one, or one for each token of a batch of injections, of which the k-th leaves the
marking with the first k tokens of each place added (`ArrivalIsWalked`).
`EntriesAreSeen` is stated of steps; its invariant `Seen` says that what stands in
the source of a check has entered it, which is needed where a firing moves no new
token into it. The report is taken apart into what it says at each marking, at each
firing, at quiescence and at the end (`ReportIs`); the first two depend on the tape up
to their step only (`SaidStays`), and at the last one the walked marking is the
engine's, by `TapeIsTheRun` (`SaidNow`).

`DocumentProofs` proves four theorems about `Contributions` and `Account`, for every set of
scripts, every number of sources and statements, and all numeric bounds that satisfy
`JsonAssumption` and `ScriptsAssumption`:

| Theorem | States |
|---|---|
| `FactsAreKept` | `Spec => []NoFactIsLost` |
| `HandlesPointAtTheirArcs` | `Spec => []HandlesFollowTheirArcs` |
| `UndiagnosedIsUnread` | `Spec => []OnlyTheUnreadIsUndiagnosed` |
| `AccountsTellAll` | `Spec => []AccountTellsNetsApart` |

`JsonAssumption` says that the bounds are natural numbers and that every safe integer
is below the numbers written with an exponent (2^53 - 1 < 10^21).
`ScriptsAssumption` says that what a script holds are statements of the language:
names are strings, empty ones included, a chain has at most one handle and segments
of the four modes, accepted colors are a list, and JSON is nested no deeper than
`Nesting`, with whole integers. The lexer and the lowering give no other; `Nesting`
is any number.

The argument. The inductive invariant, `DocumentInv`, says what the tables tell of
the sources (`Collected`). Always: a fact in them has been told by a statement that
was let in, and no two are about one thing. And unless something has been refused
(`Sound`): the first header is theirs; each written fact is there, with its canonical
text (`FactsKept`); places and transitions are listed once and contain the ends of
every arc (`NamesListed`); no two order facts rank one object, and no two transitions
have one rank (`RanksApart`); and each handle names one run, whose arcs are the segments
of the chain that wrote it, one after the other (`HandlesTell`). The last is what the
properties need and do not say: a handle's index is computed from runs, long after
its chain has been read.

*Facts.* A statement about a thing the tables know is dropped when `json_values_equal`
takes its value for the one they have. So a fact survives only if equal values have one
canonical text, which is `EqualIsWrittenAlike`: level by level, a pair of values that
agree at every depth is written alike, because a whole number below the exponent
bound is written without a point whichever way it was read (`NumbersAlike`). With
Python's `==` in place of it the lemma fails at 1 and `true`.

*Handles.* Arcs are ordered by the ranks of their handles, or not at all. Where there
is an order, every handle has a rank and the ranks are the first numbers, so each rank
stands for one handle (`RanksAreOrdinals`); the ordered arcs are the runs' arcs one after
the other, and none is lost (`OrderedArcsAre`). `Consistent` refuses metadata about the
handle of several arcs, so the run has one, which is found at the index (`HandleHasItsArc`).

*Refusals.* The resolver lets an aggregate pass that `parse_net` then refuses with no
diagnostic exactly when the net or an arc's end has no name, a handler is empty or
literal data are no object (`UnreadFault`). `ConsistentIsValid` goes through what
`_validate_net` checks of structure and finds for each where the resolver has refused
its absence. `ReadIsSchemaValid` does the same for the schema, for tables without
those four faults: the resolver reads a statement's name and value
(`ToldFactIsFilled`), but a place or transition also appears because an arc ends at
it, so that `FilledPlace` needs a fact about the whole of the tables. That is the second
inductive invariant, `Filled`: only an arc's end brings a nameless place or transition
into the tables, arcs have colors and markings are counted. Accepted colors come from one
of three sources, each of them without an empty one (`AcceptedIsFilled`), and tokens
take theirs from there (`MarkedIsFilled`). `UnreadIsSchemaInvalid` is the other
direction: each of the four faults reaches the resolved net, a handler because
`Consistent` knows its transition, data because its handle has one output arc.

*The account.* `AccountsTell` says more than the property: any two nets that are
`Tellable` and have one account mean the same, whether or not one statement tells them
apart. Tellable is what the sentences rely on without saying so: names are
unique, arcs join a place and a transition of the net, an inhibit check weighs 1, an
output arc has no filter and not both kinds of data, only inhibit checks have a correlate, an
arc carries no more than documentation. Under it each sentence gives back what it was made of
(`PhraseTells`, `InputClauseTells`, `OutputClauseTells`, `ParagraphTells`). A place is told of in a
clause of an arc or, when no arc touches it, on its own, so every place is told of
(`PlacesAreTold`). Whatever the compiler resolves is tellable (`ResolvedIsTellable`):
partly because a member is let in only where it belongs (`MembersOf`), partly because
`StructureValid` has the last word. The net of the source without a statement comes from a
compilation of its own, so `SourceIsCompiled` shows that `TablesOf`, from nothing, collects
what the steps of the specification collect.

`CompositionProofs` proves three theorems about the merge of what a composition
document says, for every library of nets, and all scripts and wires that satisfy
`LibraryAssumption` and `PortsAssumption` besides:

| Theorem | States |
|---|---|
| `FusionFollowsWires` | `Spec => []FusionFollowsTheWires` |
| `MergedNetsAreValid` | `Spec => []MergedNetIsValid` |
| `WiringOrder` | `Spec => []WiringOrderIsImmaterial` |

`LibraryAssumption` says that the loader returns net documents (`IsNet`: the dataclasses
of `types.py`), valid or not; `PortsAssumption` that `PortOrder`, which stands for the order
`sorted` gives names, lists every port of the nets that can be used. `ScriptsAssumption` adds
that the alias, the reference and the ends of a wire are strings.

The argument. A resolved composition is valid and lists uses and wires as they were written
(`UsesListed`, inductive beside `DocumentInv`). The parents form a forest (`IsForest`):
there are heights that fall from each port to its parent, so that climbing as many
steps as there are ports ends at a root (`RootIsReached`). Moving a port to its root, as
compression does, changes no root (`RootsStay`), and giving one root another for its
parent takes one class along and no more (`RootIsMoved`). So after all wires their ends
have one root, and every set of ports that no wire leaves is made of whole classes
(`Gathers`), which makes the classes the connected components (`ClassIsConnected`). A
class has an output port, so its name is not empty and says which class it is: two ports
are renamed to the same place exactly when wires connect them (`NamesFollowWires`).

*Places and tokens.* Every place of the merged net stands for a port and each port has
one (`MergedPlaces`). The tokens of a place are the flattening of one list for each
place of each used net, empty unless that place is renamed to it; counting them through
the two levels gives each token as often as the nets of the class have it
(`MergedTokens`).

*Validity.* A renamed place is there and accepts at least what it accepted
(`PlacesRemain`), and transitions keep names of their own (`MergedLists`). With these every demand of
`ValidNet` follows from the same demand on the used net, arc by arc and timer by timer;
a port left on the boundary is an unwired one, with its own colors. A transition consumes or
produces after the merge exactly when it did before, and its annotations are the same, so the
linter says the same of it.

*The order of the wires.* Which ports wires connect depends only on which wires there
are. So two wirings with the same wires have the same classes (`SameWiresFuseAlike`)
and merge to the same net (`SameWiresMergeAlike`), whatever their order. This is the third
conjunct of `ArrangementIsImmaterial`; the other two, about whole documents, are
model-checked.

Only model-checked:

* the liveness properties (`StopTerminates`, `MatureBindingsFire`, `TimerRests`,
  `AcceptedWorkSettles`, `EveryItemIsHandled`, `WaitIdleTerminates`), which are
  outside the prover's reach;
* of the documents: the first two parts of `ArrangementIsImmaterial`, `EmissionIsFaithful`
  and the properties of `PictureLaws`, which compare the whole result of one pass over a
  document with that of another, through functions folded over what was drawn or written;
* that `ArcBindings` satisfies `NetListsItsFirings`, a fold over sets;
* the five refuted claims.

## 6. Findings

1. `wait_idle` can return while a dispatcher holds an arrival it has not applied
   (`sources_idle`).
2. A task that `cancel_scope` or `stop` cancels before its first step never
   enters `_execute`: its reservation is neither committed nor rolled back, its
   lane slot and `_active` entry stay (`runtime_cancel_leak`).
3. A transition that reads and consumes from one place is replayed as if it had
   consumed both tokens (`durable_read_consume`). ADR 0022 calls the
   reconstruction coarse ("whole-place consume-mode removal") without saying that
   the replayed marking differs.
4. The emission writes no declaration for a transition that no arc touches, so
   canonical source of such a net does not compile (`documents_canonical`).
5. `merge_nets` drops the computed output of produce arcs (`composition_arcs`).

Met while modelling, and shown by no run of their own:

*Runtime.*
* Without a journal a deposit-contract violation raises out of `settle` and leaves
  the same residue as (2).
* A cancelled blocking firing frees its lane slot while its worker thread runs on.
* `_footprint` leaves inhibitor arcs out (`runtime.py:594`), so a transition can be
  admitted while the token that inhibits it is reserved; a rollback brings it back.
* A transition that re-enables itself can starve an arrival (`runtime.py:743`).
* A timed transition blocked by a failure is not unblocked by its clock
  (`runtime.py:467`), and a restored clock token may be ahead of the clock
  (`engine.py:540`).
* An explicit empty marking is taken as none (`runtime.py:293`).
* A journal without `record_runtime` makes the supervisor's own report raise
  (`runtime.py:529`); the constant `JournalLacksLifecycle` has it.
* `Engine.reserve` asks a caller with several live reservations that none reads
  what another consumes, while `_footprints_conflict` lets a consumer overtake a
  reader, "the required timeout-race shape". `RuntimeIsAtomic` shows that the
  committed marking stays right; only the read token may be gone when the reader
  commits.

*Durability.* A journal write that raises in the middle of a batch leaves the records
of its first tokens on the log (`engine.py:1793`); a restarted Runtime numbers its
attempts from 0 and repeats firing ids (`runtime.py:351`, against
`handler-contract.md:219`).

*Engine.* A guard that raises ends the search for other bindings (`engine.py:953`).

*DSL.*
* An empty net name, an arc's end of no name, an empty handler (which
  `spec/petrinet-language.md:192` forbids) and literal produce data that are no object
  pass lowering and the resolver and are refused by the schema only: the compile ends
  in a `NetValidationError` without a diagnostic (`compiler.py:3321`).
  `OnlyTheUnreadIsUndiagnosed` names these four and is proved to name all.
* The documentation of a produce arc's authored handle, and a template's color
  where the place has several, are not carried by the emission; compact form
  abbreviates arcs of other colors than the generic one; extensions appear as `{}`
  once a payload has been written; an authored handle `arc_N` can meet a generated
  one.
* A float beyond 2^53 is written as an integer that is refused when read again.
* The second source's header description is dropped; an order fact told twice in the
  same words is refused, unlike other facts.
* A merge drops capacities and the documentation of arcs.

*Pictures.* A route on an edge drawn without attributes gives malformed DOT
(`viz.py:1103`); lines are taken for edges by an arrow in their text, also in a
label; a position for a fusion place matches lines by prefix; wires to a port
drawn as instances end at nodes that are not there; a fusion place without arcs
is not drawn; a place and a transition of one name are one DOT node. An account
does not tell a timer's maturity. The properties of `PictureLaws` and `Meant` in
`DocumentLaws` name each of these as an exception.

## 7. How the parts build on each other, and what could follow

`PetriNet` - `Runtime` - `DurableRuntime` and `PetriNet` - `Runtime` -
`TimedRuntime` are chains of EXTENDS: the durable and the timed Runtime have every
step of the Runtime, with something added to it. `EngineRun` meets `Runtime` in
`AtomicNet`. `PropertyPass` reads the tape of `EngineRun`. `SourceMailbox` stands
alone and reduces firings to what sources see of them; its arrivals are the
`Inject...` actions of `Runtime`. The document modules are one chain that ends in
`PictureLaws`.

Next would come: `SourceMailbox` composed with the whole `Runtime`, and a proof
that `ArcBindings` lists what the search finds.

## 8. Not modelled

* `stop` called by a handler from inside its own firing.
* Registration in the handler registry; `Engine.validate` and the topology cache
  (a net never changes).
* The SQL layer of the durable journal, net revisions and instance names, and the
  JSONL format.
* The CEL adapters: stateless bridges to an expression library. Their verdicts
  are match sets and the operators `Evaluated`, `Correlates`, `TimerHolds`,
  `GuardVerdict` and `Computed`.
* The types, bounds and closed sets of members the JSON Schemas ask for, beyond what
  `SchemaValid` says, and the serialisation of nets.
* Two ways to leave the compiler with a Python error: an integer of more than 4300
  digits, and JSON nested beyond the recursion limit.
* Of the DSL: how names, strings and numbers are spelled and quoted, source spans,
  the wording of diagnostics and the command line. A merged name is a set of
  ports, so that two odd place names could spell one merged name is not seen.
  Aliases and the variables of timers are identifiers, as the grammar and
  `_TIMER_BIND_IDENTIFIER` have it.
* Of the pictures: fonts, escaping, the legend.
* The generated lexers, parsers and validators.
* The TypeScript port: nothing is translated from it. It is to be compared with
  `EngineRun` and the document modules.
* Release and build tools, examples and conformance vectors: no logic of the program.
