# AsioScan: a TLA+ model of the scanner

AsioScan is a TCP connect scanner: a command line is parsed into a `ScanConfig`,
a single-threaded asynchronous engine connects to every (host, port) pair through
a window of bounded size, and a formatter prints the summary. This directory
models the program from the command line to the exit code, checks it with TLC on
small instances and proves the main safety properties with TLAPS for every
instance.

## Inventory

| Part | State | Operations | Interacts with | What must hold | Status |
|---|---|---|---|---|---|
| Scan engine, `Scanner::Impl` (`src/scanner/scanner.cpp`) | task queue, `in_flight_count_`, `cancel_requested_`, host map, completed hosts, tracked sockets and timers; per operation a socket, a timer and a shared `completed` flag | `run`, `cancel`, schedule, connect and timer handlers, `on_task_complete`, finalization | asio (completions), observer callbacks (which may call `cancel`), `main` | window bounded and kept full; each port reported once; each host completed once, with all its results; cancellation drains; `run()` ends | modelled, proved |
| Engine contract (`src/scanner/scanner.hpp`) | – | what a caller may rely on | `main`, library users | the engine implements it | modelled, safety proved |
| Program (`src/main.cpp`) | interrupt flag, `scan_finished`, watcher thread, exit code | signal handler, watcher loop, `stop_watcher`, `write_output` | engine (`cancel` from another thread), command line, output writer | an interrupted scan ends, the watcher is gone before the scanner is destroyed, the exit code is truthful, the report is the one asked for | modelled, proved |
| Command line (`src/cli/`) | the result under construction; three views into the `-p` string | `parse_cli`, `parse_ports`, `parse_single_port` | CLI11, `main` | the port set is the one the user wrote; exactly the valid lines are accepted; options take effect | modelled, proved |
| Results (`src/result/`), configuration (`src/config/`) | – (data) | counting helpers, defaults | engine, formatters | counts match the ports | the members that are used |
| Formatters (`src/formatters/`) | – (pure) | text in six modes, XML, escaping | output writer | what is shown is what was found; the XML is well-formed | modelled, proved |
| Output writer | file stream | choose, open, print | `main` | destination and failure are reported | modelled, proved |
| asio, CLI11, the system | completion queue, reactor; files | connect, close, cancel, expiry; open, write | everything | external: modelled as used | external |

Hard behaviours: the race of connect and timer inside one operation; completions
already queued when `cancel()` runs; tasks that complete synchronously (resolution
failure) inside the scheduling recursion; hosts that are finalized while results
are still to come; `cancel()` from a second thread without a lock; checks on the
command line that are divided between two layers; figures and rows of a report
computed by separate loops; output that fails half-way. The full list, line by
line, is under `hazards` in `PROJECT.json`.

## Modules

```
PortSpec <- CliParser <--- Program
Report <- OutputWriter <-/
Scanner <- ScannerProperties <- ScanRefinement --(INSTANCE)--> ScanContract
                             <- ScanMain
```

* `Scanner` – the engine. One thread's place in the code is `main`, named for the
  function it is about to execute; there is one action per handler or call.
  `scan_port_async` is three actions (tracking, connect, timer), because
  the watcher thread of `ScanMain` can act between them.
* `ScannerProperties` – what the engine must guarantee, and the inductive invariant.
* `ScanContract` – the caller's view: jobs start in order, at most `Window` at once,
  are reported once, hosts are published with their last result, the run ends.
* `ScanRefinement` – the mapping from `Scanner` to `ScanContract`.
* `ScanMain` – the threads of `main.cpp`: composes the engine with the signal handler
  and the watcher thread; `cancel()` is taken apart into the watcher's steps.
* `PortSpec` – `parse_ports`: one action per turn of its loops; next to it, what a
  specification means, defined without the loop.
* `CliParser` – `parse_cli`, stage by stage, with `PortSpec` as one of its stages.
* `Report` – what each mode and format prints for a summary, and the counts it uses;
  also how a reader gets results and figures back from the lines.
* `OutputWriter` – `write_output`, line by line, onto a device that may fail.
* `Program` – `main()` in sequence: `parse_cli`, a scan, `write_output`, the exit code.
  It extends `CliParser` and `OutputWriter`. The scan is one step there: it returns one of
  the `Summaries` with `MayReturn` – the ports asked for in order, one entry per target, no
  port that was not asked for, and every port once unless the scan was interrupted or a
  target is given twice – or throws, interrupted or refused a socket. What `MayReturn`
  takes from the engine are theorems about `ScanMain`, the engine between its threads:
  `UndisturbedResults` (complete results), `InterruptedResults` (each reported result is
  kept, once), `InterruptedHosts` and `OnlyInterruptsThrow`.
* `ScannerProofs`, `OperationProofs`, `DistinctProofs`, `ScanMainProofs`, `CliProofs`,
  `ReportProofs`, `WriterProofs`, `ProgramProofs` – lemmas and theorems, each about the
  module it is named for; `OperationProofs` and `DistinctProofs` continue
  `ScannerProofs`.
* `MCScanner`, `MCRefinement`, `MCScanMain`, `MCCliParser`, `MCOutputWriter`,
  `MCProgram` – the instances.

### Correspondence

| Code | Model |
|---|---|
| call stack of the scanning thread | `main`, with `Resume` as the place a nested call returns to (batch loop or event loop) |
| `task_queue_` | tasks `next_task .. NumTasks`; the queue's contents never change, only its front |
| `host_states_` | a function whose domain is the unfinished hosts; a repeated target has one entry, as in the map keyed by host |
| `completed_hosts_` | per host, the sequence of results pushed for it; the order among hosts is not kept |
| socket | `unopened`, `connecting`, `answered` (a completion is queued), `closed` |
| timer | `unarmed`, `armed`, `expired`, `cancelled` |
| completions waiting in the `io_context` | `ready[t]`, in order for one operation; any order across operations, which includes asio's |
| handler posted by `cancel()` | `posted` |
| `reports` | history only: how often `on_task_complete` ran for a task |
| the argument of `-p` | a sequence of symbols: a run of digits by its value, a comma, a dash, anything else |
| `std::string_view` `remaining`, `token` | positions in that sequence |
| `std::set` of ports | a set; the vector made of it is sorted and without repetitions |
| `argv` | a record of what the user wrote; CLI11 is its checks, in any order, and its exit codes |
| `result.config`, `result.output` | records that begin with the defaults of `ScanConfig` and `OutputOptions` |
| a report | a sequence of lines, each a tuple of the line's kind and the data it shows; XML tags are `begin`, `end` and `empty` lines |
| host names and reasons | sequences of characters, because XML escapes them |
| output stream | `stream_good`: once false, what is written is dropped |

`ConnectCode` deserves a word: asio's range `async_connect` ends with
`operation_aborted` whenever the socket is no longer open when the composed operation
resumes. This is how a success that was queued before `close()` turns into an abort,
and how a socket the system refused to open is reported.

Abstractions: in the engine a message text is a reason; latencies and times are left
out, and a timer may expire at any moment the thread is in the event loop. A name may
resolve to several endpoints: those that refuse one after the other are one `connecting`
socket, since asio tries the next without telling the scanner and only the last answer is
seen; that the system refuses a socket is modelled for the first endpoint (`AsyncConnect`)
and for a later one (`NextEndpointRefused`). The POSIX reactor build of asio is assumed.
Entries of the tracking vectors whose operation is over are kept but have no effect, as
expired weak pointers. A line of a report is written as a whole.
Some definitions are preceded by a defective variant (`TimersFirst`, `NotErased`,
`EndExcluded`, ...): a plausible bug at that place, which the property named for it in
`PROJECT.json` must detect. No step uses them.

## Runs

| Run | Instance | Shows |
|---|---|---|
| `engine` | 2 hosts x 2 ports, window 2; accepted, refused, silent, unresolvable; cancelled before `run()`, in any callback, or not | window bounded, kept full and drained; one result per requested port, nothing reported is lost; every connect backed by a timer; a cancelled scan has nothing pending and schedules nothing; "Filtered" is never an abort; `FairSpec` implements `ScanContract`, liveness included |
| `engine_repeated` | targets a, a, b; sockets may be refused; cancellation | the inductive invariant; hosts completed once; termination |
| `main_interrupt` | 2 hosts x 2 ports, window 2, SIGINT at any time | no double report, no wrapped counter, no host twice, no result lost with `cancel()` on the second thread; orderly exit |
| `main_exits` | 2 hosts x 1 port | the program exits |
| `cli` | every `-p` argument of up to five symbols; a plain command line varied in any two options | exactly the valid lines are accepted (`80,` aside, see below); the ports are those denoted; the configuration can be run; targets, timeout, concurrency, mode, reason and destination are those given, or the defaults; status and exit code agree; `parse_cli` returns |
| `writer` | up to two hosts with up to two and one results, every mode, format and destination; the device fails after any line | the destination holds the report; each result once; figures agree with rows, the hosts up in XML with the elements that hold an open state; the figures of `--summary` and `--hosts-only`, which have no rows, with the results; the XML nests and is escaped; blank lines separate |
| `program` | ten command lines covering every way out of `main()`, every summary `MayReturn` allows with up to two results a host (two states of ports 80 and 81, or all of them errors of an unresolved name), a throwing scan, failing destinations | an undisturbed run has one row per requested pair where it was asked for; failures leave stdout and the old file alone; `main()` ends |
| `repeated_starves`, `cancel_throws`, `open_refused`, `main_lost_result`, `program_write_failure` | the smallest instance that shows it | see the disagreements below |

Bounds. Four tasks and a window of two are the smallest instance in which a slot is
handed on while another operation is in flight, a host is completed while its sibling is
not, and tasks are still queued when cancellation comes. Two answers stand for the
network (`other` and `refused` take the same path as far as control goes).
`main_exits` is smaller because it checks liveness over two threads.
`cli` sets `MaxPort` to 3: with the numbers 0, 1, 2, 3 and 4 this has a number on each
side of both ends of the port range, and five symbols hold a range next to a port, a
range with two dashes, an empty item at either end or in between. The theorems remove both bounds. Two
options varied at a time reach each pair of exclusions and checks. `program` keeps
the real `MaxPort`. Two hosts are what a separator and a sum over hosts need, two
results what an order within a host needs.

Fairness. `FairSpec`: the scanning thread keeps running, which is what a blocking
`io_context::run()` does, and an armed timer expires. Nothing is assumed of the network.
`FairMainSpec` adds that the watcher is scheduled and that the system eventually
gives up on a connect: `ScanMain` needs this because of the lost operation described below.
`FairCliSpec` and `FairProgramSpec` say of sequential code that it goes on: weak fairness
of the step as a whole, nothing of any particular branch.

### Disagreements with the documentation

Five runs end in a violation; each shows that the code does something else
than a comment, a header, a document or a test says.

* `repeated_starves`: a target given twice (nothing removes the repetition). The first
  results finalize the host; each later one takes the early return of
  `on_task_complete`, which schedules nothing. With a window of 1 the next host is never
  scanned, against "io_context.run() returns only when queue is empty". With a wide window
  the host is instead finalized with one port twice and another missing.
* `cancel_throws`: an expiry already queued when `cancel()` closes the socket makes the timer
  handler call the throwing `socket->cancel()` on a closed socket; `run()` throws and the
  partial summary is lost. This is why `ThrowsOnlyIfCancelled` is the property that holds
  (of a system that refuses no socket), and why `ScanContract` has `Throw`.
* `open_refused`: a socket the system refuses is reported Filtered/"Timeout".
* `main_lost_result`: an operation tracked between the watcher's pass over the sockets and its
  pass over the timers loses its timer, then its answer: its port is never reported.
* `program_write_failure`: the device fills up while the report is written; the formatter
  returns nothing, the stream is not looked at, and the program exits with 0.

Met while modelling, without a run of their own:

* the watcher iterates over the vectors while the engine appends to them. In `ScanMain`
  the outcome of this data race is any interleaving, or a crash (`TrackWhileIterated`);
* `parse_ports` accepts one empty item after the last comma (`80,`), which
  `docs/cli.md:47` would count as malformed. The properties name it as their one exception:
  `TrailingEmpty` in `PortSpec`, `ExtraComma` in `CliParser`;
* a scan nobody cancelled can throw as well: the first endpoint of a name refuses, the system
  refuses the socket for the next one, and an expiry already queued finds it closed
  (`NextEndpointRefused`, then `TimerHandlerNoReport`), where `scanner.hpp:94` says "Only
  unrecoverable setup failures should throw exceptions". The theorems about what throws
  assume `~OpenMayFail`;
* command lines CLI11 refuses exit with 105, 106, 108 or 109, where
  `docs/output-formats.md:101` says 1;
* the first and the last example of the help page (`cli_parser.cpp:109`, `:112`) lack the
  required `-p`;
* `--hosts-only` calls a host "up" if it has any result (`text_formatter.cpp:208`), also an
  unresolved one, where `docs/cli.md:92` says "whether the host responded" and the other
  modes ask for an open port;
* a host that cannot be resolved is reported in the results and nowhere on stderr, against
  `docs/output-formats.md:96`.

## Proofs

All theorems are about every value of the constants. Every safety invariant and safety
action property that a passing run checks is a theorem. The assumptions are
`ScanAssumption` (the lists are non-empty, as `validate_config` demands), `PortAssumption`
and `CommandAssumption` (what a specification and a command line consist of),
`WriterAssumption` (summaries and options are of their types, and no single character
reads as one of the five XML entities, so that an escaped name can be read in one way),
`ProgramAssumption` (`none`, the model's word for no output file, is not a file
name a user gives), and those a theorem states itself.

The engine, in `ScannerProofs`: `TypeCorrect`, `SlotsAccounted`, `SocketsBounded`,
`NoDoubleReport`, `HostsCompleteOnce`, `NoSchedulingOnceCancelled`. `SlotAccounting` is not
inductive: that a completion may decrement the counter depends on its operation not having
reported before. `EngineInv` adds what is needed: `ControlInv` ties the thread's place to
the task it works on; `WindowInv` reserves a slot for the scheduling in progress and for
every remaining iteration of the batch loop, so that the recursion through synchronously
completing tasks cannot overfill the window; `OperationInv` says that a queued task has no
trace and a reported one can neither report again nor hold a socket (its `completed` flag is
set, or it was never started); `CountInv` is the count itself. `ScannerProofs` has one
lemma per action. The bound on sockets follows because an open socket's operation is
unreported. `HostsCompleteOnce` has its own small invariant: finalizing moves a host from
the map to the list.

A single operation, in `OperationProofs`: `ConnectsTimeOut`, `CancelDrains`,
`EveryStartReports` and, for systems that refuse no socket, `ThrowsAreCancels` and
`FilteredTimedOut`. The argument is about the completion that is first in line, because it
decides the operation. `RaceInv` says that a connecting socket has its timer, armed or next in line
(`ConnectingInv`); that without a cancellation and a refused socket an expiry that comes
first finds its socket open, so that `socket->cancel()` cannot throw, and an answer that
comes first is no abort (`FirstInv`); that an unreported operation is being started, is reporting, or has a first
completion that makes it report, never the aborted timer that would only set `completed`
(`PendingInv`) – which is where the order of the two passes in `cancel()` matters. In
`ScanMain` this conjunct fails, which is the lost result above.

Scans without repeated targets, in `DistinctProofs`: `WindowKeptFull`, `DrainsAtReturn`,
`SummaryLosesNothing`, `HostsAreComplete`, under `Distinct(targets)` and, where the window
matters, `max_concurrency > 0`; the last one also under `Distinct(ports)`. `parse_ports`
guarantees distinct ports and `parse_cli` a window of at least one (`RunnableConfig`); nobody
guarantees distinct targets, and `repeated_starves` shows that the assumption is needed.
What a host's results need is `KeepInv`: the invariants above about slots and hosts, and
`ResultInv`. Its parts: `pending_ports` is the number of the host's tasks that have not
reported (`CountdownInv`), so that a host is in the map as long as a result for it may come
(`KeptInv`, until `run()` returns), so that no completion takes the early return; and the
entry of a host holds exactly the results reported for it (`RowsInv`). Nothing about the
race of connect and timer is in it, and this is why it survives a second thread. `ScanInv`
adds `RaceInv` and `FullInv`: slots in use plus those about to be filled are `BatchSize`
until the queue is empty. Which task belongs to which host is a matter of division with
remainder; those lemmas come first.

The contract, also in `DistinctProofs`: `EngineKeepsContract` – the initial states map to
initial states and each step to a step of `ScanContract` or a stutter. The contract's
fairness is left to the run `engine`.

The two threads, in `ScanMainProofs`. `ProgramTypes` and `OrderlyExit` are about the threads
themselves. `InterruptedSlots`, `InterruptedReports`, `InterruptedHosts`,
`InterruptedSockets` and `InterruptedResults` carry the engine's properties over to an
interrupted scan: every step of the watcher preserves `EngineInv` and `KeepInv`, since closing
a socket or cancelling a timer only queues completions of operations that were started, and
these invariants let them come at any time. `RaceInv` is not preserved by the watcher (this is
the lost result above), so `StartedPortsReported` is claimed of the engine alone. But the
watcher is inside `cancel()` only once `cancel_requested_` is set (`CancellingInv`), and the
flag is never reset; until then the engine is alone and keeps `RaceInv` and `FullInv`
(`CalmInv`). Hence `OnlyInterruptsThrow`, `UndisturbedDrains` and `UndisturbedResults`: what
the engine promises of a scan nobody cancels holds in the program with its threads, whatever
the watcher does meanwhile.

The command line, in `CliProofs`: `PortsDenoted` and `PortsRejected` –
for strings of any length and any largest port, the loop accepts and collects what the
loop-free definition says. The invariant `ParseInv` says that of the items that begin before
`remaining` all but the current token are well-formed and collected, and of the token, when
it is a range, the ports below `p`. `CliInv` says stage by stage what has been checked and
what has been written to the result; from it follow `CliAccepts`, `CliRunnable`, `CliHonours`
and `CliExitCode`.

The report, in `ReportProofs`: lemmas about what the formatters print for any summary. Sums
and readings are recursive functions and flattened sequences, and what those yield has to be
shown by induction. The library's induction theorems take a predicate as a parameter, which
the provers cannot instantiate; here the induction is over a *set* of numbers instead: its
complement, if it were not empty, would have a least element (`LeastNatural`, `Induct`,
`SequenceInduct`). On this rest the equations of `FlattenSeq` and `Total`, and from them, for
each mode and format, that reading the report gives the rows the mode selects, in order; that
the figures are the counts of the rows; that the elements which hold an open state are as many
as the hosts up (`XmlHostsUp`: an element begins with the only line that opens a host, so
appending one block adds at most one); that tags nest, that escaping leaves no special
character and is undone by reading; and where blank lines stand.

The writer, in `WriterProofs`: `WriterInOrder`, `WriterShowsResults`, `WriterStatistics`,
`WriterWellFormed` and `WriterBlankLines`. `WriterInv` says that the destination holds the
first lines of the report, all that were printed while the stream was good (`Progress`), and
that the other destination is untouched; the properties follow by the lemmas about the report.

The program, in `ProgramProofs`: `ProgramLeavesNoTrace`, `ProgramStdout` and
`ProgramReports`. `ProgramInv` joins `CliInv` and `WriterInv` and tells the ways out of
`main()` apart: what `parse_cli` refused (`Refused`), a scan that threw (`Threw`), a report
that was written or could not be (`Finished`). `ProgramReports` draws on all of it: the ports of the
configuration are those the command line denotes, the summary has each of them once for each
target, the report shows each of these once, and the destination holds the report.

Only model-checked: liveness (`Termination`, `ProgramExits`, `ParseCliReturns`, `ProgramEnds`
and the fairness of the contract), because temporal properties under fairness are beyond the
prover.

## Not modelled

* CLI11's reading of `argv` (conversion of numbers, abbreviations, repeated options) and the
  wording of its messages; which of several faults it reports is left open.
* Layout: column widths, headings, times, latencies, the wording of reasons and banners.
* A second `run()` on the same `Scanner`, which the header excludes.
* Exceptions thrown by callbacks (the program installs none).
* The time a blocking resolve takes away from other operations' timeouts: a timer may
  expire at any time, so lost time cannot be told from a silent host.
* The growth of the tracking vectors: dead entries have no effect.
* A compiler keeping a stale `cancel_requested_` in a register; the interleavings of
  `ScanMain` cover reads just before and just after the write.
* `rate_limit`, `ip_version`, `color_mode`, `program_version`, `on_status`, the durations and
  the `is_*` helpers of the result types: no code that is modelled reads them.
  `port_description` is written and never read.
