# Verification of tinyappdev in TLA+

tinyappdev is a small C/C++ application kit: a configuration library
(`src/miniconf`), a unit test framework (`src/testframe`), a memory allocation
library with hooks and debugging (`src/pml`), and the build scripts that join
them (`make/`). Paths in this file are relative to the repository.

This directory holds TLA+ models of the parts with behaviour worth checking,
configurations that model-check them with TLC, and proofs that TLAPS checks.

## 1. Inventory

| part | state it keeps | operations |
|------|----------------|------------|
| **miniconf option table** (`src/miniconf/config.c`, `config.h`) | `cfg_option_S[]`, `cfg_option_count_S`: name, abbreviation, description, type, value, input flag; heap copies of every string | `cfg_add_options`, `cfg_find`, `cfg_type`, `cfg_input`, `cfg_switch/int/float/string`, `cfg_set_*` |
| **command line reader** (`cfg_read_args`) | `cfg_block_S[]`: the argument vectors handed back to callers; the automaton NORMAL / CAPTURE and its pending option | one call: walks `argv`, assigns options, collects the rest in a new `argv` |
| **config file reader** (`cfg_read_file`) | the open `FILE`, a line buffer | one call: a line at a time, through the same setters |
| **miniconf life cycle** | `cfg_initialized` | `cfg_init`, `cfg_exit` (disposes options and argument blocks) |
| **miniconf report** (`util.c`) | none | `cfg_report`, `cfg_value_type_name`: printing |
| **testframe** (`test.c`, `driver.c`) | the linked list of static suites, their units, the focus and its storage, verbosity, `-help`, the exit handler, the counters of a run | `main`, `TFR_args` (through miniconf), `TFR_set_focus`, `TFR_on_exit`, `TFR_SUITE_DECLARE_M` (`TFR_add`), `TFR_SUITE_ADD_M` (`TFR_next_unit`), `TFR_run`, `TFR_usage` |
| **pml core** (`malloc.c`, `malloc.h`, `malloc_impl.h`) | the four global hooks, the debug and the assert hook | `pml_malloc/calloc/realloc/free`, `set_*_hook`, the emulations of calloc and realloc, allocator objects, reports to the debug hook |
| **pml C++** (`malloc.h`, `malloc_impl.h`) | a count stored in front of arrays, and of single objects with `PML_CHECK_S`; what an object was told of its allocator | `pml_new`, `pml_newa`, `pml_delete` with `()` and `[]`, `call_set_allocator` |
| **include scanner** (`make/source_dep.awk`, `make/rules/depend.mak`) | the files it found, the list it walks and extends, the dependency file | the transitive closure of `#include`; make runs it again when a listed file changed |
| make rules, test suites | none of their own | read as the clients of the rest |

### How the parts interact

* An application calls miniconf from one thread: `cfg_init`, any number of
  calls, `cfg_exit`. Nothing is concurrent; what is hard is the *order* of the
  calls, the memory they share, and a call that fails half-way.
* `cfg_read_args` and `cfg_read_file` write the option table through the same
  `cfg_find`; the file reader calls the public setters, the argument reader its
  own `cfg_copy_to_option`, which does not free what it replaces.
* miniconf reaches malloc, free, stdio and the assertion handler only through
  the macros of `setup.h`.
* testframe reads its focus, verbosity and `-help` from miniconf, copies the
  focus, and shuts miniconf down before it runs anything. The user's `TFR_main`
  declares suites between `TFR_args` and `TFR_run`. With `-help`, `TFR_usage`
  prints miniconf's table through `cfg_report` first.
* pml calls user hooks, and a debug hook after them, from inside its operations;
  several threads may be in these operations, and the library takes no lock.
* `pml_new` and `pml_delete` call `pml_malloc` and `pml_free`, and the user's
  constructors and destructors, which may call `pml_new` and `pml_delete`.
* make runs the scanner for each source, and reads what it wrote as rules.

### What is hard, and what makes each part correct

PROJECT.json lists every hazard at its line. The main ones:

* *option table*: only names are tested for uniqueness, abbreviations may clash
  with anything, and lookup takes the first match. Correct: a stored option is
  always found by its name (`NameLookup`); the table behaves as a map from names
  to typed values, where what is read counts as input (`ImplementsMap`); a refused
  allocation is reported, and does no harm but the one listed
  (`AddReportsFailure`, `NothingUndefined`).
* *command line reader*: an automaton with a pending key that is looked up again
  one argument later. Correct: it agrees with a reference reading of the whole
  vector that has no loop and no state (`LeftoverExact`, `CaptureConsistent`,
  `ArgsVerdict`, `LastWins`), and never writes past the vector it allocated
  (`BlockFits`).
* *config file reader*: three ways out of the loop, and one before it where there
  is no buffer; one FILE and one buffer. Correct: both are released on each but
  the last, where the FILE stays open (`FileClosed`, `OwnedOnce`), and the last
  assignment wins (`LastWins`).
* *life cycle and memory*: every pointer owned once and live (`OwnedOnce`), and
  memory lost in one known place only (`OnlyCaptureLeaks`).
* *testframe with miniconf*: TFR_args takes strings from a table that is freed
  before they are used, and goes on when an option, an argument or the file was
  refused. Correct: what it takes is what the command line and the file ask for,
  by the grammar of both together, and nothing if the table is incomplete
  (`OptionsAsAsked`); `-help` reports every option (`HelpComplete`); the program behaves as
  `TestFrame` says (`ImplementsFrame`); over its whole life memory is lost in the
  listed places only (`OnlyKnownLeaks`).
* *testframe*: a suite declared again cuts the list; a focus keeps suites off the
  list but not from collecting units; three pieces of state (links, `hook`,
  `TFR_suite_S`) must agree. Correct: the links never close a cycle
  (`Acyclic`), they implement a plain list that a run walks once
  (`ImplementsList`, `RunEnds`), units stay in their suite (`UnitsAtHome`), the
  exit status tells what happened (`VerdictExact`), and the program dies only of
  the listed causes, a suite that is exactly full among them (`UndefinedOnly`).
* *pml core*: other threads run between a hook and its report; the emulation of
  realloc has two blocks for a while and either may be the only one. Correct: no
  block is lost or shared (`BlocksHeld`), each goes back to its arena and the
  program dies only of the listed causes (`UndefinedOnly`), the client sees a
  plain store (`ImplementsStore`), and the reports suffice to keep an account, if
  read as the code fills them (`LedgerExact`).
* *pml C++*: a call is half done while the constructor inside it makes another
  call, or throws; the count in front is all that tells an array from an object.
  Correct: a block has exactly one owner unless a constructor threw, and then
  none (`HeldOnce`), elements are born and die
  in order (`LifeOrder`), births and deaths of an address alternate in the
  reports (`ReportsAlternate`) and their counts add up (`ObjectsCounted`), and
  the program dies in the known ways only (`DiesOnlyOf`).
* *include scanner*: it extends the list it walks, in an order nobody fixed, and
  its result is used after the files have changed. Correct: a dependency file
  make takes for current is complete and lists nothing out of reach
  (`DepExact`), and the scan ends (`ScanEnds`).

## 2. Modules

| module | models |
|--------|--------|
| `CfgHeap` | the heap behind `cfgALLOC_M`, `cfgFREE_M` and `cfg_copy_string` |
| `CfgState` | the static variables of `config.c`, the locals of the running call, `TypeOK`, `Init`, the control operators shared by the calls |
| `CfgOptions` | `cfg_find`, `cfg_add_options` and `cfg_store`, the queries, the setters |
| `CfgArgs` | `cfg_read_args`: one action per branch of its loop |
| `CfgFile` | `cfg_read_file`: one action per branch of its loop |
| `Miniconf` | `cfg_init`, `cfg_exit`, the client, `Next`, `Spec`, fairness |
| `ConfigMap` | abstract: a map from names to typed values, marked as input when they are read |
| `CfgProps` | every property, the refinement mapping, the inductive invariants |
| `MCMiniconf` | the texts, option arrays, argument vectors and files for TLC |
| `MiniconfProofs` | proofs: types, and the table's names |
| `HeapProofs` | proofs: who owns which memory; extends `MiniconfProofs` |
| `ReadProofs` | proofs: what the two readers make of their input, and what the table is to its client; extends `HeapProofs` |
| `TestFrame` | `test.c` and `driver.c`: options, declaration of suites and units, the run |
| `SuiteList` | abstract: a focus, and a list of suites that a run takes off one by one |
| `FrameProps`, `MCTestFrame`, `FrameProofs` | its properties and refinement mapping; instances; proofs |
| `Pml` | `malloc.c`: four calls by several threads through hooks, allocators, emulations |
| `BlockStore` | abstract: each thread has a block or none, and its bytes |
| `PmlProps`, `MCPml`, `PmlProofs` | its properties and refinement mapping; an instance; proofs |
| `PmlNew` | `malloc.h` in C++: `pml_new` and `pml_delete` by several threads, constructors that throw or call them |
| `NewProps`, `MCNew`, `NewProofs` | its properties and inductive invariant; an instance; proofs |
| `TestDriver` | `TestFrame` and `Miniconf` composed: `TFR_args` and `TFR_usage` call by call, `cfg_report` |
| `DriverProps`, `MCDriver`, `DriverProofs` | its properties, the command line grammar among them, and its inductive invariant; an instance; proofs |
| `SourceDep` | `source_dep.awk`, with make and whoever edits the files around it |
| `DepProps`, `MCDeps`, `DepProofs` | its properties and inductive invariant; an instance; proofs |

`CfgState` extends `CfgHeap`; `CfgOptions` extends it; `CfgArgs` and `CfgFile`
extend `CfgOptions` and are joined by `Miniconf`. `CfgProps` instantiates
`ConfigMap` with `settings` defined from the table and the heap, and `reading` from
the call that runs.
`FrameProps` instantiates `SuiteList` with the sequences the links spell, and
`PmlProps` instantiates `BlockStore` with what each thread's pointer leads to.
`TestDriver` instantiates `Miniconf` and `TestFrame` on shared variables: each of
its actions is a step of the one, of the other, or of both, and `DriverProps`
shows that it still implements `TestFrame`. It checks options with
operators of `CfgProps`, instantiated for the command line and for the file.
`DriverProofs` instantiates `ReadProofs` in the same way as `TestDriver` does
`Miniconf`, and takes the theorems of miniconf from there.
`PmlNew` uses `pml_malloc` and `pml_free` as single steps; that `Pml` implements
`BlockStore` is what permits this. miniconf, pml and the build share no state.

### Correspondence to the code: miniconf

* `mem` is the heap: a sequence of cells, the address of a block being its
  index. A cell holds a string (an opaque value), `Raw` or `Freed`. Addresses are
  never reused, so a dangling pointer can never look valid by accident.
* `opts` is `cfg_option_S[0 .. cfg_option_count_S - 1]`. A slot has the three
  pointers, the type and the value union, of which `num` or `str` is in use.
* `blocks` is `cfg_block_S`; `block` is the one `cfg_read_args` fills, not yet
  counted. `state` and `current_option` are its locals.
* `call`, `input`, `next` say which API call runs, which array it walks, and
  where it stands. A call without a loop is one action; a call with a loop is an
  action that enters it, one action per turn, and one that returns. Between the
  steps of one call nothing else happens: the library is single-threaded. The
  steps exist because the properties look at the state inside a loop, and
  because a call can die, or run out of memory, between two of them.
* `result` is the return value of the last call that has one.
* `fault` is how the program died: `"abort"` for an assertion that failed,
  `"undefined"` for an access C gives no meaning to (`strcmp` of a null or freed
  pointer, `free` of a freed one). Both end the behaviour.
* A failing `malloc` is a choice made where the code calls it, per call (`Grant`);
  `failed` records that it happened. `CanFail` turns it off.

Decisions a reader should know:

* The builds that keep assertions are modelled (`cfgASSERT_M`, `setup.h:61`):
  `config.mak` compiles them out of release and profile builds, which behave the
  same until the first assertion that would fail.
* Apart from `cfg_init` and `cfg_exit`, whose assertions on `cfg_initialized`
  are modelled, a client calls only while the library is initialised, as
  `config.h:202` demands.
* `argv` has at least `argv[0]`, as main gets it from a shell, and keys in files
  are shorter than the 256-character buffer of the code (which marks this FIXME
  itself).
* A query does not change the state, so queries have no action; what they
  return is `ValueOf`, `cfg_type` and `cfg_input`, used by the properties, and
  their assertions are `AccessHalts`.
* `cfg_set_*` mark an option as input whoever calls them, as the code does.
  `ConfigMap` asks for the mark where arguments or a file are read (`Read`) and
  leaves it open for a client's own assignment (`Set`), because the header and the
  code disagree there; see the findings.
* Where `cfg_read_file` gets no line buffer it returns false and leaves its file
  open (config.c:432), as `files` shows.
* A line of a file is given by what the code's tests tell apart (its first
  character, whether it has `=`, whether its newline is missing), its key and
  its value. Characters are not modelled.

### Correspondence to the code: testframe

* `phase` is where `main` stands. In `TestFrame`, `TFR_args` is one action: what it
  reads through miniconf is any focus and any `-help`; `TestDriver` replaces this
  choice by the calls of miniconf. `storage` says what the focus points to (nothing, a literal passed to
  `TFR_set_focus`, a string of miniconf, a `strdup` copy, or freed memory), which
  decides whether a read or a `free` of it means anything.
* `first`, `link` and `hook` are `TFR_test_S.first`, the `next` members and
  `TFR_test_S.hook`. The code's hook is the address of a `next` member; here it
  is the suite that member is in, `NULL` for `first`.
* Each `TFR_SUITE_DECLARE_M` with the `TFR_SUITE_ADD_M`s after it is a `body`:
  the sequence of tests the user adds, chosen from `Bodies`, then one action for
  each. `Early` is what is added before any suite is declared: there is no
  current suite then, and nothing is added.
* `TFR_run` is a loop over suites, then units; the actions are its turns. A unit
  is the user's code: it passes or fails, and adds nothing to a suite. `i` counts
  from 1 here, from 0 in the code.
* The loop over the units reads `unit[i].func` before it asks whether `i` is one of
  the array's (test.c:192). Behind the last unit of a full suite that read has no
  meaning in C: the program dies (`ReadsBehind`), or goes on as if `i` had been
  tested first (`EndSuite`); both are choices of the model.
* `SuiteList` has the focus too, and decides with it which suite joins the list when
  it is declared, as the code does.
* `outcome` is not in the code: it records which units ran, for `VerdictExact`.
* Only `TFR_main` declares suites; names are shorter than the buffers they are
  formatted in. `MaxSuites` bounds `suite_tests`, above what a run over a list
  without a cycle can reach; it keeps TLC finite should the links close one.

### Correspondence to the code: the test driver

* `at` is the place in `TFR_args`, `TFR_main`, or the beginning of `TFR_run`
  (`TFR_usage`); the variables of `Miniconf` and `TestFrame` are what they are
  there. `mem` and `failed` are shared: `copy` is the address of the string
  `strdup` made of the focus, in miniconf's heap.
* `Options` is the table in `TFR_args` (test.c:312-320). `Files` says which path
  names which lines. `Conf!cfg_init` to `Conf!cfg_exit` are the actions of
  `Miniconf`, with their failing allocations and assertions.
* If `cfg_add_options` or `cfg_read_args` refuses, TFR_args is true all the same
  and the program runs without options (`TakeNone`). Nobody looks at what
  `cfg_read_file` returns.
* `cfg_report` prints one option a step; `shown` are the names of the types it
  printed. `TypeCode` is the type with the bit of an input option in it, as
  `cfg_value_type_name` gets it.
* The table of options is a definition, the only one miniconf is given
  (`OptionLists`), and nothing bounds the heap: `MaxCells`, which the runs of
  `Miniconf` use to stay finite, is `NULL` here.
* The description of the options (`Doc`) is left out in the instance: it is
  copied and freed like a name, which the runs of `Miniconf` check.

### Correspondence to the code: pml

* `mem` is what the arenas behind the hooks have given out: a block's arena and
  its bytes, each `"any"`, `"zero"` or `"data"`. Hooks are the user's; each is
  one step that is granted at *any* unused address, one freed a moment ago
  included, or refused.
* A thread's call is a sequence of steps: the hook (`pml_malloc`, `pml_calloc`,
  ...), for the emulation of realloc the free of the old block (`release`), the
  emulation's own report (`own_report`), the report of the entry point and the
  return (`report`). Other threads run in between.
* `Allocators` are the objects of `pml_init_allocator`, some of whose hooks may be
  missing: the code then fails an assertion, goes on, and calls a null pointer.
  Failing assertions do not stop the program; `asserted` remembers them.
* The client is a disciplined one: it changes the global hooks only while no
  block of theirs lives (`Quiet`), passes a block back to the allocator it is
  from, and calls through hooks that fit together (`Paired`). What happens
  otherwise is the user's fault in C too.
* `pml_emulate_realloc` copies `size` bytes from the old block also when it grows.
  That reads beyond the end of the old block, which has no meaning in C: the
  program dies, or goes on with bytes that are `"any"`; both are choices of the
  model. From a null pointer it dies.
* `Info` is what the debug hook is told: a free reports its pointer as `ptr` and
  leaves `in` 0 (malloc.c:193), a realloc the new block as `ptr` and the old one as
  `in`. The account (`balance`) is that of a hook that reads them so (`Came`,
  `Went`); it could not be kept by malloc.h:59-60, where a freed pointer is in `in`.
* `SizeLimit` is SIZE_MAX + 1 and `WideLimit` is UINT64_MAX + 1, scaled down: the
  products of `pml_emulate_calloc` wrap at them.
* Not asked: size 0 of an arena's realloc, where C libraries differ. Not
  modelled: `pml_set_assert_hook`, which changes how an assertion is printed.

### Correspondence to the code: pml in C++

* `mem` maps an address to the block `pml_malloc` returned: its arena, the class
  made there, the count in front (`front`, `NULL` if nobody wrote it), the
  elements asked for, and `room`, how many of them fit in the bytes asked for,
  which wrap at `SizeLimit`.
* `stack` holds each thread's calls, innermost last, with the locals `count` and
  `i`: a constructor that calls `pml_new` pushes a call, and the element it
  constructs gets the pointer when the call returns. `pc` is where the call
  stands; between two steps other threads run.
* A `plain` class may throw from its constructor. A `keeper` is the class of the
  tests (tests/pml/malloc.cpp) that registers `set_allocator`: its constructor
  takes an array from the allocator it was told, its destructor gives it back. It
  stands for any class whose objects own memory of pml.
* `checked` says whether the build has `PML_CHECK_S`. Both kinds are in one run.
* `tally` and `objects` are the account a debug hook can keep from NEW, NEWA,
  DELETE and DELETEA, as the tests' tracker does.
* `owned` is what the client may delete. It deletes a pointer once and with the
  allocator it came from, but may use the wrong operator.
* `fault` is how the program died: a null pointer written, memory outside the
  block touched, something read that nobody wrote, an unknown pointer freed, an
  object destroyed that is not alive.
* The `PML_ASSERT`s of `delete_n` do not stop the program; `asserted` remembers
  them.

### Correspondence to the code: the include scanner

* A file is a name in a directory of the search path or in the directory of
  generated files, or the source. `includes` says what each file includes, in
  order, also what a generated one will when it is there; `exists` what is there.
* The scan is one action per `#include`: a new file is found (any, since `for(i in
  search_path)` has no order), one found before is found, a generated one is
  assumed, or none is found and the script fails. `NextFile` is awk going on to the
  next of `ARGV`, `WriteDep` the END block. `queue` is `ARGV` from the current
  file on; a failed scan leaves the old dependency file.
* `Scan` and `Build` are make's rules (depend.mak): the dependency file depends on
  the source and on what it lists, so make builds what is listed and not there,
  and runs the scan if there is no dependency file or a prerequisite is newer.
  `stale` is that comparison of times, kept as a flag.
* `Write`, `Remove` and `Edit` are people, and rules that generate files. Files do
  not change during a scan: make runs the scans before it builds.

## 3. Runs

| run | question | bounds |
|-----|----------|--------|
| `args` | does `cfg_read_args` read *every* vector as the grammar says? | all 2801 vectors of at most 4 arguments over 7 kinds of argument: `-`/`+` a switch, an int option, a string option whose abbreviation is the int option's name, an unknown option, a plain word |
| `client` | do all calls, in every order, keep memory, table and files right? | two arrays of options that clash in names and abbreviations, 6 vectors, 7 files (every kind of line, missing file, empty file), setters; no call starts with more than 10 cells allocated; one life |
| `oom` | what if `malloc` refuses any subset of requests? | one array, two vectors, two files (one of them ends at its first line), 6 cells, two lives of the library; every allocation may fail, the line buffer included |
| `frame` | does the run walk what `TFR_main` declared, return, and tell the truth? | three suites, declared up to any number of times in any order, with one unit, too many, none or as many as fit; two focus names; `strdup` may fail |
| `pml` | do threads have a store of blocks, whatever the hooks and the interleaving? | two threads, three addresses, two arenas, one allocator without calloc that emulates realloc, sizes 1 and 2, 2 \* 2 wraps |
| `new` | do objects live and die once, in order, and do the reports tell? | two threads, three addresses, two classes, the global hooks and one allocator, arrays of 0, 2 and 4 elements, the last too large for `SizeLimit`; with and without `PML_CHECK_S` |
| `driver` | does the program read its options, report them and free its focus right? | all vectors of at most two arguments over the options of testframe, and some longer ones; files that are missing, set options, or end early; two suites; every allocation may fail |
| `deps` | is the dependency file exact, and does the scan end? | two directories in the search path and the generated one; four names, one in both directories, two generated; contents in which headers, also generated ones, include each other or a missing one |
| `realloc_null` | finding: `pml_realloc` of a null pointer allocates | as `pml` |
| `calloc_overflow` | finding: an overflow fails the assertion | as `pml`, size_t as wide as uint64_t |
| `late_focus` | finding: with a focus set, only its suite runs | two suites of one unit, one of them with the name in focus |
| `untold_array` | finding: an object is told its allocator before it is constructed | as `new` |

The passing runs reach 20 thousand to 1.6 million distinct states each.

Why the bounds suffice. Four arguments are enough for every pair of consecutive
automaton transitions, twice: a key and its value, then another key that ends
the line or takes a value; a value that looks like a key; a refused argument
before and after an assignment. In `client` the 10 cells allow two arrays to be
added (also the same twice, which must abort), then two reads and setters in
between; the array limits (`MaxOptions` 4, `MaxArgs` 6, `MaxBlocks` 2) are
reached and their assertions fire. In `oom` a call starts while fewer than 6 cells
are allocated: after the five of an array that is stored whole there is one more
call, and the more once more of them were refused, in the second life too. Three option slots
and two blocks are enough to have an earlier, a later and a clashing holder of
any pointer.

In `frame`, three suites are the fewest in which declaring one again cuts off a
suite that is neither the first nor the one declared; a suite with two units and
`MaxUnits` 2 is full and read past its end, and three units are one too many. In `pml`, two
threads and three addresses let a thread own two blocks (inside the emulation of
realloc) while the other takes the address just freed; a third thread adds no new
way for a report to be late, and `PmlProofs` holds for any number.

In `new`, three addresses are what an object, its member and a call of the other
thread need at once; two threads and immediate reuse of addresses are all a
report can be late for; arrays of two elements have a first, a last and an order,
and of the counts one makes the size wrap. `NewProofs` holds for any number. In
`driver` two arguments give every option with and without its value, an option
given twice, a refused one after an accepted one; the longer vectors name a file
and an option it also sets. In `deps` four names give a ring of headers, a ring of
generated ones, a header in two directories and one that is not there when it is
scanned; `DepProofs` holds for any number.

Deadlock is checked in `deps` only: in the other runs a program that died, used up
its bound, or came to the end of `main`, stops.

**Fairness.** `FairSpec` is used by `client`, for `CallsReturn`: weak fairness of
the loop steps of each call. It is the C semantics of a running loop, since no
step of a loop waits for anything. No client call is fair. `FairSpec` of
`TestFrame` is weak fairness of the turns of `TFR_run` only, for `RunEnds`: it
assumes that units return. Nothing is assumed of `TFR_main`. `FairSpec` of
`SourceDep` is weak fairness of the steps of the scan, for `ScanEnds`: awk reads
its files to the end and waits for nobody. make and the people are not fair.
`ScanEnds` has an exception, `Endless`: generated headers that are there and
include each other are appended to `ARGV` again and again (source_dep.awk:135-146
does not look whether they were found before). `Pml` and `PmlNew` have no liveness
property: no call waits for another.

**Findings.** What headers and comments say and the code does not do; PROJECT.json
"findings" quotes the lines. Four are shown by a run that TLC must find violated:

* `realloc_null`, `calloc_overflow`: the emulation of realloc reads through a null
  pointer when asked for a first block, and the overflow assertion of the
  emulation of calloc compares a product with itself where `size_t` has 64 bits.
  With a shorter `size_t` the assertion works (`SizeOrAssert` in `pml`).
* `late_focus`: by test.h:101 and 166-167 only the suite in focus is executed. The
  focus is compared with a suite when it is declared, so those declared before
  `TFR_set_focus` run.
* `untold_array`: by malloc.h:218-223 an object is informed of its allocator before
  its constructor runs. Elements of an array are not.

The others show in what a property of a passing run has to allow:

* `UndefinedOnly` of `FrameProps` (run `frame`): `TFR_run` frees a focus that
  `TFR_set_focus` stored (test.c:260), and reads behind the array of a suite that
  has as many units as it may have (test.c:192).
* `ImplementsList` (`frame`): a suite that is declared again cuts off those after
  it, so not all suites run (test.c:134, test.h:113).
* `HelpComplete` (`driver`): `cfg_value_type_name` tests its range the wrong way
  round and returns null for every type, which the report prints (util.c:73).
* `LedgerExact` (`pml`): a freed pointer is reported in another field than the one
  malloc.h:59-60 names (malloc.c:193).
* `HeldOnce` (`new`): a constructor that throws leaves the block to nobody, and the
  elements before it alive, unlike `new` (malloc.h:364, malloc.h:7-8).
* `ImplementsMap` (`client`): `cfg_set_*` mark an option as input also when the
  client calls them (config.c:576, 589, 606, 619), unlike config.h:158 and 258-259.

Three sentences of `config.h` (206, 215, 236) hold in a weaker form only, and the
runs check that form: `cfg_exit` frees what is still owned, but not what
`cfg_copy_to_option` replaced (`OnlyCaptureLeaks`, `OnlyKnownLeaks`); adding
options is safe unless the table holds one without a name, from a refused
`malloc` or a life that ended (`NothingUndefined`); and arguments are left in
`argv` only up to a refused one (`LeftoverExact`, `ArgsVerdict`).

## 4. Proofs

The theorems hold for every value of the constants that the assumptions of the
modules allow: any texts, arrays, vectors and files of any length, any number of
threads, suites, blocks, allocators and files, any limits, and any failing
allocations. Each rests on an inductive invariant that stands in the `Props`
module of its component (`CfgProps`, `FrameProps`, `PmlProps`, `NewProps`,
`DepProps`, `DriverProps`), where TLC checked it on the instance of the component's run before
it was proved; what only a proof needs besides is defined beside the proof.

### miniconf: `MiniconfProofs`, `HeapProofs`, `ReadProofs`

Each of these modules extends the one before.

* `TypeCorrect`: `Spec => []TypeOK`, inductive together with `CallState`: a running
  `cfg_read_args` has its block, a running `cfg_read_file` its open file.
* `NameLookupHolds`: although abbreviations may clash with anything, the name of a
  stored option finds that option. Lookup takes the first match, so no *earlier*
  option may stop the scan for a name (`NamesApart`): `cfg_store` establishes it,
  since it asserts that `cfg_find` of the new name finds nothing. To keep it, no
  step may change the memory of a name: `NamesAlone` (no string value and no line
  buffer shares a cell with a name) and `InRange` (no pointer beyond the heap, so a
  fresh cell is shared with nothing).
* `MemoryHolds`: `MemoryInvariant`. `FileClosed` is an action property: a step opens
  or closes a file only where `cfg_read_file` begins or ends, but for the one that
  gets no buffer. The theorems `OwnedOnceHolds`,
  `BlockFitsHolds`, `FileClosedHolds`, `NothingUndefinedHolds` and
  `OnlyCaptureLeaksHolds` follow. What `OwnedOnce` needs: the locals of a call are
  there only while it runs (`Locals`), names are lost only to `malloc` or `cfg_exit`
  (`NamesLive`), a key that waits is one with a value (`KeyStored`), each argument
  takes at most one place (`BlockRoom`). The pointers miniconf keeps are named by
  their places (`Holders`). One lemma says that if a step frees only what a place
  lets go of, and a place gets only a new pointer or one let go of, then pointers
  stay apart and alive; every action is an instance of it, and of a second one
  that says what is lost.
* `ArgsHold`: `ArgsInvariant`, from which `CaptureConsistentHolds`,
  `LeftoverExactHolds` and `ArgsVerdictHolds` follow. The loop of `cfg_read_args`
  agrees with the grammar after every argument; the step needs that assignments
  do not change what a key finds, and that `LeftBefore` grows by the argument
  the branch keeps.
* `LastWinsHolds`: a turn of either loop sets exactly the option the grammar says
  to the value it says, and every other turn sets none. An option that cannot be
  found can be neither set nor asked about: if the first slot has lost its name
  (`Nameless`), every lookup dies, and otherwise all the slots before the option are
  intact.
* `AddReportsFailureHolds`, from `AddedSoFar`: the options the loop of
  `cfg_add_options` has passed are in the table under their names, with their
  abbreviations and types, and later ones do not change them.
* `ImplementsMapHolds`: `Spec => ImplementsMap`, the refinement of `ConfigMap`. A
  step of a call gives at most one option a value of its type and marks it as input
  (`Effect`), which is `Read` in a reading call and `Set` otherwise; a stored option
  is `Define`, `cfg_exit` is `Clear`, everything else stutters. The values have their type because of `Valued`, and the map is a
  function of names because of `NamesApart`.

### testframe: `FrameProofs`

* `FrameTypeCorrect`, `AcyclicHolds`, `VerdictExactHolds`, `UnitsAtHomeHolds`,
  `FrameUndefinedOnly`, from `FrameInvariant`. Lists are treated as sets instead of
  paths, which need recursion: `Listed` and `From(s)` are the suites that every
  set closed under the links contains if it has the first suite, or `s`. The links
  close no cycle if every non-empty set of suites has a member that links out of
  it, which `TFR_add` keeps because the suite it links in links nowhere. For the
  verdict, `Tally` says which units have an outcome (those of the suites the links
  have left behind, and of the current one before `i`) and what the counters say of
  them. `Packed` and `BodyLeft` say that the units of a suite are the first
  of its array, also when it is declared again with fewer; `Filled` that a suite on
  the list has a unit unless an empty body was declared; `Ready` whose the focus is.
* `ImplementsListHolds`: `Spec => ImplementsList`, the refinement of `SuiteList`.
  The abstract list is the chain of suites that `next` spells, in which the place of
  each is a recursive function (`Followed`). That there is such a function is shown
  by the least number of links for which there would be none; that it visits no suite
  twice, by `Acyclic`; that it ends at all, because there are finitely many suites.
  From then on the chain is known by what it spells (`Spells`): it starts at the
  first suite, each one links to the next, and the last to nothing; and it is the
  only sequence that does. `TFR_add` then appends to it, or cuts it off behind a
  suite that is declared again, because `hook` is the last of the chain
  (`HookedLast`).

### the test driver: `DriverProofs`

The composition is proved from the parts: nothing of the proofs of miniconf is
repeated.

* `ProgramInvariantHolds`. The part of miniconf (`Linked`): every step of the program
  is one of `Miniconf` or leaves its variables alone, except `strdup` of the focus,
  which takes a new cell in the same heap. `ReadProofs` proves that its whole
  invariant (`LibraryInvariant`) survives such an allocation by the client. The part of
  the program is `DriverInvariant`: where it stands says which call of miniconf runs
  and on what (`Control`), what testframe has taken so far (`Focused`), and that the
  table holds the five options at their places (`Stocked`), unless one was refused and
  nothing is taken then. From it follows that the report and `cfg_exit` meet no
  dangling pointer, and with `NothingUndefined` that no call of miniconf does anything
  undefined (`DriverWellDefined`, which no run checks): an option without a
  name is in the table only after `TFR_args` has given up, and is never looked up.
* `ImplementsFrameHolds`: `Spec => ImplementsFrame`. Reading, whatever is read, is a
  stutter of `TestFrame`; its end is a `TFR_args` with some focus and some `-help`,
  because the value of the focus is a text or nothing (`Valued`).
* `OptionsAsAskedHolds`: while `TFR_args` reads, the values are what the arguments and
  lines read so far ask for (`ReadAsAsked`), beginning with the values `TFR_args` gave
  its options. Each turn of a loop is the fact `LastWins` rests on (`ReadingTurn`); the
  lemmas `FormIs` and `FormWillBe` bring the operators of `CfgProps` in the form in
  which table and heap are arguments, so that the grammar can be compared before and
  after a step: what a key finds does not change once the table is stocked
  (`TableKept`). The file is the one the command line names, and its lines count up to
  the first that is none.
* `HelpCompleteHolds`: a report is asked for only over a table that holds all options
  (`Stocked`), and ends only where it has shown as many as the table holds.
* `OnlyKnownLeaksHolds`: what no part can free is what miniconf has lost
  (`OnlyCaptureLeaks`), but for the copy of the focus. At the end only that copy may
  be left, since `cfg_exit` frees all miniconf owns (`Released`).

### pml: `PmlProofs`

* `PmlTypeCorrect`, `BlocksHeldAlways`, `UndefinedOnlyHolds`, from `PmlInvariant`. A
  block's bytes can only be copied, and typed, if it is there (`BlocksHeld`), and
  that the emulation of realloc grows one is known from the block its caller gave it; a free
  is of a known block only if what a thread holds is from the arena its allocator
  frees to (`Routed`); the emulation of realloc frees what it should only
  because its new block is not the old one (`Moved`). `HoldsStep` says once how a
  step that gives up some blocks and takes unused addresses keeps holdings apart.
* `ImplementsStoreHolds`: the refinement of `BlockStore`, hence what other modules
  may assume of `pml_malloc` and `pml_free`. A step of a thread shows in what its own
  client has and nowhere else (`OthersHold`); the emulation of realloc changes
  nothing for the client until it frees the old block, and then the new block is
  the copy (`MovedCopy`).
* `LedgerExactHolds`: `LedgerExact` speaks of the moments when no call runs; at all
  others the account is right but for what the running calls have still to report
  (`Accounted`). What a thread owes for an address follows from where its call is
  (`Owes`): an emulation has freed or taken a block before the entry point it was
  called from reports it. What all of them owe (`Total`) is counted by cardinalities
  of sets of threads, so that no sum over a set is needed, and a step of one thread
  moves it from one of these sets to another (`TotalStep`).
* `SizeOrAssertHolds`: from `Sized`, under the hypothesis `WideEnough`: the 64-bit
  product that `pml_emulate_calloc` compares with is exact. This is the case of a
  32-bit `size_t`; where `size_t` has 64 bits the property is false, which the run
  `calloc_overflow` shows.

### pml in C++: `NewProofs`

* `NewTypeCorrect` and `ReportsAlternateHolds`, from `NewInvariant`. What a debug
  hook has heard of a block follows from who owns it and, if a call does, from how
  far it is (`Due`, `Accounts`); that needs every block to have one owner
  (`OneOwner`), calls with a block where they use it (`Shape`), and members that go
  back to the allocator they came from (`MembersTold`). Three lemmas say what a call
  does to owners: it goes on with its block (`AdvanceKeeps`), a call within it takes
  over a block or a new one (`CallKeeps`), it ends and its block passes on, is freed
  or is left behind (`ReturnKeeps`).
* `LifeInvariantHolds`: in the same way, what a block is *like* follows from its
  owner and the stage of the call: one that a client or an object has is `Whole`,
  one `pml_new` is at work on has its first `i` elements alive and the rest raw
  (`Making`), one `pml_delete` is at work on has its last `i` dead (`Unmaking`). A
  nested call is for the element that is next (`Within`), and no block is without an
  owner but those of a constructor that threw (`NothingLost`), which have none
  because what anyone owns is whole or at work. `HeldOnceHolds`,
  `DiesOnlyOfHolds` and `LifeOrderHolds` follow.
* `ObjectsCountedHolds`, from `ObjectsExact`: the objects counted are the elements of the
  blocks whose birth, but not yet whose death, was reported (`Born`). The birth of an
  array is reported when the last element is constructed, its death with the number
  in front. Only `pml_delete` of an array counts wrongly (`Misuse`), and such a call
  never returns: an assertion fails with `PML_CHECK_S`, and without it a pointer that
  is the start of no block is freed (`MisuseStays`).

### include scanner: `DepProofs`

* `DepExactHolds`, from `DepInvariant`. During a scan every file on the list that is
  there has been read, up to the line where the scan is, or still waits in the
  queue (`Progress`), and the list is reached from the source; at the end nothing
  waits, so the list is complete. Reachability is stated with sets closed under
  #include instead of paths. Between scans nothing is left of one (`Idle`), so a
  change of files disturbs only what `stale` says.

### Assumptions

`HeapAssumption`, `DataAssumption`, `ClientAssumption`, `FrameAssumption`,
`PmlAssumption`, `SizeAssumption`, `NewAssumption`, `ScanAssumption` and `DriverAssumption` say that the special
values are distinct from addresses, texts and blocks (in C a null pointer is the
address of nothing), that the conversions are total functions, that `MaxSize`
bounds the sizes asked for, and that client inputs are well typed: among them
that a switch is given a `cfgBool` (`Switches`) and that `argv` has its
`argv[0]`. `SuitesAssumption` and `ThreadAssumption` say that a program has finitely many
suites and threads. `DriverAssumption` adds that at least one file can be open, that a
file has lines, and that a focus may be any text. TLC evaluates all of them in every run of their component.
`MinFacts` (a non-empty set of naturals has a least element) is taken from
well-foundedness in the library, not by induction.

### Only model-checked, and why

* Liveness: `CallsReturn`, `RunEnds`, `ScanEnds`. The prover has no rules for
  fairness and `ENABLED`.
* The properties of the four violated runs. Each states what a header or a comment
  says, and is false of the code.

Every invariant and every action property that a passing run checks is a theorem.

## 5. Plan

1. Done: the models, their runs, and the proofs of every component and of the
   composition of testframe with miniconf.
2. Open: a client of miniconf that keeps pointers returned by `cfg_string`, and
   passes them back to `cfg_set_string`; the titles and the verbosity of testframe.

## 6. Not modelled

* The make rules, beyond the one that runs the scanner, have no state of their
  own; the test suites are clients.
* Text formatting, logging, colours, titles and the wording of reports; of
  `cfg_report`, all but the names of the types.
* Builds without assertions, beyond the first assertion that would fail.
* Client errors that are errors in plain C as well: a block freed twice by the
  client, a hook that does not fit its free, an object deleted with another
  allocator.
* Of the build: times that are equal or go backwards, files that change while the
  scanner reads them, several makes at once; a header that appears in the search
  path before a listed one of the same name, of which make learns nothing.
* What C libraries do with a realloc to size 0.
