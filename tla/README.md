# A specification of myosotis

myosotis is a library that the loader `myoink` puts into a running il2cpp
(Unity) game. It hooks methods of the game so that it does not end itself,
sends its web requests to another server, and replaces the game's request
transport by its own. A second library, `myodump`, writes the game's classes to
files. This directory models the parts of them in which threads, failures and
time meet, or in which a decision rests on less than it seems to, checks them
with TLC, and proves what matters most for every instance with TLAPS.

Paths below are relative to the repository; line numbers are those of the
modelled commit. `PROJECT.json` maps every definition to the lines it models.

## The system

| part | state it keeps | operations | what makes it correct |
|---|---|---|---|
| `myoink` (tools/loader.cpp) | the remote copy of the DLL's path, the remote thread | find the DLL, poll for the window, allocate, write, create the thread, wait 30 s, free | no memory left in the game; the path outlives its reader; exit code 0 is the truth; it ends |
| `DllMain`, early hooks (src/dllmain.cpp) | import tables of the executable | replace ExitProcess, start the init thread | log lines in order; the init thread starts after DllMain's own line |
| startup (src/init.cpp) | poll counters | wait for GameAssembly.dll, for names, for the domain; attach; install three patches | it ends; a ready game gets every patch |
| name map (src/il2cpp/il2cpp_names.cpp) | `g_map` | scan UnityPlayer.dll, else load the embedded map | each canonical name leads to its function |
| il2cpp bridge (src/il2cpp/il2cpp.cpp) | `g_game_assembly`, the cache `g_fns` | `fn`, `init`, the wrappers, `find_class` | a cached null is the truth; no call through null, no race on the cache |
| hook engine (src/hook.cpp) | the trampoline page; the game's method slots and code | `install_inline` | calls reach stub and original, once each, whatever fails and whoever runs |
| guard patch (src/patches/guard.cpp) | nothing | hook what could end the game with constant stubs | the same |
| http patch (src/patches/http.cpp) | `g_send_original`, `g_post_original` | two stubs that rewrite a url and call the original | there is an original to call, and it is not the stub; a request goes where it should, once redirected or twice |
| request patch (src/patches/request.cpp) | the packet id map, `g_schema_methods`, the token | `build_packet_id_map`, `myosotis_add_request` | events report answers, once; token and packet id go where they should; the game thread comes back |
| WinHTTP client (src/http.cpp) | three handles for each call | `post`, `get` | at most one execution by the server; no handle lost; a true Response; it returns |
| log (src/log.cpp) | `g_log_path`, `g_log_lock`, the file | `log_init`, `log_raw` | one writer at a time; lines kept, in order |
| configuration (src/config.cpp) | `config::g` | `load` | - |
| PE reader, scanner (src/il2cpp/pe.cpp, scan.cpp) | an image | exports, call targets and strings of a body | no error alone gives a function a wrong name |
| dumper (src/dump.cpp) | the two files | wait, find names, wait, walk the metadata twice | the files agree; types and enums mean what the game's do |
| login (src/patches/login.cpp) | - | not called by `init_all` | - |
| tools (tools/*.py, test_scan.cpp, build.bat) | - | a sample server, scripts | - |

How they interact. `myoink` starts a thread in the game that loads the DLL.
`DllMain` runs there under the loader lock, hooks ExitProcess, logs, and starts
the init thread. From then on the library's code runs on two kinds of threads:
the init thread, which walks through startup once, and the game's own threads,
which run into a stub whenever they call a hooked method. They share the code
and method slots being patched, the pointers to the originals, the function
cache, the getter cache of the request patch and the log, with a lock around the
log file only. The request patch calls the WinHTTP client on the game's thread,
which the call blocks, and then the game's own event handler, which may come
back into the request patch.

What is hard, and hard to test: the install of a hook beside running callers;
any one of its steps failing; a domain that is ready with some of its assemblies
only; a server that acts though the caller gave up; nested and concurrent
`AddRequest`; the log set up twice; `myoink` freeing what a slow game still
needs. And three places where the code goes by less than it would need to be
sure: an instruction decoder without operand sizes, a scanner that decodes
nothing, and names and paths told by their order. `PROJECT.json` lists these hazards, each at its line, with the properties
that cover it.

## The modules

**Hook** (src/hook.cpp with guard.cpp and http.cpp). The installer works through
`Plan`, a sequence of (method, stub) pairs, as `install_guard`, `install_http`
and `install_request` do one after another, and the game's threads call methods
all the while. The installer's actions are the steps of `install_one` and
`install_inline`: `ReadOriginal` (http.cpp:162-176), `WriteMethodPtr` or its
failure (hook.cpp:15-30), `BuildTrampoline` or one of three reasons not to
(`CannotCover`, `NoPage`, `PageFull`; 243-271), `BeginPatch` or its failure and
`EndPatch` (286-298), `Publish` (http.cpp:177-184). The copy of the jump into the
body is two steps, since no thread is suspended: in between the body is `Torn`.
Machine code is abstracted to what redirection depends on: whether a body's
first bytes are original, torn or a jump to a stub; where its instructions end
(`Ends`) and where `insn_len` thinks they do (`Bounds`, up to the first that it
does not know); which of them depend on their address (`PosDep`). A trampoline
runs the prologue only if it is `Faithful`: it ends where an instruction really
ends, and holds none that depends on its address. A thread executing a body may run it,
follow the jump, be preempted inside the prologue, and in a torn body do any of
these or go `wild`; x86 lets a thread see any mixture of old and new bytes, hence
the choice. A call through `runtime_invoke` starts at the slot, one compiled into
the game at the body.

**Intercept** is what `install_inline` promises to those who call a method once its hook
is done (hook.cpp:222-228): the hook is `absent`, in the methodPointer `slot` only, or the
code is `patched` as well, and a call comes to the original alone or is intercepted once,
by which of the three it is. Hook implements it for the methods in `Lone`, under the mapping
`HookState` and `Outcome`, in which a call that runs torn code, overflows the stack, or runs
anything else than its stub and its original has the outcome "broken", which no action of
Intercept gives.

**Decoder** (hook.cpp:47-249) is `modrm_len` and `insn_len` over bytes, and beside
them `TrueLen`, the lengths that the architecture defines. `Misread` is what the
decoder gets wrong: 16-bit immediates, addresses of `mov` with prefix 67, three byte
opcodes, and some two byte ones. `EndsBy` is the walk of `install_inline` over the first
instructions of a body. MCHook gives each of its bodies bytes, and has two assumptions
that TLC evaluates: `EndsDecoded`, that the ends given to Hook are those that the two
operators find in the bytes, and `DecoderAgrees`, that for every opcode behind prefixes 66,
67 and REX.W and in front of each kind of address the decoder agrees with the
architecture, gives up, or is said to misread, and that each opcode that `Misread` names is
indeed read wrong before some address.

**HttpPatch** (src/patches/http.cpp). The game makes one request after another, through
`Post` or not, while `install_one` walks through its two hooks. Urls are sequences
of the characters that the code looks for, and words; `url_host_scheme`,
`url_replace_host_scheme` and `url_path` search them as the code does. The reference
is a record of scheme, host, path and query, and `Destination` the url that such a
request should end at. In the window before the trampoline is stored a stub runs on
its own result.

**Startup** (src/init.cpp, il2cpp_names.cpp, il2cpp.cpp). `pc` follows `init_all`
from its first wait. The environment loads GameAssembly.dll and registers
assemblies. `names` is the set of functions the name map leads to: the scan
yields `Scanned`, the fallback any member of `Embedded`. `fns` is the function
cache; adding an entry takes two steps, `Miss` and `Insert`, and a thread that uses the
cache in between, to look an entry up or to add one too, meets a map that is
changing (`CorruptCache`). What a thread may look up follows from where it stands
(`CallsOf`): the wrappers of the stubs that are hooked, for a thread of the game. Functions
resolved in `il2cpp::init` are added in one step, as no stub is installed by then.

**Names** (il2cpp_names.cpp, scan.cpp) is the scan itself. An image is a sequence of
places, each a call, a load, three bytes CC or a load that the scanner does not
know, and `real` or the bytes of some other instruction; the scanner cannot tell.
The vectors of hits that the scanner makes are sets of places, taken in their order.
`find_load_il2cpp` follows the calls from UnityMain, `AddName` and `NextCallee` collect
what LoadIl2CPP and its callees load, `TakeFound` tests the number, and
`resolve_embedded` is the fallback. For reference an image knows where its functions
start and which names they load in truth: those of the visits (a call of LoadIl2CPP and a
load in what it calls) that a disassembler would make, each where it is visited first
(`FirstVisits`).

**Dumper** (src/dump.cpp) composes Names with `run()`: both waits beside a game that
loads and registers, and the two files, each from its own walk over as many
assemblies as there are when it begins. With a wrong map anything may `Crash`. What
is written of a field's type is `FieldText`, from **CsTypes**: `json_type`, from the text
that il2cpp gives a type to that of C# (`CSharp`), with the type itself as reference. Both
are recursive functions. A text is a sequence of tokens, so that spaces do not occur and a
dotted name is one of the set `Dotted`. The case of a bare generic definition (lines
317-332) is left out, as no field has such a type.

**PacketMap** (request.cpp:128-367) is `build_api_path` and `build_packet_id_map`. A class
is what they look at: its getters in the order they are listed, with what they
return, and those of its base's type arguments. For reference it knows the path
and the packet id that the game uses. A path has the id of the last class that gives it
one, by assembly and by place in it (`Entries`), which is what the code's loop leaves in
`g_packet_ids`. Another class's getter may come first, so that a class may go by a path that
is not its own (`GoesBy`), and replace the packet id of another there (`Overrides`).

**Exchange** is what `post` and `get` promise, in four actions: a call submits
a request, the server executes it at most once and perhaps after the caller
gave up, and the caller gets an answer that the server gave, or a failure.
**Transport** is `do_request` (src/http.cpp:73-132), step by step, and implements
it under the mapping `Progress`, `Reply`.

**Request** (src/patches/request.cpp) extends Exchange and PacketMap and models
`myosotis_add_request` as a stack of calls for every game thread: the handler
that an event invokes may call it again. What is posted is computed by the
operators `Host`, `Header`, `WirePid`, `should_inject_token`, `inject_token` from
a schema, reduced to what they look at. `seen` is the number of assemblies that were
there when the packet map was made. `urlFirst` is whether the class declares
the url's getter before the body's, which is all the code goes by. `has` is what the game
has of the two things that every call looks up by name, the class HttpApiSchema and the
event's Invoke with one parameter: without the first nothing is posted
(`NoSchemaClass`), without the second every answer is dropped (`NoInvoke`). The early
return for a null schema is left out; it has no effect.

**Log** (src/log.cpp, dllmain.cpp) starts when DllMain has put the ExitProcess stub in
place, so that a game thread may log before DllMain itself does. Each thread walks
through `ensure_log_path` and `write_file` statement by statement; the init thread runs
`log_init` first. `inits` are the threads that have initialised the lock, which two may do
in the beginning; `InitLock` forgets an owner there is, who then leaves the lock `broken`,
so that it may let anyone in. The path is a string without a guard. A thread is at "assign"
from its way into the assignment to the end of it. Meanwhile others may find the old
value, the new one or neither (`PathMoves`), and an open of the file may fail, which loses
the line (`LoseLine`). The assignment frees the buffer of the old value: if another thread
is opening the file by it, or clearing or assigning it too, the run ends at `raced`
(`PathRaces`), and what the freed memory does is not modelled. `early` remembers the lines
whose write began before the path was `Settled`: before `log_init` returned, or while
a thread that found the path cleared may still assign it.

**Loader** (tools/loader.cpp). `wmain` and `inject_dll` with every early return,
beside a game that may show its window, exit, and load slowly.

**HookProofs**, **StartupProofs**, **TransportProofs**, **RequestProofs**,
**HttpPatchProofs**, **DumperProofs**, **LogProofs** and **LoaderProofs** hold the theorems;
**MC...** the instances.

## The runs

| run | checks | shows |
|---|---|---|
| hook | Hook, 1 thread, 6 hooks, depth 3, a page of 70 bytes | trampolines are disjoint, a wrapping stub always has an original, re-entry only in the window, Intercept is implemented and calls of settled methods return |
| hook_misread | Hook, the two http hooks, a 16-bit constant in a prologue | violated, see below |
| hook_window | Hook, the two http hooks | violated, see below |
| startup | Startup, 2 threads, 7 functions, 2 assemblies, 3 patches, 3 polls | nulls, crashes, termination, a ready game is patched |
| transport | Transport, 2 calls, answers of up to 2 reads | handles, refinement of Exchange, termination |
| transport_cut | the same | violated, see below |
| request | Request, 2 threads, 2 calls, 6 schemas, 2 configurations, 2 packet maps, 4 games | what is posted and what the game is told |
| log | Log, DllMain, the init thread and 2 game threads, 5 lines | exclusion, later lines kept, nobody stuck |
| log_early | Log, 1 game thread, 1 line | violated, see below |
| loader | Loader, 2 runs of myoink, 2 polls | memory, exit code, termination |
| dumper | Dumper, 3 functions, all images up to two changes from the build, 4 assemblies, 2 polls | what a wrong map takes, that names differ, that the files agree, that types read right |
| http | HttpPatch, 33 urls, 25 configurations, 4 games | where requests end up and what X-Original-Url says |

Bounds. In `hook` the six hooks are one of each kind: replacing stubs on a far body
of its own, on an abstract method, on a body that the decoder cannot cover and on
one that is shared and reads memory through rip; a wrapping stub on a near body
(5 byte jump), and one on the shared body, which the hook before has patched by then.
The page holds two trampolines and not three, so that it fills up in the middle. A
thread matters to the installer's invariants only one at a time, and to another
thread not at all, so one thread shows every interleaving with the installer; the
theorems cover any number. Depth 3 is where recursion through the stub is already
distinguishable from one nested call. Three polls in `startup` and two in
`loader` and `dumper` allow none, some and all to pass before the event waited for. In
`transport` two reads allow no, a cut and a whole body. In `request` two calls
nest or overlap in every way; a third repeats one of the two patterns; the packet map is
made before and after the classes are there, and two classes go by another's path, one
listed before that one and one after. In `log` one game thread writes two lines and
the other threads one each. That is enough for both game threads to initialise the
lock, for one to assign the path late, and for the other to write before, between and
after; with two lines, order and loss show.

In `dumper` the build that the embedded map was made from has UnityMain, its body, the
implementation, a helper, LoadIl2CPP and two callees. Changes add, at the start or
the end of a function, a place that is no instruction or a name that is one, turn a
load into one that the scanner misses, drop a call, the padding behind a function,
or the export. Two of them are the least that can deceive the test of the
number. The fields have generic types in each other up to three deep. In `http` urls
and paths are there that look like those to be redirected and are not, queries that
hold a url, and configurations without either url, or with one that is not absolute.

The four violated runs are disagreements of the code with its own comments.

- `hook_misread`: `insn_len` passes over prefix 66 and counts four immediate bytes for
  `mov word [rcx+10h], 1234h`, which has two, so that the trampoline ends in the middle of a
  later instruction (hook.cpp:160), against "just enough to find instruction
  boundaries so the inline-patch trampoline doesn't split an instruction" (hook.cpp:42-43).
- `hook_window`: the trampoline is stored in `g_send_original` only after the body
  jumps to the stub (http.cpp:178-181). A call in between runs the stub from inside
  itself, until the assignment lands or the stack ends, against "Call the original
  SendWebRequest via the trampoline and return its result" (http.cpp:138).
- `transport_cut`: a transfer that breaks in mid-body ends the read loop like the
  end of the body, so status and part of the body come back as a success, against
  "HTTP status code; 0 on transport failure" (include/http.hpp:12).
- `log_early`: `log_init` truncates the file that `DllMain` has written to, against
  "We append every line ... so a failed init leaves a visible trail" (log.cpp:4-5).

`CHECK_DEADLOCK FALSE` is in every configuration but that of `http`, where the game can always
go on: the other systems end, or stop when the game has crashed or makes no more
calls.

### Fairness

Liveness is checked under weak fairness of single actors only. In Hook: the
installer and a thread inside a call go on (threads are scheduled); nobody has to
make a call. In Startup: the init thread goes on; the game has to do nothing, so
that the limits of the waits are what ends them. In Transport: each WinHTTP
function returns, which its default time limits guarantee
(src/http.cpp never calls WinHttpSetTimeouts); the server has to do nothing. In
Request: the stub's own steps, with `post` returning by the result of Transport,
and handlers returning, which the game owes itself. In Log: every thread goes on; no
fairness of the lock is needed, as every thread writes finitely many lines and
the lock is free in the end. In Loader: `myoink` goes on; the game has to do
nothing, and a thread in it may take for ever.

## The proofs

TLC checks small instances; HookProofs proves for every set of methods, bodies,
stubs and threads, every plan, page size and depth:

- `TypeCorrect`: `Spec => []TypeOK`. TypeOK is not inductive: `ret` is a body only
  because slots of hooks to come are untouched. `Frontier` says so: from hook k on,
  every slot holds what it held initially, and while a body is being
  patched `ret` points to the body of the current method. It rests on
  `PlanAssumption`, that a method is hooked once. `TypeInv` is both.
- `TrampolinesStayPacked`: every trampoline ends before the next begins and before
  `used`, which never passes `PageSize`.
- `OriginalAlwaysReachable`: the strengthening `ArmedInv` is that a wrapping stub
  which can be reached at all (it is in a slot, in a body, in a copied jump, or
  a thread is on its way to it) has an original, and that a body is torn only
  while the installer is at it.
- `ReentryConfinedToWindow`: by `PatchedInv`, a body that jumps to a wrapping stub
  belongs to a finished hook whose original is a trampoline, or to the hook
  whose result is about to be stored.
- `OriginalAlwaysResumesBody`: every trampoline in use was made for its stub's
  method, covers the patch and ends where `insn_len` finds the end of an instruction
  (`Bounds`). Where it finds true ones only (within `Ends`), so is this one;
  `hook_misread` shows that the two differ.
- `HookImplementsIntercept`: `Spec => Promise!InterceptSpec`. It needs three invariants
  more. `ProgressInv` says how far the hook of each method has come, in terms of `k` and
  `ipc`: what its slot, its body and its original can be. `CallInv` says of a thread in a
  settled call where it can be and what it has run so far, with a case for each kind of
  address, and that it is in the original where the hook is absent. `IdleInv` says that a
  thread without a call has no trace of one. A step of the installer begins or ends the
  hook `k` and leaves the state of every other alone; a step of a thread begins, completes
  or ends its call. A call of a settled method never meets a torn body, since a body is
  torn only for the hook being installed.

and, for every code and every place in it:

- `InstructionsReadRight`: `insn_len` gives the instruction's length or 0, unless it is one
  of `Misread`, provided three bytes follow its legacy prefixes. The opcodes are split
  into the kinds that `operand_len` tells apart, and `KindsOfOpcodes` compares each kind with
  the architecture's tables;
- `WalkStaysOnBoundaries`: where no instruction is misread, the walk of `install_inline` finds
  ends of instructions only. This is what `Alone` asks of a body (`Bounds` within `Ends`), so
  that of its conditions only those about the game's code are left to be assumed.

TransportProofs proves, for any number of calls and any length of answers:

- `TransportTypeCorrect`, with the strengthening that sent and executed counts
  follow `pc` (a request is sent at most once because `send` is passed once);
- `HandlesStayNested`, from the handles a call holds at each `pc`;
- `TransportImplementsExchange`: `Spec => Promise!ExchangeSpec`. Every step of
  `do_request` maps to one of Submit, Answer, Fail, or to a stutter, and `Serve` to
  Serve. It needs that an error excludes a status and a body, and that without an
  error a returning call was answered.

StartupProofs proves, for any functions, assemblies, patches, threads, name maps and
limits:

- `StartupTypeCorrect`: neither wait passes its limit;
- `CachedNullsAreGenuine`: `NullsAreGenuine` is not inductive, since the name map changes
  when it is resolved and a lookup may be in progress. `CacheInv` adds what makes
  the order of init.cpp:74-81 right: nothing is resolved before the bridge has its
  module, the names are fixed by then, an "ok" is as true as a null, and the
  library's code runs in the game only while patches are being installed or after;
- `EveryCrashHasCause`: a crash takes a missing name, or a thread that uses the cache while
  another adds an entry that `init` did not resolve. `CacheInv` also says that the domain stays ready from
  `attach` on, because cached answers and assemblies never go away. `CrashInv` takes
  the cause from the null that was called.

LoaderProofs proves, for any number of runs of `myoink` and any limit of its polls:

- `LoaderTypeCorrect`; `NoCopyIsLeft` and `PathOutlivesItsReader`, from `CopyInv`: a
  copy exists only while its run is between the allocation and the free, and a remote
  thread that still has to read belongs to a run that waits or gave up waiting;
- `ZeroAlwaysMeansLoaded`, from `CodeInv`, by which a remote thread's exit code other
  than 0 means that the DLL is in the game or that the game is gone.

RequestProofs proves, for any schemas, configurations, assemblies, threads and calls:

- `RequestTypeCorrect`, which includes that what is posted is what `Posted` composes;
- `EventsAlwaysReportAnswers` and `ReturnedAlwaysMeansReported`, from `Heard`: what a call has
  been told by each stage, and that an answer with a status was executed. An answer is
  dropped only if the event is null or has no Invoke (request.cpp:503, 525);
- `TokenStaysConfined` and `PidAlwaysMatchesPath`, from the type invariant;
- `PacketIsAlwaysTheAnswers`: a post has the packet id that its own class's answer says, or
  none if that class was not there or gives no path or packet id, unless a class with
  another packet id goes by the path and is listed after its own (`Overrides`). That wrong
  packet ids come from there is what the code allows; the theorem says that they come
  from nowhere else. The largest element of a set of places, which is what `Max`
  chooses, exists because the sets are finite.

HttpPatchProofs proves, for any tokens, urls, configurations and games:

- `HttpTypeCorrect`, with `OriginalInv`: a body jumps to its stub only after an original was
  stored, which is why no request is lost;
- `RequestsAlwaysReachTheirServer` and `OriginalUrlAlwaysKept`, from `RequestInv`: on its
  whole way a request has the url and the header that it would have after one run of each
  stub that it has run at all. `OriginalUrlKept` is about the url that SendWebRequest was
  called with: what Post's stub made of the game's, if it ran. The header stands in the
  requests for a list of servers that reach SendWebRequest's stub, given get_url,
  SetRequestHeader and both configured urls; also in a game without set_url, where nothing
  is sent elsewhere, and not in notices, which are. The code searches texts and the properties speak of
  urls in parts, so most of the module is about where the parts of a url lie in
  its text (`Layout`), what each search finds there, and that the code reads and writes a
  url as its parts (`AbsoluteRead`, `Rehosting`), for urls of any length.

DumperProofs proves, for any images, whatever their bytes look like to the scanner, any
embedded map, number of functions and list of assemblies:

- `ScannedNamesStayDistinct` and `ShiftsAlwaysNeedTwoErrors` of resolve, from `NamesInv`: the
  visits of the scan are made in their order, and the names found so far are those
  of the visits made so far. A set of visits gives one list of names
  (`FirstVisitsUnique`), and lists of distinct names of one length have the same names if
  one has those of the other (`SameNames`); hence a scan with one kind of errors makes
  the visits of a disassembler;
- `DumperTypeCorrect` and `TypesAlwaysWithinAll`, from `FilesInv`: what is written so far are
  the classes of the assemblies walked so far, of which there are never fewer for the
  second file than for the first. `DumperResolvesRight` carries the two theorems about
  resolve over to the dumper, each step of which is one of resolve or leaves its state
  alone;
- `TypesAlwaysReadAsCSharp`, from `JsonTypeReads`: json_type writes the C# type of every type
  without arrays of generic types, by induction on the length of the type's name
  (`StrongInduction`). In the name of a type each bracket is closed and each comma is in
  brackets (`TypeNamesWhole`), hence json_type finds the bracket that closes the first one
  and parts the arguments where they were joined (`JoinedParts`). An array of a name is
  told from an array of an instance by the brackets within it (`Brackets`). It assumes of
  il2cpp's names that they are built from those of the parts (`TypesAssumption`), and that
  a dotted name is none of the brackets and commas (`DottedAssumption`).

`json_type`, `Parts`, `WithCommas` and `CSharp` are functions that recur on shorter texts or on types
with shorter names. That a function satisfies its equation takes a proof (`Recursion`):
there is a solution up to each rank, two of them agree, and together they make one.

The proofs about texts, visits, packet maps and prefixes need the least element of a set of natural
numbers (`LeastNat`), which follows from the well-foundedness of the order (`WFMin`); it takes
the place of the induction theorems of the library, which the provers cannot instantiate.

LogProofs proves, for any game threads and lines:

- `LogTypeCorrect`;
- `FileStaysExclusive`, from `LockInv`: the init thread never initialises the lock, and as
  long as one thread alone has done so, the lock's owner is the one thread in the file;
- `LaterLinesStay`, from `FileInv`: each thread's finished lines that began once the path
  was settled are in the file, and what a thread has written is in order, however many
  threads initialised the lock. Both are about a run up to `raced`, if it gets there.

Assumptions are those the modules name, evaluated by TLC in each run.

Only model-checked: all liveness, which is beyond the prover. Every invariant and action
property of the passing runs is a theorem.

## What is not modelled

- Configuration (read once before anything else; its results are inputs), console and
  debug output, log levels.
- Parts of an image that are not code: headers, sections, the conversion of addresses
  (pe.cpp). Names knows only whether an image can be read.
- `patch_iat` and the crash filters; the layout of generic types in memory
  (request.cpp:304-328) and the field offset of the event; how Il2Cpp.cs is laid out.
- The guard patch's choice of stub by return type is an input of Hook (`Plan`).
- `hook::install` and `uninstall` (no caller), login (not installed), the Python tools.
- The dumper's own use of the log under another name.

Disagreements seen while reading which no run claims, since the properties above
exclude or allow them knowingly:

- "all patches installed" (init.cpp:101) is logged whatever the patches found; a
  domain is ready with one assembly, and patches look for their classes only once.
- Wrappers are documented to return null for a missing function (il2cpp.hpp:45),
  but only domain_get and domain_get_assemblies do; the others call null.
- `fn` and `g_schema_methods` change maps that other threads use (il2cpp.cpp:21 and 28,
  request.cpp:445).
- "pick at invoke time" (request.cpp:399-403) is not done: the first getter is taken
  for the url's. With the other order nothing is ever posted.
- "replace the value of any token field" (request.cpp:24-25): an empty one is left
  alone (line 60).
- hook.hpp:34 says there is no trampoline; there is.
- Position dependent prologues are copied as they are (hook.cpp:265), and methods
  folded into one body share one patch. Intercept is about the methods whose
  body is their own, can be moved and is read right (`Alone`).
- "CALL false positives are filtered downstream" (scan.cpp:12-14): the first and the second
  callee are taken as they come (il2cpp_names.cpp:28, 43). `ShiftNeedsTwoErrors` is
  about scans that stay on their path (`OnPath`).
- A name loaded twice whose first load is missed is found at its second, and the map is
  reordered at the same number of names (`FoundElsewhere`).
- `resolve` is "empty on failure" (il2cpp_names.hpp:20); it falls back to the embedded
  map and is never empty.
- Arrays of generic types lose their brackets (dump.cpp:276-311 return before 335), and
  enum members are written with their index (402), though "with integer values" (373).
  `TypesReadAsCSharp` excludes both.
- "http://host?x" has the host "host?x" (http.cpp:38-41), the query is lost when it is
  replaced, and "http://host?a/b" is read with the path "/b"; "/login?from=http://x" is taken
  for an absolute url (http.cpp:34). Where `serverinfos_url` is itself a url to redirect, the stub's second run
  in the window replaces X-Original-Url. The properties of HttpPatch exclude both.
- "rewrite "packetId": <n> in the response" (request.hpp:12): the code rewrites the one in
  the body of the request and leaves the response as it is, "so no response rewriting is
  needed" (request.cpp:466-482). `PidMatchesPath` follows the code.
- The log's lock is initialised by a test and a set without protection (log.cpp:26-28), though
  the stub is there for calls that come while DllMain runs (dllmain.cpp:111-113): two
  threads that log by then may initialise it both, the second while the first holds
  it. `FileExclusive` and `LoggersReturn` except those runs. Likewise nothing guards the
  path from the assignment at line 42, and `LoggersReturn` excepts the runs in which it
  meets another user of the path.

## The plan

Done, in this order: Hook with its instances and proofs; Startup; Exchange and
Transport; Request; Log; Loader; TransportProofs; LoaderProofs; StartupProofs; Decoder, with
Hook going by two kinds of ends; Names; CsTypes and Dumper; HttpPatch; RequestProofs;
LogProofs; PacketMap; HttpPatchProofs; DumperProofs; the decoder's theorems in HookProofs;
Intercept and its refinement by Hook; the theorem about the types of the dump.

To come:

1. The guard patch's walk over classes and its choice of stub, and `patch_iat`.
