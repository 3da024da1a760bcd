# runvey in TLA+

Models of runvey, the TLC configurations that check them on small instances,
and proofs of their safety properties for every value of the constants.
Paths below are relative to the root of the repository.

## 1. Inventory

### 1.1 Components

| component | source | state | operations |
|---|---|---|---|
| log server, event loop | `logs/src/main.zig` | `keep_running`, `stop_accept`, the io_uring, the pool of `Req`, the overflow queue | accept, recv, close handlers, re-arming, draining, signal handler, shutdown |
| request pool | `logs/src/freelist.zig` | `pool`, `free_list`, `free_top` | `init`, `get`, `release` |
| overflow queue | `logs/src/Queue.zig` | `head`, `tail`, `next` of every `Req` | `push`, `pop`, `is_empty` |
| ring buffer (unused by main) | `logs/src/ring_buf.zig` | `buf`, `head`, `tail` | `is_full`, `push`, `pop` |
| storage directories | `logs/src/root.zig` | the data directories | `DB.start` |
| log configuration parser | `logs/src/config.zig` | none | `parseConfig` |
| load generator | `bench/rps/main.go` | two atomic counters, a WaitGroup, one buffer per worker | dial, write, flush, report |
| agent | `infra/cmd/agent/main.go` | a gRPC stream, a cancellable context | hello, wait, shut down on a signal |
| control plane | `infra/cmd/cp/main.go`, `infra/internal/` | configuration, connection pool, gRPC server | start-up, `Connect` |
| proxy | `proxy/src/main.rs` | the UDP socket of the DNS service, the round robin of upstreams | start, serve, hand over on an upgrade, choose an upstream |
| endpoint | `proxy/src/network/ip.rs` | two words: address, port, health | encode, decode |
| ui, sidebar | `ui/src/components/ui/sidebar.tsx`, `ui/src/hooks/use-mobile.ts` | `_open`, `openMobile`, `isMobile`, a keydown listener, a cookie | `setOpen`, `toggleSidebar`, Ctrl-B, resize |
| ui, theme | `ui/src/components/theme-provider.tsx`, `ui/src/hooks/theme.ts` | `theme`, local storage, class of the document | `setTheme`, mount, `useTheme` |
| ui, application sidebar | `ui/src/components/sidebar.tsx` and the menus and the sheet it uses | which menu is open | open, close, choose a theme |

The log server is where the program keeps state that several parties change.
One thread owns everything; the kernel, the clients and the signals act on it
between any two of its steps. It interacts

  * with the **pool** by calls: the accept handler takes a slot and the close
    handler gives it back; the pointer of the slot is the `user_data` of every
    operation in between;
  * with the **overflow queue** by calls, through the `next` field of the slot;
  * with the **kernel** through two shared rings and one system call:
    submission entries are filled in user space, consumed by `io_uring_enter`,
    and answered in any order by completions;
  * with the **clients** through a Unix stream socket: the load generator is
    one, and there is no protocol above it yet;
  * with the **signal handler** through `keep_running`.

The agent and the control plane talk over one bidirectional gRPC stream. The
proxy and the user interface do not talk to any of the others. In the user
interface the theme and the sidebar are two contexts; the menus of the
application sidebar are children of the second and call the first.

### 1.2 What is hard in it, and what makes it correct

| component | hard behaviour | properties that make it correct |
|---|---|---|
| event loop | the submission queue fills up in the middle of a round; the pool runs out; several accepts share one request; the kernel reuses descriptors at once; a wait that nothing ends; a signal just before the wait | one operation per request; the handler that runs is the one that was submitted; no operation hits a connection of somebody else; nothing is lost; it keeps accepting; what is received is read where it was written; finished clients are closed; it stops when told to |
| pool | empty and full | every slot is in exactly one place |
| overflow queue | the last request leaves, a request is pushed again | it is a first-in first-out queue |
| storage directories | a crash, an error or a second starter between open, create and open | what is left behind does not stop the next start |
| log server process | a crash, a second instance, an error that goes unnoticed | a server that runs is reached through the path; no way out leaves the path behind |
| agent, control plane | who ends the stream first; a signal during the wait; a cut connection | both ends terminate |
| control plane start-up | one of the steps fails | it goes on only where the code says so |
| proxy | the descriptor changes hands while both processes run | the socket stays open while anyone uses it |
| sidebar | several updates in one event; renders and effects with events in between; a breakpoint tested in three places | one listener; one of panel and sheet; what is stored is what is shown |
| theme | several tabs and one storage, with other programs; a write that throws | one color scheme, the marked one; what is shown was stored |
| menus | they are unmounted with the sheet, when its exit transition has ended, and by a change of the layout | no menu without its sidebar |
| load generator | lines that are counted while they are buffered | what is reported was sent |

`PROJECT.json` lists every component with its status, and every hazard with the
line where it bites.

## 2. Modules

| module | models | uses |
|---|---|---|
| `LogServer` | the event loop, with kernel, clients and signals | |
| `MCLogServer` | small instances of it for TLC | `LogServer` |
| `LogServerProofs` | theorems about it: types, the overflow queue, requests and dispatch, listening, sleeping, where data is read | `LogServer` |
| `LogServerOwnershipProofs` | more theorems: descriptors, what is kept, what is closed | `LogServerProofs` |
| `Pool` | abstract: a pool hands out slots nobody has | |
| `FreeList` | the free list as a stack; implements `Pool` | `Pool` |
| `Fifo` | abstract: a queue without repetition | |
| `ReqQueue` | the linked list through the requests; implements `Fifo` | `Fifo` |
| `Requests` | the two through the same slots, as the event loop uses them | `FreeList`, `ReqQueue` |
| `RequestsProofs` | theorems about the three | `Requests` |
| `LogLifecycle` | log server processes and the path of their socket, before and after the loop | |
| `DbStart` | `DB.start` by several starters that may crash | |
| `LogLifecycleProofs` | theorems about the two | `LogLifecycle`, `DbStart` |
| `AgentStream` | agents, the control plane and the stream between them | |
| `AgentStreamProofs` | theorems about it | `AgentStream` |
| `BenchRps` | the load generator | |
| `BenchRpsProofs` | theorem about it | `BenchRps` |
| `SidebarView` | what is on the screen, as a function of the state | |
| `Panel` | abstract: a panel and a sheet that whole events flip | |
| `SidebarProvider` | the state of the sidebar in one page; implements `Panel` | `SidebarView`, `Panel` |
| `MCSidebar` | instances for TLC | `SidebarProvider` |
| `Theme` | the theme in the tabs of a browser | |
| `MCTheme`, `ThemeProofs` | instances for TLC; theorems | `Theme` |
| `AppSidebar` | the application in one tab: the steps of the sidebar, of the theme and of the menus together | `SidebarProvider`, `Theme` |
| `MCAppSidebar` | an instance for TLC | `AppSidebar` |
| `SidebarProofs` | theorems about the sidebar, alone and in the application | `AppSidebar` |

`LogServer` works with the abstract views that `FreeList` and `ReqQueue`
implement: its `free` is the set of `Pool` (any free slot may be the one that
is handed out) and its `queue` the sequence of `Fifo`. What the two
implementations ask of their caller — release only what was handed out, push
only what is not in the queue — is what `SingleOp` shows of the event loop.

In each module, an operator that stands just before another and shares the
start of its name is a mutant: the code with a plausible bug. No action uses
mutants. They show that the properties can fail: with a mutant in the place of
its original, TLC finds the property it is listed with violated.

### 2.1 LogServer

| variable | in the code |
|---|---|
| `pc` | where the thread is: at the top of `while`, in the drain loop, before, in and after the system call, unwinding, gone |
| `keep_running`, `stop_accept` | the variables of the same names |
| `sigpending` | a signal that the kernel will deliver when the system call returns |
| `reqs` | `pool` of the free list: `operation`, `fd`, `position` of every `Req` |
| `free` | the slots below `free_top` |
| `queue` | the list of `Queue` |
| `sq` | submission entries that `io_uring_enter` has not consumed |
| `accepting`, `inflight` | the operations the kernel holds |
| `cq`, `todo` | completions, and how many of them are in the local array of this round |
| `sock`, `backlog` | the connections in the kernel |

A step of the thread is one iteration of the drain loop, one consumed entry, or
one whole completion handler, with everything the handler calls. Between the
steps anything else may happen, which is finer than the code needs: the
environment never touches what the thread reads in between, except through
`cq` and `keep_running`. The alternatives of a handler are its branches: room
in the submission queue or not, a free slot or not, `stop_accept` or not.

The handler is chosen from `reqs[..].operation`, as in the code, and not from
the operation of the completion; that the two agree is a property
(`DispatchMatches`). The completion records the descriptor and the offset of the
window the kernel worked on; only properties look at these two fields (the
descriptor of an accept excepted, which is its result).

A `recv` may return any number of bytes from 1 to the shorter of the window and
what has arrived. A `recv` into an empty window returns 0, and so does one at
the end of the stream. `RuntimeSafety` says whether the build checks the bounds
of slices: Debug and ReleaseSafe do.

Descriptors and slots are reused at once and in any order. The kernel completes
operations in any order. With `Faults` it may complete operations of these kinds
with an error; the code logs the error and goes on.

Left out: the start-up before the first accept is prepared (the first state is
the one at the first iteration of the loop; `LogLifecycle` has what is before
and after), the contents of the bytes, the logs,
errors of `submit_and_wait` other than the interruption by a signal, a signal
that interrupts the submission of entries before the wait, a second
instance of the server, and the operation `timer`, which nothing submits.
Whether a client that the server has closed notices it is of no consequence to
the server: after the close the connection is gone from `sock`.

### 2.2 FreeList, ReqQueue and Requests

`FreeList` has the array and its index; `held` (the slots the callers have) is
not in the code and states the caller's side. `answer` is the returned value.
`ReqQueue` has `head`, `tail` and `next`; `items` (what was pushed and not
popped) is not in the code. Both are written so that the abstract module sees
every variable it needs: `free` of `Pool` is the set of the first `free_top`
entries, and `items` of `Fifo` is that of `ReqQueue`, its `answer` the variable `popped`.

`Requests` puts the two on the same memory: the pool is `undefined` until a slot
is taken, taking it overwrites the whole `Req` and with it the link, the queue is
threaded through slots that are held, and a slot whose close has completed is
released. So `next` starts with any value, which neither module does on its own.

### 2.3 LogLifecycle and DbStart

`LogLifecycle` has the steps of `main` around the loop, for any number of
processes: bind, listen, the ring, the loop as one label, close, unlink. The
path is what the file system has at `/tmp/jxdlogs.sock`: nothing, the socket of
a process, or a name whose socket is gone ("stale"). bind fails if anything is
there; its result and that of listen are not tested, since the comparison of a
usize with -1 never holds. `crashed` and `overlapped` are not in the code: they
say in which histories the properties hold.

`DbStart` has one step per system call of `DB.start`, each of which may also fail
for a reason of the system (permissions, limits, a full disk), and returns what
the code returns then. Other starters and crashes come between any two of them.
`rivals` (who was at work at the same time) is not in the code. Nothing removes a
directory. No code of the repository calls `DB.start` yet: the model is about
what it does once something does.

### 2.4 AgentStream

The control plane starts step by step, each of which may fail; the agent runs
`main`, with the goroutine that receives. gRPC is what the two see of it:
connecting succeeds if a server listens at the dialled port, messages arrive in
order, and a stream that ended for whatever reason is "down" for both, who
learn of it when they receive. The control plane may be killed and started
again (`MaxStarts` bounds how often), the network may fail, and a signal may
reach the agent at any moment; `notify` says whether `signal.Notify` has run.
Whether the configuration was loaded makes no difference to anything else in the
model: the port of a file may be the one the agents dial or another, and an
empty address is a port of the system's choice, which may be either too.

### 2.5 BenchRps

`BenchRps` measures the buffer and the socket in lines. A write that finds no
room empties the buffer into the connection first; the server reads, or drops
the connection with what it has not read.

### 2.6 The user interface

`SidebarView` holds the rules of the components and of the style sheet: which
of three elements `Sidebar` returns, whether its children are mounted, how much a
user sees of it, and whether its menu buttons and its rail can be clicked, for a
state and a width. `SidebarProvider` is the state:

| variable | in the code |
|---|---|
| `width`, `mqlMatches` | `window.innerWidth`, and what the media query list has last reported |
| `nextMobile`, `isMobile` | a `setIsMobile` that is not rendered yet, and the value rendered |
| `openMobile`, `innerOpen`, `openProp` | `openMobile`, `_open`, the prop `open` |
| `leaving` | the sheet was closed and is still mounted, until its exit transition (`ui/src/components/ui/sheet.tsx:54`) ends (`SheetLeft`) |
| `listeners` | the installed keydown listeners, each as what its `toggleSidebar` has closed over |
| `cookie` | `sidebar_state` |

React is modelled by what the code relies on: a handler runs with the closures
of the render it was made in; the updates of a click or a key are one batch that
is rendered with its effects before the next event; the updates of a media query
or an effect are rendered later, and their effects later still. A batch is a
record that each call of `setOpen` or `toggleSidebar` adds to, so several calls
in one event see the same old `open`, as in the code.

`Theme` has the tabs of a browser, the storage they share with any other
program of the origin, and the class of each document. A tab may be closed and
loaded again at any time. `AppSidebar` puts the two together in one tab, adds
the menus, and lets the rest of the browser act on the storage. A menu lives
where `Sidebar` mounts its children; when that place in the tree changes or
goes, so does its state (`Kept`). A sheet that is closed keeps its children until
its transition has ended: a menu that was open in it stays, and is open again when
the shortcut opens the sheet before that.

## 3. Runs

| run | configuration | shows |
|---|---|---|
| `overflow` | SqDepth 2, two slots, three descriptors | the overflow queue at its limit: requests stay single, dispatched as submitted, never lost, never on another's connection; the server keeps accepting, also after it has turned connections away; the queue is bounded, back-pressure works, and the loop sleeps on a queue only after it has handed over a full submission queue |
| `stream` | SqDepth 4, two slots, three descriptors, every operation may fail | with the pool at its limit and slots leaked by errors, data is read where the kernel wrote it and no two requests share a descriptor |
| `live` | SqDepth 2, two slots, signals | with the overflow queue in use, finished clients are closed and waiting connections handled if the queue drains and the accept is armed again and again; a signal that is noticed stops the server |
| `slice` | SqDepth 2, Debug build | a violation: the drain loop re-arms a recv with the whole buffer and the slice ends behind it |
| `requests` | three slots in undefined memory | the free list implements `Pool` and the linked list `Fifo` on the same slots |
| `log_lifecycle` | three processes | through overlap, failure and crash: a server that is alone is reachable, only crashes leave a stale path |
| `db_start` | two starters, every state of the disk, errors of the system | what a crash or a failed start leaves behind does not make a later start fail |
| `agent_stream` | two agents, two starts | neither side ends a stream first; both ends of a stream that went down end |
| `bench` | two workers, three lines, a buffer of two | the total covers what was read and is exact for connections that were kept; main reports if the server reads |
| `app_sidebar` | the application in one tab, StrictMode, a width on each side of the breakpoint and at it | one listener, layouts that fit, toggles that show, menus that live and die with their tree, through the exit transition of the sheet; implements `Panel` |
| `sidebar` | narrowing to icons, with rail, a handler that toggles too, an owner that may refuse | changes are recorded; the layout follows the window |
| `theme` | two tabs; a stored class that is no theme, a string that is no class | one scheme, the marked one, stored before shown; a page opens whatever class is stored |

Properties share a run where one instance has all the cases. What a theorem states for every value of the
constants and no instance adds to (the types, `StackIsFreeSet`, `LinksCleared`,
`PathIsBound`, `OwnerDecides`) is proved and has no run.

### 3.1 The properties of LogServer

*Safety.* `SingleOp`, `DispatchMatches` and `DescriptorOwnership` say what makes
it safe to hand pointers to the kernel and to dispatch by what they point to.
`NothingLost` and `AcceptNotLost` are stated for runs without kernel errors: with
them the code does lose slots, descriptors and the accept, and no text of the
repository says it should not. `NoPrematureClose` is about the two meanings of a
result 0. `QueueBounded` and `Backpressure` are what `stop_accept` is for.

*Liveness.* `FinishedIsClosed` and `BacklogIsServed` do **not** hold when the
overflow queue is in use, for two reasons:

  1. `submit_and_wait(1)` sleeps until a completion comes although requests wait
     in the queue, or although the accept is not armed. After the drain loop has
     filled the submission queue, its entries are handed to the kernel, and what
     is left in the queue waits for one of them to complete, perhaps for ever.
     `SleepsOnlyWhenFull` says that this is the only way it happens.
  2. Rounds whose handlers fill the submission queue leave the drain loop no
     entry, so a queued request can be passed over for as long as others are busy.

Both are excluded by `KeepsDraining`, the premise of the two properties that
`live` checks (`FinishedIsClosedIfDrained`, `BacklogIsServedIfDrained`): the queue is
empty and `stop_accept` cleared again and again. The backlog also needs descriptors
that come free, as clients that never finish may hold them all. What the premise
leaves to the server is to lose no close and no accept on the way through handlers,
queue and drain loop: the mutants of the two drop a close that finds no room, and
clear `stop_accept` without arming the accept.

A signal that reaches the thread inside the kernel ends the wait, or is seen after
the completions of the round, and the server stops (`SignalStops`). So does one in
user mode, unless it arrives after `keep_running` was tested and before the system
call: `Noticed` leaves that window out, and the server then stops after the next
completion only.

### 3.2 Bounds

  * `SqDepth` (256 in the code). With 2 and two connections, a round of two
    completions of which one is an accept overflows, so that a queue with an entry, an accept that is
    queued, a drain that does not finish and a re-armed accept all happen. With 4
    and two connections nothing ever overflows: this is the other half of the
    behaviours (`stream`).
  * slots (512 in the code): two, so that two connections compete.
  * `FD`: in `stream` and `overflow` one more than the slots, so that a connection is
    accepted that finds no slot and is turned away, also while requests are queued. In
    `live` there are as many as slots: with one more, its liveness check takes longer
    than a run should, and that the accept of a connection that was turned away is
    armed again is `AcceptNotLost` in `overflow` (its mutant forgets it).
    `FinishedIsClosed` is about one descriptor; they are interchangeable.
  * `BufSize` (4096): 2 or 3 bytes, enough for a partial and a full buffer, and a
    wrap; 1 in `live`.
  * `MaxUnread`, `Backlog`: bytes that have arrived and were not read, over all
    connections, and connections that wait. They bound the clients only. In `live`
    `MaxUnread` is 0: the clients connect and finish, which is enough to overflow
    and to keep others waiting, and send nothing; that a recv with data is re-armed
    like one without is what `NothingLost` shows in `overflow`.
  * `MaxAccepts`: an overflow that a recv causes while an accept is armed leads to
    one more armed accept later, and so on without end. No client connects while
    more than `MaxAccepts` accepts are armed. This bounds the environment and not
    the server; two armed accepts at once do happen.

Permutations of slots and of descriptors are symmetries of the model and are
used in the safety runs, never in the liveness runs. `CHECK_DEADLOCK FALSE` is
set in the runs of `LogServer`: it stops after a signal or a panic, and it may
sleep for ever when nobody connects.

The other instances:

  * `log_lifecycle`: three processes, so that one that has lost its path to a
    second can meet a third. `MaxStarts` of `agent_stream`: a control plane that
    comes back while agents of the first start are still connected, or on another
    port. `db_start`: two starters race for every directory.
  * `requests`: three slots, so that a request can be at the head, in the middle and
    at the end of the list while every other operation happens.
  * `bench`: more lines than a buffer holds and a socket of one line, so that a
    write fails in the middle of the loop as well as at the end.
  * The sidebar is one page and its state is finite: only the widths are chosen.
    The theme has two tabs, as one more does nothing that the other programs of
    the origin do not do already.

### 3.3 Fairness

`WF_vars(Server)`: the thread runs when it can, and it is one thread. For the
kernel: an accept completes when a connection waits and a descriptor is left, and
the recv or close of each request completes when it can. Nothing is assumed of
the clients, which may send nothing and never finish, nor of the signals.

`AgentStream`: the goroutines of both programs run; nobody has to stop, fail or
send a signal. `BenchRps`: the goroutines run and the server goes on reading,
without which a worker blocks for ever in a write, as it does in the code.
`SidebarProvider` and `Theme`: React renders and runs effects in the end and the
browser reports a media query that changed; no user has to click, and
`LayoutFollowsWidth` is about a window that keeps its width.

`CHECK_DEADLOCK FALSE` stands where the system comes to an end: all agents have
exited and the control plane has been started as often as the bound says, the
report is printed.

## 4. Proofs

Checked by TLAPS for every value of the constants that satisfies the assumptions
of the modules (a submission queue of at least two entries, a buffer of at least
one byte, a pool of at least one slot).

  * `TypeCorrect`: the types, and with them that no more than `SqDepth` entries
    are ever prepared. The `catch unreachable` of the re-armed accept rests on it.
    The inductive invariant `TypeInv` adds that whatever is queued has an
    operation, without which the `switch` of the drain loop has no branch to take.
  * `QueueIsBounded`: the overflow queue never exceeds half of a submission queue,
    rounded up. The invariant `QueueInv` says why: a round handles at most `SqDepth`
    completions, only an accept that does not see `stop_accept` asks for two
    entries, the first request that is turned away sets `stop_accept`, and it stays
    set until the queue is empty *and* half of the submission queue is free. So
    while requests are queued each remaining completion adds at most one, and by
    the first overflow at least half of the round has been handled.
  * `BackpressureHolds`: from the same invariant, `stop_accept` is set whenever
    requests are queued, so neither a handler nor the top of the loop prepares an
    accept; only the drain loop does, for the queued one.
  * `StackIsTheFreeSet` and `FreeListImplementsPool`, `ListIsLinked`,
    `LinksAreCleared` and `QueueImplementsFifo`: the two data structures, each under
    its own specification, and their refinements, proved step by step from the
    inductive invariants, which are the properties themselves with the types.
  * `RequestsImplementPool`, `RequestsAreLinked`, `RequestsImplementFifo`: the same of
    the two on one memory, as `Requests` composes them. A step of `Requests` is a step
    of the free list, so the first follows from `FreeListImplementsPool`. The memory
    is undefined at first, so of the list only the links of the slots that are held
    can be known: `ListInv(S)` is the invariant of the linked list for the requests
    in S, with S all requests in `ReqQueue` and S = `held` in `Requests`.
    `PushAssertionHolds` is what it says of a request that may be pushed: its link
    is null, as the assertion in `push` (`logs/src/Queue.zig`) demands.

  * `RequestsAreSingle` and `DispatchIsFaithful`: `SingleOp` and `DispatchMatches`
    are inductive only together, and only with what `ListenerInv` says of the accept
    request. The handler of a completion is chosen from the request, so it takes
    `DispatchMatches` to know that a recv handler has the request of a connection in
    its hands; and it takes `SingleOp` to know that changing the request does not
    change what another entry says. The accept request may have several operations
    armed; it stays an accept and never enters the pool while the loop runs, and it
    is queued at most once because it is only pushed while `stop_accept` is not set,
    when the queue is empty (`QueueInv`).
  * `NeverDeaf`: `AcceptNotLost`, from the same invariants. An accept that completes
    is prepared again, queued, or left to the top of the loop by `stop_accept`, which
    only the re-arming clears. The theorem is about runs in which accept does not
    fail.
  * `SleepsFull`: `FullInv` counts what a round hands over. The loop leaves the drain
    with a queue that is not empty only when the submission queue has no entry left,
    and no step before the next completion takes one of those operations back. What
    is handed over is counted in a set, so it takes `DispatchInv` to know that an
    entry is new to the kernel.
  * `ReadsInPlace` and `SlicesInBounds` say when the slice that `slice` finds behind
    the buffer is inside it: in every behaviour in which no recv is ever in the
    overflow queue (`NoRecvQueued`). `PlaceInv` says that each recv, prepared, in the
    kernel or completed, fills the buffer from the position of its request on. The
    drain loop is the only step that prepares another one, and without the premise
    both statements are false.
  * `DescriptorsAreOwned`: `OwnInv` relates the kernel's connections to the requests. A
    descriptor that is the result of an accept belongs to no request yet, its handler
    gives it to the one slot it takes or closes it, and it stays open as long as that
    slot's request has an operation to come. It takes
    `DispatchInv` to know that a handler does not act on a request whose other
    operation still uses the descriptor.
  * `NothingIsLost`: `KeptInv` is its converse, without errors of the kernel. Every
    branch of every handler either prepares the request, queues it or releases it,
    and the drain loop prepares what it pops.
  * `ClosesOnlyFinished`: `CloseInv` says that no recv has an empty window, since the
    position wraps at the end of the buffer, and that a recv that returned 0 belongs
    to a client that has finished. A client that has finished sends nothing more, and
    by `OwnInv` the descriptor is not reused before the close.

  * `SidebarProofs`. From the types, the number of installed listeners (one, or
    none before the first effects) and what is known of `isMobile` once nothing is
    pending (it is `Narrow` of the width), it follows for every width that the
    layout fits and that a toggle changes what is shown. `SettledFits` and
    `TogglesWhatIsShown` need that md: stands at 768 pixels, and the second that
    the sidebar is not static and is not controlled by an owner without a setter:
    the theorems say so. The refinement of `Panel` is proved event by event. The same
    statements hold of the application, whose other steps are renders of the sidebar in which nothing the user did to it
    changes (`Rerenders`).
  * `OpenMenusAreTrue`, of the application: `AppInv` adds to the
    invariant of the sidebar that the theme of a mounted page has been applied and
    that an open menu is in a tree that is mounted. It takes the invariant of the
    sidebar: a toggle, a resize and a render each decide whether the tree stays
    (`StaysMounted`), which a closed sheet does until its transition has ended.
  * `ThemeProofs`. `IInv` says of a document that it has at most one scheme, and of
    a usable page that it has the one of its theme. The second part is needed
    because the choice of the theme a tab already has renders nothing.
  * `AgentStreamProofs`. A stream that is up has the server's call at its other end
    and a goroutine that receives; an agent is past its wait only when the
    goroutine has ended, so only when the stream is down; hence no end of a half
    is ever sent, and the server never returns nil.
  * `LogLifecycleProofs`. `StaleNeedsCrash` is inductive: the step that closes the
    socket under the path is followed by the unlink. `AloneIsReachable` takes the
    invariant `Alone`, which says that at most one process is up and follows it
    from a free path at bind to a free path at its end.
  * `NoLeftoverHinders`, of `DbStart`: `DbInv` says what a starter has opened and made
    at each of its steps (`Holds`) and, if nobody else was at work, that a directory that was
    missing at the failed open is missing still (`Unraced`). A failed start may be
    raced, lack the parent of the data directory, or be refused by the system.
  * `TotalIsNotLess`, of `BenchRps`: each line a worker has written is in its buffer, in
    the socket, read, or lost with a dropped connection; what left a kept connection
    is in `count`, and what a worker has added is in `total`. The sums over the
    workers are cardinalities of sets of lines, which the prover can compare. The
    WaitGroup holds the number of workers that have not added yet, so main cannot
    report before.

Every invariant and action property of a passing run is the statement of a theorem.
The premises the theorems have are those above: md: at 768 pixels, a sidebar that is
not static, and which of the two owners a statement is about, for the sidebar; no
recv in the overflow queue, for where data is read.
The runs have instances of each.

Model-checked only: the liveness properties (`FinishedIsClosedIfDrained`,
`BacklogIsServedIfDrained`, `SignalStops`, `LayoutFollowsWidth`, `PageOpens`, `HandlersEnd`,
`AgentsEnd`, `Reported`). They rest on fairness, and with it on ENABLED, which is out of
the prover's reach.

## 5. What the models found

  * A recv that goes through the overflow queue is re-armed with the whole buffer
    (`logs/src/main.zig:156`) while its position stays, but the handler takes the
    data from behind the position (`logs/src/main.zig:218`). The data is read from
    the wrong place, and when more arrives than fits behind the position the slice
    ends behind the buffer: a panic in checked builds (`slice`).
  * The wait described in 3.1: requests in the overflow queue, and a listener that
    is not armed, can wait for a client that never sends.
  * The number of armed accepts grows with every overflow that a recv or a close
    causes (3.2). `SingleOp` shows that this is harmless for the overflow queue,
    through which the accept request is linked only once.

The models follow the code in these places too, where a comment, a test or the
code itself says otherwise; no property demands what the code does not do.

  * A log server whose bind fails runs without being reachable, and unlinks the path
    of the one it collided with when it stops: the result of the system call is a
    usize and never -1 (`logs/src/main.zig:97`). A crash makes every later start end
    up there (`AloneIsReachable` has the exception).
  * A signal kills the agent while it waits; the handler that should cancel the
    stream is deferred, and so installed when main returns (`infra/cmd/agent/main.go:25`,
    and the comment at line 69). Since neither side ends a healthy stream first
    (`NeitherEndsFirst`), that is how an agent is stopped.
  * A configuration that cannot be loaded is printed and the start goes on with an
    empty one (`infra/cmd/cp/main.go:43`): the address is then "" and the port one the
    system picks, which may be the one the agents dial, as 50051 is in the usual range
    of such ports. So an agent may be served by a control plane without its file.
  * The cookie of the sidebar is written (`sidebar.tsx:85`) and never read.
  * `useTheme` never throws: the context has a default value (`hooks/theme.ts:15`).
  * `pop` of the unused ring buffer advances `tail` without the mask
    (`logs/src/ring_buf.zig:31`), so that it leaves the array after one lap.

## 6. Not modelled, and what is left

  * The **proxy**'s service: the table of descriptors, the upgrade and the shutdown
    are pingora's, which is not in the repository. The program gives the server no
    options, so that table is empty at every start and the branch that adopts a
    descriptor is not taken.
  * **The ring buffer** is imported by main and used by nothing, so no state of the
    program reaches it. **The endpoint** of the proxy is two words and a reading of
    them, without state, sequence or concurrency.
  * **parseConfig** splits and trims characters, and nothing calls it; a model would
    be its transliteration. The same goes for the formats that `internal/config`
    parses; what their failure does is in `AgentStream`.
  * The components of the user interface that only add classes, the tooltip and the
    parts that one rule of the style sheet hides with the text, positions, animations
    but the exit of the sheet, and widths that are no whole pixels.
  * The generated gRPC code, the fuzz template, the build files, and the type
    declarations `proto.zig` and `Req.zig`.

Open: that no recv waits in the overflow queue (`NoRecvQueued`) is assumed where the
place of the data is proved, and the code does not ensure it (`slice`).
