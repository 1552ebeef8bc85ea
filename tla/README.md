# A verification of ircserv

`ircserv` is a small IRC server in C++: one process, one thread, one `poll()`
loop, clients that register with PASS, NICK and USER and then write to each
other. This directory holds TLA+ modules that model it, TLC configurations that
check them on small instances, and proofs checked by TLAPS. Paths below are
relative to the repository root, `src/` in `PROJECT.json`.

## The system

| Part | Code | State | Operations |
|---|---|---|---|
| Poll loop | `src/Server.cpp` | `_clients`, `_pollfds`, `_signal`, the listening socket | `runServer`, `acceptClient`, `receiveData`, `clearClient`, `closeAll`, `signalHandler` |
| Client | `inc/Client.hpp`, `src/Client.cpp` | names, `_isAuthenticated`, `_shouldDisconnect`, read and write buffer | `hasCompleteCommand`, `extractCommandFromBuffer`, `isRegistered`, setters |
| Parser | `src/Parser.cpp` | prefix, command, parameters of one line | constructor, `setCommand` |
| Command handlers | `src/CommandHandler.cpp`, `src/AuthCommands.cpp` | none of their own | `processCommand`, `handlePass` ... `handlePrivMsg` |
| Channel commands | `src/channelCommands/*` | none of their own | `execute` of INVITE, JOIN, KICK, MODE, NAMES, PART, TOPIC |
| Channel | `src/Channel.cpp` | operators, members, invitations, modes, limit, key, topic | membership, modes, limit, topic, dispatch of channel commands |
| Reply builders | `inc/IRC.hpp` | none | one function per numeric |
| main | `src/main.cpp`, `Server::initServer` | the signal handlers, the listening socket | checks arguments, installs the signal handlers, binds the socket, runs the loop |

The loop calls `receiveData` for a readable connection; that appends to the
client's read buffer, cuts complete lines off it, parses each and hands it to
`processCommand`. A handler changes the client it was called for, or appends to
the write buffer of another (PRIVMSG). Nothing is sent by a handler: in every
round the loop asks `poll` for POLLOUT where a write buffer is not empty, and
sends when the socket is writable. A handler that wants a client gone sets
`_shouldDisconnect`; the POLLOUT branch drops the client once its buffer is
empty.

What is hard here:

- **Two containers that must agree, one of them changed while it is scanned.**
  `_pollfds` is scanned by index while `acceptClient` appends to it and
  `clearClient` erases from it; `_clients[fd]` creates a client where there is
  none.
- **Liveness through the output.** A client is dropped only by the POLLOUT
  branch, and POLLOUT is requested only while output waits.
- **Registration from any order of three commands**, repeated, on several
  connections at once, with names that must stay unique.
- **Partial sends and arbitrary chunks** on the two ends of the stream.
- **The signal**, which sets a flag that is read once in a round, and may come
  before there is a handler or a loop.
- **Two sets for one membership.** A client is on a channel as operator or as
  member; the two sets are changed in two steps, the second of which may refuse,
  and the limit is tested for equality with their sum.
- **Descriptors are reused** by the kernel.

## Modules

| Module | Models | Runs |
|---|---|---|
| `Process` | `main` and `initServer` around the poll loop, signals before there is a handler; it implements `Server` (`S == INSTANCE Server WITH ...`) | `process` |
| `Commands` | what one parsed command does to the clients, and the life of a connection seen without the poll loop: the abstract specification of the server | `commands_all`, `commands_core`, `doc_welcome`, `doc_nicknames` |
| `Server` | the poll loop, one action per stretch of code between two answers of the kernel; it runs the commands of `Commands` (`C == INSTANCE Commands`) and implements its specification | `server_login`, `server_chat`, `server_drains`, `doc_join` |
| `ReadPath` | bytes to lines to parsed commands for one connection | `read_path` |
| `Inbox` | abstract: what receiving promises to the command layer; `ReadPath` implements it from bytes, `Server` for each descriptor from batches | in `read_path`, `server_login` |
| `Channel` | class `Channel`, with TOPIC and NAMES on a channel | `channel`, `doc_joined_twice` |
| `CommandsProofs` | theorems about `Commands` | |
| `ServerProofs` | theorems about `Server`, and those of `CommandsProofs` carried over to the loop (`P == INSTANCE CommandsProofs ...`) | |
| `ProcessProofs` | theorems about `Process`; extends `ServerProofs` | |
| `ChannelProofs` | theorems about `Channel` | |
| `ReadPathProofs` | theorems about `ReadPath` and the operators it is built from | |
| `FormatProofs` | the theorem that parsing survives writing out; extends `ReadPathProofs` | |
| `MCCommands`, `MCServer`, `MCReadPath`, `MCProcess`, `MCChannel` | the constants, bounds and symmetry of the runs | |

### Commands

State: `clients`, the keys of `_clients`, and `client`, a record for each
descriptor (nickname, user name, the two flags, and the write buffer as a
sequence of messages). A descriptor without a client has the record
`NewClient`, so that keeping a record past its connection is visible. Each
handler is an operator with one disjunct per path through the code, in the order
of the code's early returns. A reply is its numeric or verb and the prefix it
carries; wording is left out. A parameter is a word; the only things the code
asks of a word are whether it is empty, is the password, is somebody's
nickname, or starts with `#`. The iteration order of `unordered_map` is left
open (`getClientByNick` is the set it may choose from).

`processCommand` follows `CommandHandler.cpp`: PASS, NICK, USER and CAP for
everybody, then the gate for registered clients, then the channel commands, then
the rest. The program never creates a `Channel`, so TOPIC always answers 403 (or
461), INVITE, KICK, MODE and PART do nothing, and JOIN throws on its arity test
whatever its parameters are and ends without an answer. NAMES does not reach the
dispatcher: the parser turns it into UNKNOWN.

`Next` lets any client be accepted, run a command, have part of its output sent
(and be dropped if it is marked and its output is gone) or disappear, at any
time. That is more than the poll loop does, and all the loop may do.

### Server

`pc` says where the thread is: at the head of the loop, in `poll`, at an entry of
the scan, in the `while` over complete commands, at the POLLOUT half of an
entry, past the loop, or gone. `i` and `pollfds` are the code's index (counted
from 1) and vector; `clearClient` with the `i--` that follows it is one action
(`dropCurrent`). The kernel is nondeterministic: `poll` reports any non-empty
choice of the requested events, `accept`, `recv` and `send` have every outcome
the code distinguishes, and a new connection may get any free descriptor, also one
that a client dropped in an earlier round had (within a round the listening socket,
entry 1, is served before anybody is dropped). Input is a batch of complete commands
per `recv`, possibly none (an unfinished line); `ReadPath` justifies that. `send`
takes whole messages: cutting one in the middle would not change a guard, since
the code only asks whether the buffer is empty. An error or hang-up is reported
together with POLLIN, as Linux does for TCP sockets; the code looks at no other
bit. `signal` may be set at any step, and interrupts a `poll` in progress.

`open` is the kernel's set of open sockets. `due` is a history variable: the
events `poll` has reported and the scan has not acted on.

### ReadPath

`readBuffer` holds bytes. One `recv` delivers a chunk, cut at its first NUL
because the code appends it as a C string; the `while` then extracts and parses
lines one by one. The parser is translated step by step: line ending, prefix,
trailing parameter, words, upper case and the list of known commands. `stream`
and `executed` are history variables.

### Inbox

The abstract specification that ties `ReadPath` to `Server`. Its state is the
sequence of commands received and not run; a read may add any commands, but only
when none is pending, and they run one by one. `ReadPath` implements it with
`pending` read off the bytes of the buffer (`Pending`); `Server` implements it for
each descriptor with `pending <- readBuffer[fd]`. So the batches of `Server` are
what the byte level can deliver.

### Process

`phase` follows `main`: arguments, the three calls of `signal`, `initServer`, the
loop, the end. An argument list is its length, the number the port starts with
(split at 2^32, of which `atoi` keeps the low part) and whether the password is
empty. `initServer` succeeds or fails at any of its steps. A SIGINT or SIGQUIT
kills the process while its handler is missing and is recorded afterwards, also
when the loop has not begun. The module extends `Server`; its steps are those of
`main` and, while the loop runs, those of `Server`. SIGPIPE is ignored from the
third call on, and no client is written to before.

### Channel

The program constructs no `Channel` yet, so no caller says in which order its
operations come: `Next` allows each public operation that is not a query, with TOPIC
and NAMES, at any time its precondition holds (`removeMember` erases the iterator
`find` returns, which is undefined when the client is not there). `addOperator`,
`setTopic` and `publicMessage` are used inside other operations and are actions of
their own as well, since the interface offers them; `publicMessage` is called with
nothing, with the announcement of any topic, or with another line (`Texts`). The two sets, the four flags, limit, name and topic are
the variables; `told` is what the last operation appended to each write buffer.
`_pendingInvites` and `_key` have no code that changes them, so +i admits nobody
and the only key that matches is the empty one.

## Properties

`TypeOK` in each module is its type invariant. In `Commands` it also says that
nothing is left on a descriptor without a client, and in `Server` that the index
is inside the vector whenever an entry is being served.

`Commands`:

- `NickUnique`: one holder for each non-empty nickname.
- `DoomedHasOutput`: a client marked for disconnection has output, without which
  the loop would never drop it.
- `IdentityNeedsPassword`: no names before the password.
- `SenderIdentified`: a waiting private message names its sender, although a
  client can lose its nickname again after registering.
- `WelcomeOnRegistration`: 001 is sent by exactly the steps that complete a
  registration, from either of the two handlers that can.
- `SourceIsLive`: what is sent under a user's prefix carries the identity of a
  client registered at that moment; for a renaming, the old one.
- `OutputIsFifo`: write buffers only grow behind and shrink in front.

`Server`:

- `PollSetMatchesClients`: the vector lists the listening socket and each client
  once, so `_clients[fd]` never invents one.
- `RoundServesEachEventOnce`: what lies ahead of the scan is exactly what is
  still due, through erasures and appends in the middle of it.
- `NoCommandLeftBehind`: no complete command waits for the network.
- `PollAsksForMarked`: while the loop sleeps, every client marked for disconnection
  is asked about with POLLOUT. This is the joint between the command layer, which
  must leave output with a marked client, and the loop, which asks where output is.
- `NoDescriptorLeak`: the open sockets are those of the clients and the listener,
  and none after the end.
- `CommandsSpec`: the loop implements `Commands!Spec`. The refinement is the
  identity on `clients` and `client`; every other step stutters.
- `InboxSpec`: every connection keeps the safety part of `Inbox`, also when the
  client is dropped and the descriptor used again.
- `InboxDrains`: and its liveness part: the loop over the commands of one read ends.
- `RoundEnds`: a scan ends, although the vector grows and shrinks under it and
  the index moves back.
- `RoundProgress`: why it does. Each step of a scan acts on an event `poll`
  reported; a step that acts on none leaves fewer entries ahead, or as many and a
  later half of the entry, or that too and fewer commands. What `acceptClient`
  appends and the `i--` takes back always costs an event.
- `ShutdownAfterSignal`, `MarkedClientLeaves`, `OutputDrains`: see fairness.

`ReadPath`:

- `ChunksDoNotMatter`: the commands run are the lines of the stream, each once
  and in order, however it was cut.
- `ParserFits`: the assumption `ParsedCommand` the handlers of `Commands` rest on.
- `ParseFormat`: a known command survives being written out and parsed again.
- `InboxSpec`: the buffer implements `Inbox` (its safety part).

`Process`:

- `ProcessTypeOK`: types, and no socket on a privileged port.
- `ServesAsRequested`: the running server has a password, and the port is the
  number `main` converted, through the narrowing to 16 bits. Whether `atoi` gave the
  number that was written is not its subject: one beyond an `int` wraps.
- `ServerSpec`: the process implements `Server!Spec` (its safety part). Before
  `initServer` has made the listening socket the refinement shows `Server` with
  the socket there; signals are the only thing the loop can see in that time.
- `SignalEndsProcess`: see fairness.

`Channel`:

- `LimitKept`: a channel gets more clients than its limit only by +l itself, switched
  on when they are there already. `isFull` tests for equality, so no other operation
  may step over the limit or pull it below those who are there: not a join with or
  without a key, `addOperator`, a role change or a new limit. Such an overfull channel
  is never full and takes in more clients until the limit is raised; nothing in the
  repository says that it should not.
- `RoleChangeKeepsClient`: unless the channel is overfull, `memberToOperator` never
  loses the client between its two steps, and `operatorToMember` does not unless +i
  or +k is set. With +i or +k, or overfull, a demoted client may have left the channel.
- `TopicAnnounced`: TOPIC with a new topic does all or nothing. It tells everybody on
  the channel, and nobody else, the topic that is now set, or it announces nothing and
  the topic stays. TOPIC tests +t before it calls `setTopic`, which tests it again and
  refuses silently; a caller of `setTopic` alone tells nobody.

The `\* Mutant:` operators are plausible bugs, one for each property; `PROJECT.json`
says which definition each replaces and which property must then fail.

## Runs and bounds

| Run | Instance | Why it is enough |
|---|---|---|
| `commands_all` | 2 clients, one command for each branch of each handler, 1 waiting message | every branch is taken, from registered, half registered and unregistered clients |
| `commands_core` | 2 clients, two nicknames and the empty one, 2 waiting messages | names collide, change and come free; a part of a buffer is sent; the theorems cover more clients |
| `server_login` | 2 descriptors, right and wrong passwords, batches of up to two commands, 2 messages; liveness | clients are dropped by `recv` and by `send` anywhere in a scan of three entries, and descriptors come back |
| `server_chat` | 2 clients that register, rename, write and quit | every command that reaches another client, inside the loop; entries are erased and appended in the middle of a scan of three |
| `server_drains` | starts with two registered clients, batches of up to two commands, 2 messages in each buffer; liveness | output from the other client, at every place of the scan; a client that has quit goes on sending, in the batch of its QUIT and in later reads, while its own output and the other's wait |
| `read_path` | streams of 6 bytes over six bytes and NUL, chunks of up to 3 | several lines, empty ones, CR and LF in different chunks, an empty trailing parameter |
| `process` | 13 argument lists at every border of the checks; 2 descriptors, no commands | the loop is checked with commands elsewhere; here clients only come and go |
| `channel` | 3 clients, two names, limits 1, 2 and 3 | the limit is reached from below, by joins and role changes, and passed while -l is set; 3 clients fill two sets |

`MaxOut` bounds a write buffer. In `server_login` and `server_drains` it counts with
each buffer the answers that the commands already read will add to it: a batch is read
when there is room for them, whatever waits elsewhere, so that the bound never stops
the loop inside a batch and always leaves the thread a step. `server_drains` also has
no new connections (`accept` fails) and no signals, which `server_login` has; `poll`
may still fail and end the loop. The server's thread ends after a signal, so does the process, and the
bounded stream of `read_path` ends too, so these runs do not check for deadlock; the
two `commands_*` runs and `channel` do. Descriptors are symmetric in
`commands_all`, `commands_core` and `server_chat`, clients in `channel`.

Four runs must fail; each shows something a comment says and the code does not
do (`findings` in `PROJECT.json`):

- `doc_welcome`: `NICK :` is accepted with an empty nickname, which undoes a
  registration; the next NICK is welcomed again
  (`src/AuthCommands.cpp:67`: "only print welcome to the user if they were not
  registred before").
- `doc_nicknames`: a nickname may start with `#`, and its owner cannot be written to.
- `doc_join`: JOIN of a channel that does not exist is silently ignored, because
  `params.size() != 1 || params.size() != 2` is always true.
- `doc_joined_twice`: an operator that joins its channel becomes a member as well,
  although `addMember` has an answer for it ("print error Client already joined",
  `src/Channel.cpp:82`), and then counts twice and is told everything twice.

## Fairness

`Spec` of `Server` has `WF_vars(LoopStep)`: the thread runs while it can. `poll`
is outside: nothing obliges the network to produce an event, and the code calls
it without a timeout. `ShutdownAfterSignal` therefore assumes that `poll` keeps
returning: a signal that arrives between the test of `_signal` and the call of
`poll` is noticed only then. `RoundEnds` and `Inbox!Drains` need no more than the
fairness of the thread. `ReadPath` states no fairness, so `Drains` is shown on
`Server` only. `ProcessSpec` has weak fairness of `main`, the same thread from its
first instruction; `SignalEndsProcess` makes the assumption of
`ShutdownAfterSignal`. `Channel` is a class without a thread and has no fairness.
`MarkedClientLeaves` and `OutputDrains` assume
`PeersRead`: a peer that keeps reading makes its socket writable again and again
while the server asks (`SF` on `poll` reporting it), and `send` keeps taking all
there is (`SF`, because the code retries in every round but other outcomes come
between). Without it a peer that never reads keeps its entry, and a client that
quit, for ever; the code has no timeout against it.

## What is proved

Each theorem holds for every value of the constants that satisfies the assumption
of its module:

- `CommandsAssumption` (`GoodConstants`): the password is a word, channel words are
  words, and commands have the shape the parser gives them (checked in `ReadPath`).
- `ServerAssumption`: that of `Commands`; the listening socket is no client's
  descriptor; batches are sequences of commands.
- `ProcessAssumption`, beside that of `Server`: the numbers in an argument list are
  integers; the password given is the server's or empty.
- `ReadPathAssumption`: letters are no framing bytes, `toupper` maps them to letters,
  command words are non-empty words of letters that `toupper` leaves alone (the list
  in `Parser::setCommand` is in upper case), a chunk has a positive size.
- `ChannelAssumption`: finitely many clients, limits are numbers, no name, topic or
  key is the empty word.

| Module | Theorem | Property |
|---|---|---|
| `CommandsProofs` | `TypeCorrect`, `NicknamesUnique`, `DoomedReachable`, `PasswordFirst`, `SendersIdentified` | the five state invariants of `Commands` |
| | `WelcomedWhenRegistered`, `SourcesLive`, `OutputQueued` | its three action properties |
| `ServerProofs` | `LoopTypeCorrect`, `PollSetCorrect`, `EachEventServedOnce`, `NoCommandWaits`, `DescriptorsAccounted`, `MarkedAskedAbout` | the six state invariants of `Server` |
| | `LoopImplementsCommands` | refinement: `Spec => CommandsSpec` |
| | `LoopKeepsInbox` | refinement: `Spec => InboxSpec` |
| | `ClientsInvariance`, `LoopOutput` | what is proved of `Commands` holds of the loop |
| | `RoundsProgress` | `RoundProgress`, and that the events due are finitely many |
| `ProcessProofs` | `ProcessTypeCorrect`, `RequestServed` | the two state invariants of `Process` |
| | `ProcessImplementsServer` | refinement: `ProcessSpec => ServerSpec` |
| | `ProcessImplementsCommands`, `ProcessKeepsInbox` | refinements: `ProcessSpec => CommandsSpec`, `ProcessSpec => InboxSpec` |
| | `ProcessServesClients`, `ProcessKeepsLoop` | what is proved of `Commands` and `Server` holds of the process |
| `ReadPathProofs` | `ReadTypeCorrect`, `CommandsFit`, `LinesAreRun` | `TypeOK`, `ParserFits`, `ChunksDoNotMatter` |
| | `BytesKeepInbox` | refinement: `Spec => InboxSpec` |
| `FormatProofs` | `FormatParses` | `ParseFormat` |
| `ChannelProofs` | `ChannelTypeCorrect`, `LimitIsKept`, `RoleChangeSafe`, `TopicIsAnnounced` | all properties of `Channel` |

So the refinements compose: the process implements the loop, the loop implements
the commands and the inboxes, and the safety properties of `Commands` and of the loop
are properties of the program, from the first instruction of `main` on
(`ProcessServesClients`, `ProcessKeepsLoop`). The inboxes are what the bytes implement, and the shape of commands that
`CommandsAssumption` asks for is what `CommandsFit` proves of the parser.

### Commands

The inductive invariant is `IInv`: `TypeOK`, `NickUnique`, and `Sound` of the
record of every client. `Sound` is the conjunction of the three properties of a
single client, written over a record, so that each handler needs only a lemma
about records (`AppendSound`, `MarkSound`, `IdentitySound`, `SendSound`). Lemma
`ReplaceOne` lifts that to the state: putting a sound record in the place of one
client preserves the invariant unless it brings a nickname in use. `TypeOK` is
needed because a fresh client takes over the record its descriptor had;
`NickUnique` and the three properties do not need each other, but all need the
types. For the action properties, `StepServes` says what any step does to any one
client that stays: nothing visible (`Quiet`), one message appended (`Gets`) or
output sent (`Sends`). All three theorems follow from that case split.

### Server

The inductive invariant is `LoopInv`. To the four invariants the run checks it adds:

- `LoopTypeOK`, with the index inside the vector while an entry is served;
- `ListenerOnlyReads`: `poll` reports nothing but POLLIN on the listening socket.
  Without it, a POLLOUT on entry 1 would be due and never served;
- `DueIsOwed`, which is `RoundServesEachEventOnce` taken apart event by event.

None of the parts is inductive alone. That an event is served once needs unique
entries (`PollSetMatchesClients`); that erasing an entry keeps the vector right needs
the entry to be a client's, thus the types of the index; that dropping a client
loses no command needs `NoCommandLeftBehind`. Every action moves the scan in one of
three ways, each with a lemma: to the next entry (`AdvanceOwed`), staying at it
(`StayOwed`), or erasing it and staying at the index (`DropOwed`, the `i--` of the
code). `WithoutProperties` says what erasing from the vector does. The refinement
needs the invariant too: that the loop runs commands only for clients in
`_clients` is not visible from the guards.

`PollAsksForMarked` needs both invariants and one more, `AsksWhereOutputWaits`:
in `poll`, the requests still agree with the buffers.

`RoundsProgress` follows each action of the scan. One that finds its event due takes
it out of `due` (`EventShrinks`; for a dropped client `DropShrinks`, which takes the
events of the descriptor with it). One that finds none leaves `due` and goes on
(`PassEntry`), and that an entry with the event set finds it due is `DueIsOwed` again.
`due` is finite because the vector is (`DueFinite`). With the fairness of the thread
this is the argument for `RoundEnds`; the last step of it, that a fair thread takes
the steps, is left to TLC.

### Process

`ProcInv` says what each phase of `main` has established: nothing is set up before
`initServer` (`Before`), the arguments are accepted behind the checks, the handlers
are a prefix of the three, and the invariants of the loop hold while it runs.
`NarrowingIsExact` is the arithmetic of the port. The refinement mapping shows
`Server` with its listening socket before `initServer` has made it. `StepOfProcess`
says what a step of the process is to the loop: one of its own, or one before it that
leaves clients and buffers alone. From that the theorems about `Server` and `Commands`
carry over.

### Channel

The limit is a matter of counting: an operation changes each of the two sets by at
most one client, and none adds a client when the sum equals the limit (`LimitStep`,
from the library's theorems on cardinality). `TopicEffect` splits TOPIC into the paths
that answer one client and the one that sets the topic and tells all; `ReplyTold` and
`AllTold` say who hears what on each.

### ReadPath

The inductive invariant is `ReadInv`: the commands run are the first lines of the
stream, and the buffer is the stream behind them. `ChunksDoNotMatter` alone is not
inductive, because inside the loop it says nothing of the buffer. The lines of a
stream are found by sorting the places of its line feeds. `ascending` sorts by
counting: the n-th element is the one with n - 1 below it. That it exists for every
finite set (`AscendingProperties`) needs no induction, only that an injection between
sets of one size is a bijection; a sort from the library could not be expanded by the
prover. A chunk adds lines behind those there are (`AppendedLines`), the first line
feed of the buffer is the next of the stream (`NextEnd`), and cutting off a line
renumbers the others (`LaterLines`), which is the refinement of `Inbox`.
`ParserProperties` follows one line through the parser: what lies between two spaces
is a word (`words`), and nothing before the trailing parameter starts with a colon
behind a space, because the first such place is where it begins.

`FormatParses` is an induction over the number of parameters. `Format` is a recursive
function; that a function with its recursion equation exists (`GrowsExists`), and that
the text behind parameter k splits into the command and the first k parameters and
starts no trailing one (`TextGrows`), are shown by the smallest number for which they
would fail (`Descent`, from `MinProperties`). A space and a word behind a text add one
word (`WordsExtended`), because the place where it starts is above all others and so the
last of `ascending` (`AscendingAbove`). Behind " :" everything is the trailing parameter
(`TrailingFound`). `ParserFits` is what makes it true: a middle parameter that were
empty, had a space or started with a colon would not come back.

### Only model-checked

- Liveness, which is beyond the prover: `ShutdownAfterSignal`, `RoundEnds`,
  `InboxDrains`, `MarkedClientLeaves`, `OutputDrains`, `SignalEndsProcess`.
- The four runs that must fail: a counterexample is what they show.

Every safety property that a run checks is proved.

The invariants `LoopInv`, `ProcInv` and `ReadInv` were checked with TLC on the
instances of `server_login`, `process` and `read_path` before they were proved.

## Not modelled

- The exit status of `main`, and what `std::cout` does when the signal handler
  interrupts the thread in the middle of using it.
- Wording of replies, logging, real name, host name and address of a client.
- What a peer has received. `OutputIsFifo` and the refinement speak of the buffer: that
  the bytes erased are those `send` took is how `sendOutput` and `sendData` are defined.
- The bytes behind a NUL in one `recv`, which the program drops: `stream` in `ReadPath`
  begins behind that cut, and `ChunksDoNotMatter` says nothing of what it removes.
- A `poll` that never returns after a signal was recorded (see fairness).
- Memory exhaustion and exceptions from the standard library. The buffers have no
  limit in the code.
- The part of JOIN behind its arity test, with `findChannel` and `splitByCommas`, which
  only it calls: no execution reaches them. INVITE, KICK, MODE and PART have empty
  bodies. `isValidChannelName` and the reply builders for channels have no caller.
- Invitations and keys of a channel: the code reads them and has nothing that sets
  them.
- What happens to a channel when one of its clients disconnects. `clearClient` does
  not know of channels, and the set of channels stays empty.

## Plan

1. Done: `Commands`, `Server`, `ReadPath`, `Inbox`, `Process`, `Channel`.
2. Done: proofs about every module with a run: all safety properties the runs check,
   the refinements between the modules, and their composition in the process.
3. Open: the code behind the arity test of JOIN, and the life of clients on channels,
   as soon as they can be reached; liveness beyond TLC's instances, of which the proofs
   have the decreasing quantity for `RoundEnds` only.
