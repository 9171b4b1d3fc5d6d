# chess_set: a verification project

chess_set lets a person play connect-six in a browser against a computer. The
browser talks to a WebSocket server written in C; the server hands each game to
a process with the playing engine. These TLA+ modules model the server, the two
processes' links, the game as it is played over them, the position the engine
searches and what it makes of threats; TLC checks them on small instances and
TLAPS proves theorems about those at the core.

Paths below are relative to the repository's `src/`.

## The system

| component | code | state | operations | what makes it correct |
|---|---|---|---|---|
| client list | `websocket/Datastructures.c` | chain of clients, `len`, one mutex | `list_add`, `list_remove`, `list_multicast_one`, `list_free` | the chain is well formed, no walk meets freed memory, calls act as if made one at a time, the mutex is given back |
| connection table | `websocket/service.c` | `g_con_para`, `g_cur_con_num`; **no lock** | `add_socket`, `get_socket`, `del_socket`, `handle_service`, `handle_close` | bounded, compact, a browser reaches its own session and no other |
| client lifecycle | `websocket/Websocket.c`, `Errors.c` | one thread and one `ws_client` per browser | accept, handshake, serve, close, cleanup handler | a thread's structure is its own until it lets go; nothing is left behind |
| shutdown | `websocket/Websocket.c`, `Datastructures.c` | the handler of SIGINT, running in a thread the system picks | `sigint_handler`, `list_free` | every client closed once; the process ends |
| frame codec | `websocket/Communicate.c` | `ws_message`, the bytes carried over | `communicate`, `parseMessage`, `getRemainingMessage`, `getWholeMessage` | messages in order, once, whole, however recv cuts the stream |
| handshake | `websocket/Handshake.c` | `ws_header`; the position of `strtok`, **shared by all threads** | `parseHeaders`, `isNeedleInHaystack`, `sendHandshake` | a client is judged by its own request; responses fit their memory |
| engine link | `common/socket_i.c` | two byte streams | `socket_send`, `socket_recv` | a request gets its own answer or none |
| engine server | `consix/main.cpp` | `socket_client` of `main`, read by the new threads | accept loop, `handle_client` | each connection has one session |
| game session | `consix/consix.cpp`, `common/util.c` | board, player, step count, colour | `handle_consix`, `start_game`, `human_move`, `computer_move`, `get_val_by_key` | same stones as on the page; the rules |
| game page | `web/js/connect_six.js`, `game.js` | `m_board`, `m_cur_step`, `m_mode` | `click`, `on_message`, `start_game` | as above |
| search engine | `consix/search.cpp` | board, 92 lines per side, hash key | `ComputerMove`, `MakeMove`/`BackMove`, `UpdateLineForCross`/`BackupLine`/`RecoverLine`, `ConstructWinStep`, `WinOrLose`, `EnsureThreatNum`, `DefendForSingleThreat`, `DefendForMultiThreat`, ... | what is known of a line is what is on it; undoing a move restores everything; a win is a row of six; threats are counted right and answered |
| the rest | `md5.c`, `sha1.c`, `base64.c`, `utf8.c`, drawing code, scripts | | | not modelled |

How they interact. The page opens a WebSocket; `main` of the server accepts and
starts a handler thread (client lifecycle). The thread reads the request
(handshake), enters the client list and loops: `communicate` yields a message
(frame codec), `handle_service` looks the client up in the connection table,
opens a connection to the engine at a `start`, sends the message over it and
waits for the answer (engine link), which goes back by `list_multicast_one`.
In the engine `main` accepts the connection and starts a thread (engine server)
with a game session of its own, which calls the search.

What is hard here: handler threads share the connection table and `strtok`
without a lock; the list's mutex is also taken by a signal handler; the address
of a structure is used as a key after the structure is freed; the engine's
threads read a variable their creator goes on to change; TCP cuts and joins
messages as it likes; the page, the stream and the session keep separate copies
of one game; and the search keeps what it knows of each line by saving and
restoring parts of it around every stone it tries. `PROJECT.json` lists these hazards at their lines.

## Modules

Each module names the functions it models in its comments; `PROJECT.json` maps
each definition to its lines. Definitions marked `Mutant` are wrong variants of
the one after them; the properties are shown to notice them. Where a component
is checked under several circumstances (which clients, which faults), they are
a constant set from which the initial state chooses one, and the properties
name the circumstances they hold under.

**ClientRegistry**, abstract: an ordered set of clients with one-step calls.
**ClientList** implements it: the pointers `first`, `last`, `next`, the count
and the mutex, with one action per lock operation, loop turn or pointer store.
`members` is an auxiliary variable with the value the chain should spell.
`MCClientList` gives the symmetry. **ClientListProofs** holds the proofs.

**ListShutdown** extends ClientList with the signal: it interrupts a thread of
the constant set `Target`, which stops while the handler runs; `list_free` is
three actions. The other threads run until the handler has let go of the mutex; in
the code they run until `exit`, and may meet the freed list. The signal comes once,
and no hybi-00 thread is cancelled (`Datastructures.c:330`).
The last part of **ClientListProofs** holds the proofs.

**ConnTable**: the array with the memory around it (`Slot` is wider than the
array, so that a write outside is seen rather than excluded), the count, and
each thread's place in `service.c`. `faults` says what may happen in a
behaviour: threads in `handle_service` at once (at most `Together`), the page
sending `start` again, the engine being unreachable, the engine dying and being
started again: all connections are then `Lost`, and the call that finds out may
close its descriptor (`socket_error`) and leave it in the table. `TakeTurns` is
the absence of the first. `owner`, `sentOn`, `started`, `reply` are auxiliary.
**ConnTableProofs** holds the proofs.

**BrowserSessions**, abstract: each browser has a session of its own that it
enters, asks, and leaves. **ServerLife** implements it with handler threads,
addresses of structures, the client list as a set, and the connection table as the
entries of each address, oldest first. A call of the list is one step, as
ClientRegistry has it; a call of `service.c` is one step too (threads that take
turns), with its entries as the code has them: socket 0 after a refused connection,
a second one after a second start, and `handle_close`, which skips the first and
deletes one. `faults` says what may happen in a behaviour: malloc gives out an
address that a cleanup handler still has after `handshake_error` has freed it
(`heirs` are the threads accepted there), the engine is unreachable, a browser
starts twice. **ServerLifeProofs** holds the proofs.

**MessageChannel**, abstract: messages are handled in order, once and unchanged.
**FrameStream** implements it from bytes: `wire` is what recv has not returned,
a recv takes any prefix (`Chunks`), `m` is `n->message`. A header is 6, 8 or 14
bytes as in the code; payloads and the buffer are short. `kind` is the client:
its type of connection, the frames it may send, whether it sends without waiting
for answers, and whether the network cuts its headers. A client that hangs up
may lose the end of its last frame. After bytes of a fragment are lost the
stream may be out of step; what is then read as a header is not modelled and the
handler stops there. `HybiRead` is `getWholeMessage`, which drops what stands
behind the end of a text. `Hixie` is the type that both branches of `communicate`
pass over: the handler takes the length of a text that is not there.

**Connection** extends FrameStream with what comes before the frames:
`handleClient` collects the request, `sendHandshake` computes the size of the
answer and puts it together, one memcpy at a time (`Pieces`), for each of the
three types. What is in the request is left to Handshake; here it is a number
of bytes, and the sizes of its fields.

**Handshake**: the two loops over `strtok`, whose calls read the shared position
and store it in two steps, and the decision on the request. Requests are lists
of fields, and all clients shake hands at once.

**RemoteCall**, abstract: calls one after the other, each seen at most once, an
answer is the call's own. **EngineHost** implements it for each connection of
the engine: the length and body loops of both ends, the accept loop, `main`'s
variable that the new threads read, the sessions, and the descriptors nobody
closes. `setting` says whether a thread runs before the next accept (`prompt`),
which process may be killed, and how many browsers make how many requests. A
loop whose peer is gone never ends: the place `spin`. **EngineHostProofs** holds
the proofs.

**ConnectSix**, abstract: the rules. **GamePlay** implements them with the page,
the messages both ways and the session; the search is any two empty places, or,
where the game has it (`nostep`), none: `computer_move` then writes to the board and
sends a step whose first place is column -1 and whose second is anything, and the
page throws at it. A message is a function from keys to values, and `Val` is
`get_val_by_key`. `habits` says what happens in a game beyond turns that wait for
each other: the user clicks before the game is open or while the engine thinks
(`click` tests neither the turn nor the place), the engine leaves a stone on its
board that is in no step, as `Position` shows it can, it finds no step, as with five
stones in a stretch of six closed at both ends, or a client sends messages that are
no moves (`other`), which `handle_service` and `handle_consix` refuse.
**GamePlayProofs** holds the proofs.

**Position**: the engine's board, `LineInfo` and the hash key. An entry is
represented by the stones of the line it was computed from; a stale entry then
differs from the line. (Which lists `ValuateShape` fills from them also depends on
`which`, `search.cpp:2041` and `:2081`; no property is about that.) An entry has five parts, the values and the lists that are saved,
computed and restored apart (`which`). `MakeMove` and `Probe` push a frame with the
saved entries (the local `LineTemp` of the call), `BackMove` and `EndProbe` pop it;
`ProbeOf` lists the sets of parts the callers ask for. Which places are tried, and
how far the search goes, is left open except for `MaxFrames`; MaxSearch and
MinSearch return when the mover has a threat, and the model does. A step of the
game ends with no frame, and `WinMove` is `ConstructWinStep` with the order of its
pairs and the stones it leaves. The board's size and the length of a row are
constants; the formulas of the line numbers are the code's, with 19 and 6 written as N and Six.
**PositionProofs** holds the proofs.

**Defence** extends Position with what the engine makes of threats: `ThreatNum`,
how many stones meet all that a side threatens (the sum over parallel lines,
`EnsureThreatNum` for others, which tries stones on the threat points and looks
for rows with `AnalyzeLineSegID`), and the answers `ComputerMove` may choose from. The
number of a single line comes from the shape table; here it is what the table
stands for, and `which` is 0 or 1 (with other values the code keeps the bare sum,
which its ordering and leaf values use). Which places are tried for the second stone
of `DefendForSingleThreat`, and without a threat, depends on the shapes of lines: it
is left open which they are and whether there are any (`second`). The game of the
model goes on only with a step that was found. One assumption goes beyond Position's:
a row is longer than two (`ThreatAssumption`), so that a line without a stone
threatens nothing.
**DefenceProofs** holds the proofs.

## Runs

Bounds are the smallest in which the interesting case happens; the third actor
is there where two could hide it.

| run | bounds | question |
|---|---|---|
| `client_list` | 2 threads, 3 addresses | list well formed, walks safe, refines the registry; three nodes make a first, a middle and a last one to remove |
| `shutdown` | 1 handler thread, 3 clients, signal to `main` | each client freed once and all closed, the mutex is given back, the server exits |
| `shutdown_any_thread` | 2 threads, 1 client, signal to any thread | **violated**: the handler waits for its own thread's mutex |
| `conn_table` | 3 browsers, 3 descriptors, 2 entries; no fault, refusals, refusals with second starts, deaths of the engine, or two threads at once | the table is bounded and compact, each browser stays on its own session, "full" means full; the third browser meets a full table |
| `server_life` | 3 threads, 3 addresses, 2 entries; no fault, an address given out early, refusals, or second starts; symmetry | no structure freed twice, structures owned, nothing left, refines the sessions. One thread cleans up, one has its address, a third is neither |
| `frames` | nine kinds of client, five of RFC 6455 among them, up to 3 frames, buffer of 16, `MAXMESSAGE` 24, a request of 18 bytes, fields of 1 or 3 | what is written fits its memory; messages in order, once, whole; no connection dropped; every message handled. One payload is longer than the buffer, one message is too long, request and headers are cut by the network or by the buffer itself |
| `handshake_mixed` | 2 threads, requests of six fields, at once | **violated**: headers of the other client |
| `engine_host` | bodies of up to 2 parts, 2 descriptors; 1 browser with 3 requests and both processes killed at will, 2 browsers and the engine killed, 3 browsers, 3 browsers and threads that start late | framing, own answers, calls return, sessions end, who serves whom. The third browser finds no descriptor; a late thread of the first may read the second's |
| `play` | 7 places; a user who waits, one who does not, an engine that leaves stones behind or finds no step, and messages that are no moves | page and session agree, the rules are kept, the engine searches only in its turn, its step comes. Seven places are an opening and up to two rounds |
| `position` | board of 5, rows of 4, 7 stones on 9 places of one corner, 3 frames | the lines, the key and the board are those of the stones, whatever is tried and taken back; a row `WinOrLose` finds is in the lines |
| `defence` | board of 6, rows of 4, 7 stones on 7 places, no frames | threats are counted as the stones that meet them, two or more have an answer in the list, and it meets what it can. The places lie on rows, columns and diagonals that cross, on the border and off it |
| `win_step` | the board of `position`, 9 stones, no frames | **violated**: the step returned for a win makes no row |

`CHECK_DEADLOCK FALSE` stands where the system may stop: a connection that is
closed, a game the user has left, an engine that has returned, all handshakes
over, a handler that waits for its own thread, a game at its bound.

Why the properties with a hypothesis have it:

- `Compact` and `InBounds` hold when threads take turns, `Isolation` and
  `FullMeansFull` when there is no second start (and no refusal for the second).
  The cases left out do go wrong: two threads in `add_socket` write one entry;
  the entry a second start leaves behind survives the browser; entries of
  failed connections fill the table (`service.c:98` adds them, and `handle_close`
  takes their 0 for no entry). These are listed as hazards. `Isolation` and `Affinity`
  also leave out deaths of the engine: a descriptor that `socket_error` has
  closed stays in the table and is given to the next connection.
- `Capacity` has both cases in it. Two starts at once pass the test of the limit
  together, so that the table takes one entry more. Three threads go further: a
  count that is out of date when it is stored lets starts in again.
- `OwnStructure` excepts the threads accepted at an address that another thread
  still had: the cleanup handler of that one removes them (`Errors.c:65`). `NothingLeft`
  speaks of entries where the engine was reachable and each browser started once;
  `RefinesSessions` needs both, and addresses of their own.
- `Fits` leaves out one write: a later fragment that comes with more bytes in one
  recv is copied behind `m->msg` (`Communicate.c:210`) before the sizes are compared at
  `:230` (`Crowded`). The model then closes the connection or ends the server.
- `NotDropped` holds when the network cuts neither request nor header (`~splits`).
  Two exceptions are the code's: a hybi-00 request whose empty line is the last
  thing a full buffer holds ends the loop that waits for its key (`FillsBuffer`,
  `Websocket.c:354`), and a text of hybi-00 of exactly `MAXMESSAGE` bytes is refused
  when its end comes in a recv of its own (`TooLong`, `Communicate.c:314`).
  A header that arrives in two recvs ends the connection (`Communicate.c:470`
  reads on only once, and `parseMessage` then subtracts a header from fewer
  bytes); a request whose first piece is shorter than 14 bytes is taken for SSL.
  It leaves out hixie-75, whose connections all crash the handler.
- `Waits`, in three properties of `frames`: a client of hybi-00 waits for an answer
  before it sends again. Of one that does not, the end of a recv may be dropped.
- `AllHandled` leaves out empty frames (`NoEmpty`): when one is the last of a recv,
  its six bytes are taken for too few and wait for the client's next frame.
- `DeliversFrames` and `AllHandled` leave out messages in fragments (`OneFrame`):
  `parseMessage` allocates `m->msg` anew for each fragment, and what it handles in
  the end lacks the bytes of the fragments before (`Communicate.c:181`).
  `NotEarly` has them.
- `OwnAnswer` and `CallReturns` of EngineHost hold when a thread reads `main`'s
  variable before the next accept (`prompt`). A late one serves another's
  connection: two sessions then share one stream, and another browser has none
  and waits for ever. `NeverOlder`, `GivenAway` and `LastGetsSession` say what
  still holds. A call that spins in a body loop after a death has no return:
  `CallReturns` ends when a process is killed.
- `AnswerThere` is about two threats or more. With one or none the list may come out
  empty (the search then reads `MoveList[0]` of it, `search.cpp:133` and `:844`), and
  `AnswerMeets` is about a single threat with a meeting point that has a second place
  (else `search.cpp:1176` takes points that do not meet).
- `NeverLess` and `AnswerMeets` leave out threats all of whose places are on the
  border (`Inner`): `AnalyzeLineSegID` begins there at the place itself.
- `LinesCurrent`, `NoTrace` and `SixIsSeen` end when the engine has left a stone
  on its board that is in no step (`stray`). `Agreement`, `FollowsRules` and `TurnComes`
  hold when the user waits for his turn, the engine leaves no such stone and it finds
  a step (`Orderly`); a step at column -1 breaks all three. `EngineTurn` has every case.
- `InStep` is about connections with one session, and `SessionEnds` takes a session
  that is out of step for ended. `AllHandled` takes `handle_service` to return.

The bounds of `position`. A corner has lines of all four directions that cross in
its places, among them the shortest diagonal that counts and one that does not;
rows of four lie on its two borders and on that diagonal. With seven stones
(an opening and three steps) four of one side fit in a row. Three frames are
a move in a move, or a move, a probe in it and a probe in that, which is the
deepest nesting of probes in the code. Moves and probes try the two places of a
pair in one order. A game ends at a row (the page and the engine would go on) and at
a stray stone.

## Fairness

- Handler threads (`ClientList`): weak fairness of
  each thread's steps. They are kernel threads, and a step that is enabled
  stays so until it is taken. None is assumed for a new call or a new client.
- `ListShutdown`: also strong fairness of the handler's mutex: the mutex becomes
  free again and again while the others go on, and a thread that waits for it
  gets it in the end. Without that assumption the handler could be passed over
  for ever by threads that go on calling.
- `Connection`: weak fairness of the handler thread (`Handles`): recv returns when
  bytes are there. `EngineHost`: weak fairness of the accept loop, of each handler
  and of each session. None for the user, for hangups or for kills.
- `GamePlay`: the connection delivers and the engine answers (its search is
  depth-limited). None for clicks.

## Proofs

TLAPS proves, for any number of threads, clients and entries:

- **ClientListProofs**: `IInv` is inductive. `WellFormed` alone is not: it says
  nothing while a removal is under way. The proof needs `Mutex` (the lock's
  owner is the one thread inside), `Linked` (what the chain spells, also halfway
  through a removal), `Cursor` (a walk's pointer is at a member), `Unlinked` and
  `Own` (nodes on their way out of and into the chain). From it follow
  `TypeCorrect`, `ListWellFormed`, `WalksAreSafe`, `MembersRegistered`, and with
  the step-by-step mapping `ImplementsRegistry`.
- Its last part, about ListShutdown: `ShInv` says where `list_free` is. Until it has the mutex
  the list is as `IInv` describes it and no client is closed. While it walks, the
  mutex is its own and no other thread is inside (`Outside`); the clients it has
  closed are those before its pointer, and from there on the chain is as it was
  (`Freeing`). Afterwards the closed clients are all that were present.
  `FreedOnceHolds`, `AllClosedHolds` and `WalksSafeInShutdown` follow for whichever
  thread the signal interrupts, also one that has the mutex itself: such a
  shutdown frees nothing. That it ends is a liveness property.
- **ConnTableProofs**: the bounds of every write (`BoundsKept`) and `TableCompact`, for
  behaviours in which threads take turns, from an invariant (`TInv`) that describes
  the array at every place of the one active thread. `CapacityHolds` has two
  threads at once as well: `CInv` says that two are inside at most and one that
  closes a game is alone (`AtMostTwo`), that two past the second test leave room
  for one of them, and that a count read and not yet stored is within the limit (`Room`). `IsolationHolds` and `AffinityHolds` add `SInv`, which entry a
  browser's search finds first and that it is the one of its session, and `OInv`,
  whose session that is. They cover addresses and descriptors that are given out
  again, and second starts for `Affinity`. `FullMeansFullHolds` needs that no session is
  lost: `FInv` says that each one open is that of an entry, or is being added or
  closed (`Held`), and that entries in use are those of browsers that have started
  (`Filled`). A full table then has a browser for each entry, and the one refused is
  another. The theorem asks for as many descriptors as entries, should there be
  finitely many.
- **ServerLifeProofs**, whatever address malloc gives out: `NoDoubleFreeHolds`,
  `StructuresOwned`, `ServerLeavesNothing` and `ImplementsSessions`. `OwnStructure` is
  not inductive: `Kept` says that every structure in use is that of the browser whose
  socket is in it, though a thread whose structure is freed goes on with its address;
  `Sole` that no other thread has the address of one that did not inherit it. The
  entries of an address are no more than the browsers there that have started and
  will close one (`Counted`), since `handle_close` deletes one each; in calm
  circumstances an entry is its own browser's (`Single`), which gives the refinement.
- **EngineHostProofs**: `NeverOlderHolds` and `GivenAwayHolds`, for any number of
  connections and any order in which threads begin. The invariant says that
  `main`'s variable is the last connection accepted, that it has created a thread
  for each, and that a thread has a descriptor between its own and the last;
  the second theorem then is the pigeonhole principle. `InStepHolds` and
  `OwnAnswerHolds`, when threads read the variable in time: `LInv` says for each
  connection what lies in its two streams at each pair of places of its two ends
  (a length, the rest of a body, nothing), and that what one end has read is a
  beginning of what the other has sent; a kill at any place keeps it. From it every
  step is one of RemoteCall or none. Bodies have any size.
- **GamePlayProofs**: `EngineTurnHolds` for a user who clicks as he likes and messages
  and steps of any kind; `AgreementHolds` and `FollowsRulesHolds` for a user who waits and an
  engine that finds its steps. `EInv`
  relates the place of the engine to its player and step; `GInv` relates the
  messages under way, of which there is one at most, to both boards. The values of
  messages need only be told apart (`ValueAssumption`). The board is any set of
  places and the game has any number of steps.
- **PositionProofs**: `LinesCurrentHolds`, `NoTraceHolds` and `SixIsSeenHolds`, for any
  board, any row and calls nested to any depth. The invariant cannot speak of the
  present entries alone, since what `RecoverLine` brings back was saved by a call
  further down: `LinesOf` says, for each call, that of every part of an entry that
  was read below it the first call above it that saved the part holds what was on the line then
  (`Restores`), and if none has saved it, it is unchanged. A call more keeps this
  (`PushLines`) because it saves all it changes (`Copied` has `Computed` in it), a
  call less (`PopLines`) because it copies back all it has saved. `Apart` says that
  calls lie on places of their own; the board under the first so many of them is
  `Layers`. The geometry is proved from the code's formulas: the numbers of lines
  of different directions differ (`LineIDKinds`), two places have the same number
  just when they are on one line (`SameLine`), what `AnalyzeLine` reads from the
  border is the line's places in order (`ReachInOrder`), and the bounds on the
  diagonals leave none out that has room for a row (`RowLong`).
- **ConnectionProofs**: `FitsHolds`, for fields, frames and buffers of any size, with its
  one exception. The
  answer: the pieces of each type of connection add up to `length` (`PiecesFit`, from
  the sums of sequences put behind one another), and what is written is the sum of
  the first pieces (`Answering`). The frames: `Bounded` says that what is carried over is
  shorter than the buffer, and that a message whose rest is awaited is not whole.
  `NotDroppedHolds` and `DeliversFramesHolds` are about clients that send whole
  frames and, of hybi-00, wait (`Plain`); a request or header may be cut for the
  second. Lengths do not tell whose bytes these are, so that the invariant (`SInv`)
  gives every byte its place in the stream of all that is sent: `Offsets` are where the
  frames begin, `Run` says that a sequence of bytes is the stretch behind a place, and
  `Stream` that what is on its way is the last one. For each step of the handler
  `Place` says what `next`, `buffer` and `m` hold of the frame it is at, and that with
  what is on its way no byte is missing or there twice. `parseMessage` and the
  loops around it keep this (`ParsePlace`, `RestPlace`, `HybiBytes`), wherever recv
  cuts. `Handled` follows: the k-th message handled is the k-th frame's payload.
  `Reason` collects why the code ends a connection; `NotDropped` is that no other is
  met. Every step then is one of MessageChannel or none (`ChannelStep`).
  `NotEarlyHolds` is about every client, texts in fragments included, of whose
  messages bytes may be lost (`Communicate.c:181`); what is left of them still comes
  in the order of the frames. `NInv` says that all bytes at hand lie in this order
  (`Ordered`, `Ahead`, `Past`, `Later`) and that there is a frame such that no more
  has been handled than the texts that end up to it (`Complete`), and the text at
  hand began behind it (`Begun`, `AtText`); `Spoken` is the order the client keeps,
  that nothing follows a close and that an unfinished text goes on. `Texts`, with which
  the property counts the texts, is a fold over the frames: there is a function that
  computes it, as a least frame without one cannot be (`CanCollect`), and its length is the
  number of the frames that end a text (`TextsAre`).
- **DefenceProofs**: `NeverMoreHolds`, `NeverLessHolds`, `AnswerThereHolds` and
  `AnswerMeetsHolds`, for any board and row. The invariant is that of the position
  without calls (`GInv`); it is what the four need of the past. The rest is about one position. A threat is a stretch of `Six` places
  with stones of its side and at most two gaps (`Way`): these are what the windows of
  the lines are (`WaysAre`), and the number of a line is the least number of places that
  meet its stretches, whether places are counted on the line or on the board
  (`LeastNamed`). Parallel lines have no place in common, so what they need together is
  the sum of what each needs, if it is 1 or 2; of other lines the sum is never less than
  they need together (`SumsUp`). `EnsureThreatNum` tries stones on the threat points and
  looks for rows: a row it finds is a threat that the stones do not meet (`RowsThreat`),
  and a threat they do not meet is a row it finds, if one of its gaps is off the border
  (`ThreatRows`, from `SegComplete`: the walk back of `AnalyzeLineSegID` ends at the
  first place on the border, and a row goes on behind it only along the border). A least
  number of 2 has two threat points that meet everything, so the list of answers has
  them; and a threat after the answer would have been there before, unmet (`WayBefore`).
  `SumFunction` is a fold; what a sum says of one or two of its numbers is `SumIs`, from
  the order not mattering (`AnyOrder`): a least set for which it mattered cannot be.

The assumptions on constants are the named ASSUMEs of the modules.

Every invariant and every action property of the passing runs that is not about
liveness is proved. Only model-checked: all liveness, which the prover does not
reach (it has neither fairness nor ENABLED), and the violated properties of
Handshake, Position and ListShutdown, for which a run shows a behaviour.

## Findings

The violated runs show: a signal to the thread with the mutex hangs the shutdown
(`Websocket.c:40`); `strtok` mixes the requests of two clients
(`Handshake.c:311`); and the engine plays a step for a win that wins nothing, and
leaves stones on its board that the page never hears of (`search.cpp:2156`).
`PROJECT.json` quotes the text of the repository each one contradicts.

The third in detail: `ConstructWinStep` puts each pair of threat points on the
board and asks `AnalyzeLineSegID` whether one of the two is now in a row. It takes
a pair back only when it returns it. With threats on two lines the stones of an
earlier pair complete a row for a later one. `AnalyzeLineSegID` also begins its
line at the first place on the border, which for a place on the border is that
place itself, so that a row along the border may be missed; if no pair is
found, the step has the column -1.

## Not modelled

Running out of memory; the allocator's and stdio's own locks; socket options;
a second signal during the shutdown, and what threads do with the freed list before
`exit`; the cancelling of hybi-00 threads; SIGPIPE in the engine, where it ends the
process; the command-line thread, which is commented out, and the list operations only
it uses; `encodeMessage`, which frames an answer and keeps no state; the keys of
the handshake, the origins (`ORIGIN_REQUIRED` is 0) and the parsing of the fields
only older requests have; what follows a write outside allocated memory; the
four bytes of a length arriving in pieces on the loopback interface; a number
of a closed engine descriptor that goes to a browser's connection; that
`get_val_by_key` finds a key by its text wherever it stands in a message, since no
value that is sent holds the name of a key; drawing; hashes. Of the search: the
preference among moves (`ConstructStepForNoThreat`, the second places of
`DefendForSingleThreat`), their values, alpha and beta, and the shape numbers of
`ConnPreTbl.me`, which are a binary table. The opening manual (`SearchCM`) is not
called, and the table of earlier moves stays empty with a `MaxDepth` of 1.

## Plan

1. Done: ClientList, ConnTable, ServerLife, EngineHost, ListShutdown, Connection with
   FrameStream, GamePlay, Position and Defence with proofs; Handshake.
2. `AlphaBeta`: `MaxSearch` and `MinSearch` against plain minimax on small trees.
   ServerLife with ConnTable in place of its one-step calls, threads that overlap
   in `service.c` included.
3. Theorems: a client of Handshake that is alone is judged by its own request.
