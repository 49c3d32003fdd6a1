# A TLA+ model of minput-hop

minput-hop is a client for Synergy/Barrier KVM servers: it receives packets over
TCP, answers keepalives and queries, and moves the mouse and presses keys as the
server says. It is single-threaded C: on Unix a loop, on Windows 3.x to 32-bit
Windows a window procedure with a timer. This directory models it in TLA+,
checks the models with TLC and proves the core of them with TLAPS. Source lines
are of the files in `src/`.

## The system

| part | code | state | operations |
|---|---|---|---|
| packet buffer, connection | `netio.c` | `socket_fd`, `pkt_buf`, `pkt_buf_sz`, `pkt_buf_sz_max` | `netio_connect`, `netio_disconnect`, `netio_fetch_packets`, `netio_process_packets` |
| main loop | `main.c` 5-101, `osio_unix.c` 34-43 | `calv_deadline`, `pkt_proc_iter` | `minput_loop_iter` |
| protocol, incoming | `synproto.c` 154-370 | `mouse_x`, `mouse_y` | `synproto_parse_and_reply` |
| protocol, outgoing | `synproto.c` 17-152 | `in_token`, positions | `synproto_vprintf`, `synproto_send` |
| Windows message loop | `osio_win.c` 101-173, 253-322, 471-524 | `g_running`, the timer, the stack of message loops | `WndProc`, `osio_win_quit`, `osio_win_save_fields`, `osio_loop`, dialogs of `osio_printf` |
| input | `osio_win.c` 552-758 | the keys and buttons that are down | `osio_win_key`, `osio_key_*`, `osio_mouse_*` |
| clipboard | `osio_win.c` 763-809 | the clipboard | `osio_set_clipboard` |
| startup and exit | `main.c` 103-189, `osio_*.c` | what has been set up | `minput_main`, `osio_parse_args`, `osio_ui_setup`, `netio_setup`, cleanup |
| logging, printf for old compilers, resources | `osio_*.c`, `oldc.h`, `minhop.rc` | none that matters | |

**How they interact.** `osio_loop` (Unix) or `WM_TIMER` (Windows) calls
`minput_loop_iter`. That connects if `socket_fd` is 0, calls
`netio_fetch_packets` once (one `recv`, appended to `pkt_buf`), then
`netio_process_packets` up to `PKT_PROC_PER_LOOP` times; each hands one packet
to `synproto_parse_and_reply`, which sends the reply, moves `calv_deadline`, or
calls an `osio_*` function, and then the packet is removed. At the end the clock
is compared with `calv_deadline`. Everything shares one `NETIO_CFG`. On Windows
an error is a `MessageBox`, which dispatches messages: a second
`minput_loop_iter` may run inside the first.

**What is hard.** TCP cuts packets anywhere, also inside the length word, which
is read before it is complete; the buffer is reused across connections, resized,
and moved down after each packet; a server may close, reset or fall silent at
any point of an iteration; a bounded number of packets is processed before the
deadline is checked; `send` is not looked at; dialogs re-enter the loop and let
the user quit in the middle; setting up may fail half-way with the timer already
set; keys are released under other IDs than they were pressed. The list, line by
line, is under `hazards` in `PROJECT.json`.

**What makes each part correct.**
The buffer: the bytes in it are those received and not yet parsed, and the
parser gets each packet once, whole and in order.
The loop: each request is answered once, on its own connection; a silent server
is given up in time, a live one is not; after any loss of the connection the
client is connected again.
The message loop: nothing the server wrote is acted on after a quit, and a quit
ends the program.
Outgoing messages: what is written is what the format's tokens mean, and the
server can cut it into packets.
The deadline: the numbers it is kept in wrap, and a clock may be set; away from
that a silent connection is given up in time and a live one is not.
Input: what is down at the client is down at the server, and the other way round.
The clipboard: what was selected at the server is there, whole, and nothing else;
other programs can use it.
Startup: no use of what is not set up; connection, buffer and icon gone at the end;
failures visible.

## Modules

### SynStream, Netio, MCNetio, NetioProofs

`SynStream` is the specification of the receive side: a FIFO of packets that is
written, delivered from, and reset with the connection.

`Netio` is `netio.c` byte by byte. A byte is its position in all the server ever
wrote; a cell of `pkt_buf` holds such a position, or `Stale`. So the model can
tell a byte from every other one, and what `netio_process_packets` sees in the
first four cells follows from them: the right length if all four belong to the
next packet, one of the values in `Garbled` if only the first one to three do
(the rest being left over from before), anything at all otherwise. The actions
are `Connect`, `Disconnect`, `Fetch(n)` (a `recv` of n bytes, with the realloc
test and its new size), `FetchNoMemory(n)` and `ProcessPackets` (claim, test,
parse, subtract, move down, overflow test). They are called in any order their
guards allow, which includes every order `minput_loop_iter` has. `stream`,
`sent`, `rcvd` and `last` are history.

What a partial length word can show: the bytes come in network order, so after
one to three bytes the high part is right and the low part is arbitrary. Every
such value is at least the true length with its low part cleared. A claim is
taken for a whole packet only if it is at most `pkt_buf_sz`; here fewer than
`HDR_SZ` bytes are in the buffer and every claim is at least `HDR_SZ`.
`ConstantsOK` says the claim does not wrap, which is so unless the first byte of
a length word is 0xFF.

Run `netio`: a `HDR_SZ` of 2 with a base-4 word, `SOCKBUF_SZ` 4, slack 1, packets
of two sizes, `MaxSent` 16. These are enough for packets larger and smaller than
a `recv`, several packets in the buffer, growth and shrinking of the buffer,
length words cut in half over the leftovers of the previous connection. Checked:
`IInv`, `Window`, `NoOverflow`, `StreamSpec` (Netio implements SynStream) and
`AllParsed` under `FairSpec`. Fairness: the loop calls fetch and process for
ever, so a call that stays possible is made; nothing is assumed of the server.

`NoOverflow` is about calls that return before the next one begins, as on Unix; on
Windows a dialog nests them, and there the overflow happens (`WinLoop`).

Proved for all constants satisfying `ConstantsOK` (`NetioProofs`): `IInv`,
`Window`, `NoOverflow` and `Spec => StreamSpec`. `Window` is not inductive by
itself: that the cells are the right positions after a packet was removed needs
to know that the claim was the packet's own size, hence that the first cell is
the first byte of the next packet (`Aligned`), hence that the packets of the
stream lie end to end (`Contiguous`), that the buffer's contents fit it
(`Capacious`: a buffer once enlarged may be made smaller by a later realloc, but
never below what it holds), and that nothing is received without a connection
(`Positions`). The refinement follows from `Aligned` and `Window`: a claim that
is complete is the next packet.

### MinputLoop, Countdown, MCLoop, LoopProofs

The loop on Unix, with whole packets (that is what `Netio` shows), and a server and
network that write, close, reset or go silent between any two steps. `pc` follows
`minput_loop_iter`: `top` (connect), `fetch`, `process` (the do-while), `check`
(deadline). Time passes in `recv` only, in ticks; `calv_left` is `calv_deadline -
osio_get_time()`. That nothing else takes time is an assumption: `send` (`synproto.c`
149) has no timeout, and with a server that does not read it could wait longer than
any deadline. `DropsInTime` and `PromiseSpec` rest on it. `owed` counts requests of
the connection not yet answered, `silent` the ticks since a keepalive was received,
`died` whether `recv` has reported the end; they are history.

`Countdown` is what the comments on `calv_deadline` and `SYNPROTO_TIMEOUT_MS`
promise, without a clock, packets or iterations: a connection, the ticks that are
left to it, and that it is given up after they are over and at most `LATE` later.

Run `loop`: `OwedIsOnItsWay` (each request is answered once and on its
connection), `DropsInTime` (at most one receive timeout late), `WhyDropped` (a
connection is dropped because the server was silent too long, because its
keepalive lies behind the budget, or because the program ends), `LoopInv`,
`PromiseSpec` (`MinputLoop` implements `Countdown`, a `Hear` for every keepalive
parsed), and the liveness properties `BackOnline` and `ScreenTold`.

Bounds: a budget of two packets, a timeout of two or three ticks, a receive
timeout of one, two or three packets per `recv` and a backlog of three to eight,
as the `MCLoop*.cfg` files say; the timeout exceeds the receive timeout and the
backlog exceeds the budget, as in the code (5000 ms to 1000 ms; ten packets), so
that both the late and the buried keepalive occur.

Fairness: weak fairness of the client's steps (the loop never stops by itself;
`recv` returns after its timeout); strong fairness of `Tick` (time goes on even
if packets keep coming in between) and of `Connect` (a server that can be reached
again and again is reached in the end: an assumption about the network, not the
code). Nothing is assumed of the server's other steps.

Proved (`LoopProofs`), for every budget, timeout and backlog: `LoopInv`, `TypeOK`,
`DropsInTime`, `WhyDropped` and `PromiseSpec`. The invariant: how far past the
deadline each `pc` can be (`Overdue`); if no keepalive is in the buffer the deadline
was set no earlier than the last one was received (`Heard`); an iteration leaves a
packet in the buffer only at its budget (`Budget`). `WhyDropped` follows from the last
two at `CheckTimedOut`, and `PromiseSpec` from `Overdue`: a tick is possible only
where at most one receive timeout of the delay is used up.

`OwedIsOnItsWay` is proved for the same constants. It needs that without
a connection nothing is on its way, nothing is owed and no packet is received or
processed (`NothingLeft`), and three facts about counting: a packet appended
counts once more, one taken from the front once less (a bijection between the
places of the rest and the places of the tail), and one that moves from the
network into the buffer counts the same.

Three runs show where the code departs from what is written about it:
`loop_backlog` (a keepalive received in time does not count until it is parsed),
`loop_closed` (a connection reported dead is kept), `loop_sigpipe` (a reply to a
reset connection kills the Unix process).

### Keepalive, KeepaliveProofs

The deadline as it is computed: `osio_get_time` and `calv_deadline` are uint32_t,
so `now + SYNPROTO_TIMEOUT_MS` wraps, and `now > calv_deadline` compares what is
left of the numbers. On Unix the clock is the time of day, and `SetClock` may put
it anywhere (`CLOCK_SET`). The deadline is set when `connect` has returned,
successfully or not, and by Barr and CALV; it is looked at once an iteration.
`LATE` bounds the ticks between two looks: that an iteration ends is what
`MinputLoop` shows on Unix, where only `recv` waits, with a timeout; on Windows an
iteration may wait for a dialog, but then the iterations inside it look at the
deadline. `set_at`, `elapsed` and `steady` are history.

Run `keepalive` (a clock of 16 ticks, from every moment on, a timeout of 3, 2 ticks
between looks, the clock set at any time): `NoEarlyDrop` and `HeldLate` say exactly
when the code departs from its comments: a connection is dropped early only after
its deadline has wrapped and before the clock has, or after the clock was set; it is
kept too long only with a deadline in the last `LATE` ticks before the wrap, which
is missed if no look falls between it and the wrap. `KeepsPromise`: when neither
comes in between, every step is one of `Countdown`. The word need only be larger
than timeout and delay together: the distances between clock and deadline are then
those of 32 bits. No liveness: that the program looks at all is `MinputLoop`'s.

Proved for every width, timeout and delay: the invariant and all three. It says
that, while the clock is steady, clock and deadline are `set_at` plus what has
passed, modulo the word (`OnTheClock`), and that what is kept was looked at before
its timeout (`LookedAt`).

### WinLoop, MCWin, WinProofs

The Windows build on top of `Netio`'s buffer: a stack of calls of
`minput_loop_iter`, each at a place of its own, because a `MessageBox` inside one
dispatches the timer that starts another, or the quit that takes the buffer away.
`netio_process_packets` is split where a dialog opens, between the parser
(`IterParse`) and the removal of the packet (`IterRemove`), and `pkt_buf_sz` is an
unsigned number that wraps. Dialogs open for a short DCLP, for a clipboard there is
no memory for (after which the program copies to a null handle, `CopyToNull`), for
a failed realloc and for an overflow. Whether the deadline has passed is left open.

`win_safety`: `NoInputAfterQuit`, `QuitEnds` (under weak fairness of what the
program does by itself after a quit; a dialog that finds `WM_QUIT` returns),
`NearerTheEnd` (after a quit every step of the program makes `ToGo` smaller, a bound
on the steps it has to go: seven for each packet a call may still process and for
the place it is at, added up over the calls),
`OutsideOnlyInOverflow`, and the invariant `WinInv`. `NoInputAfterQuit` is not true
without its exception: while one call reports an overflow it has found, a second and
a third inside it each wait in a dialog with a packet of leftovers parsed and not
yet removed, and the user quits. The third removes its packet from the emptied
buffer, so that the size wraps; it finds an overflow, reports it and gives up. Then
the second removes its packet from the wrapped size, which leaves a small one, and
parses what is there. `win_reentry`: the overflow the code thinks
impossible is found.

Bounds: three nested calls in `win_safety` (the exception needs three; with two it
does not happen, and two are enough for `win_reentry`), a budget of two, two
packets' worth of bytes, word size 11 (above twice what the server writes and the
slack, so that wrapped sizes stay apart from real ones, as they do in 32 bits:
`WinConstantsOK`). The proofs have no bound on the depth.

Proved (`WinProofs`), for every depth, budget, buffer and word: `WinInv`,
`WinTypeOK`, `OutsideOnlyInOverflow` and `NoInputAfterQuit`. The invariant: all
calls but the innermost wait for a dialog, and after a quit none is about to
connect or receive (`Nested`); the size is at most what was received unless the
report of an overflow is open or the program is giving up (`Trustworthy`); without
an overflow found, a quit or a disconnection leaves the buffer empty (`Emptied`).
The step that carries it is `IterRemove`: a claim larger than the contents makes
the difference wrap to a number so large that the offset test fires (`WinRest`), so
a wrapped size never goes unnoticed. `OutsideOnlyInOverflow` follows since only a
size above what was received can make the sum in `netio_fetch_packets` wrap
(`WinOutside`).

`NearerTheEnd` is proved too (`AlwaysNearerTheEnd`): after a quit no message starts a
call (`Pumping`) and the innermost is past connecting and receiving (`Nested`), so a
step either moves it to a place nearer to its return, or counts a packet
(`Counted`), or returns, which is worth more than any place (`WinBackCloser`).
`NeverStuckAfterQuit` says that some step's guard then holds; it needs that a length
word shows something, whatever part of it has arrived (`LengthWordShows`). The two
are what `QuitEnds` rests on besides fairness: a number that every step makes
smaller, and a step that can be made.

### Clipboard, MCClipboard, ClipboardProofs

A server that sends its two selections in chunks of marks 1, 2 and 3, the case DCLP
of `synproto_parse_and_reply`, the calls of `osio_set_clipboard` one by one, and
another program that opens, sets and closes the clipboard between any two of them.
A selection is a header and a text; a piece is the place of its first and last
byte. The results of `OpenClipboard`, `EmptyClipboard` and `SetClipboardData` are
not looked at by the code. In the model the first two succeed if no other program
has the clipboard open; `SetClipboardData` may then succeed or fail (`refused`: there
may be no memory, and `OpenClipboard( 0 )` gives the clipboard no owner). A selection
is taken to be in one format. A failed `GlobalAlloc` ends the program
(`GlobalAllocFails`). A connection may end between chunks. Chunks are parsed in order
and one at a time, as `Netio` shows.

Run `clipboard` (a header of 3, chunks of 5, texts of none, one, two, three, five,
six and twelve bytes, so that the last chunk is shorter than a header, as long and
longer): `UpToDate` (a text that fits in one chunk is on the clipboard once parsed,
unless another program had it open or has set it since, or `SetClipboardData`
failed), `OnlyText` (of a text only its own bytes, never of the header; all of them
if it fits in one chunk; an empty clipboard only where `SetClipboardData` failed),
`NotLeftOpen`. A text that does not fit in a chunk ends as a part of its last chunk
that is long enough: the code says `TODO`, and `UpToDate` is about `Short` texts. The
part can be none: a last chunk exactly as long as a header becomes a text of length 0,
which `OnlyText` allows (`from` may be `to + 1`) and `findings` reports. That the
memory belongs to nobody when the text is not set is under `findings` too.

Proved (`ClipboardProofs`), for every text, header, chunk: all three. The invariant
says that a short text is sent in one chunk (`Sending`), what the call in progress
was given (`Setting`), and who has the clipboard open at each call and what is on it
(`Holding`).

### Synproto, MCSynproto, SynprotoProofs

`synproto_vprintf` as the character machine it is (one action per case of its
switch), `synproto_send`, and a server that cuts what it gets into packets. A job
is one call: the tokens its format is written from, with their arguments, and
`force_sz`. The machine knows the format only as characters.

Run `synproto`, for every format of up to three tokens over the literals that look
like tokens, and for the program's own three: `AsDocumented` compares the output with
the meaning of the tokens; `WellFramed` says that the server can cut a message into
packets with nothing left over, if it starts with a tag of four characters (`Tagged`)
or is the keepalive, which is two packets in one call. Formats the machine does not
support (a width of 3; an i, s or digit after `%s`) are run, and excluded by
`Supported`; `synproto.h` 69-70 allows them (see `findings`). `TypeOK` and
`SynprotoInv`, the invariant of the proofs, are checked with them. That the length in
front of the client's name is always 7 is under `findings`.

Proved (`SynprotoProofs`), for every set of characters and digits and every job:
`TypeOK`, `SynprotoInv`, `AsDocumented`, `WellFramed`, and that the replies to Barr
and QINF are `Tagged` for a name of any length and a screen of any size. The
assumptions: %, i and s are characters and not digits, a digit stands for a number up
to 9 (`CharsOK`), and a job is a sequence of tokens (`JobsOK`). `AsDocumented` is not
inductive, it says nothing of a message half written. `SynprotoInv` says that the
machine is always between two tokens or inside one (`Between`, `Inside`), at a known
character of it and with a known `in_token`, and that arguments and output are those
of the tokens before (`ReadAndWritten`). Then each action has one place it can happen
at: after `%` of an integer or a string comes a digit or `s`, which is why text like
the i of `Barrier` is not taken for a token, and between two tokens `in_token` is 0
unless a string was just read, where `Supported` forbids what could follow
(`NothingPending`). For the server: it has read nothing, or one of the ends of
packets. The keepalive's message is computed token by token (`KeepAliveMessage`): its
second length word is the argument of its `%4i`.

Format, arguments and message are made by `FlattenSeq`, and `atoi` is a recursive
function over the digits that follow. What these compute for every sequence is shown
by induction: the induction theorems of the library take an operator, but that the
finite sets are well founded does not, and gives the least element of a set of
numbers, induction over a set (`Induction`), and the existence of recursively defined
functions (`Recursion`). From them: what one token more adds to each of the three,
and where a token stands in the whole (`FormatStep`, `ArgsStep`, `MessageStep`).

### WinInput, MCInput, InputProofs

Keys and buttons of the server, a table of `osio_win_key`, and connections that
end with keys down. A key may be released under another of its IDs, and the client
then releases another virtual key than it pressed: `torn` keeps the one that stayed
down, `lost` what a connection left behind. `here` says what was pressed on this
connection, and as what.

Run `input`, with a US keyboard: every key, but for the runs of consecutive IDs
(letters, function keys), which have their ends, the Windows keys, of which there is
one, and the keypad's digits, which have
0, 7 and 9; and with each key the IDs it has under Shift, Control, Alt or without Num
Lock, whether `osio_win.c` translates them or passes them on. What it passes on,
`keybd_event` cuts to a byte, so some keys are two to the client, and some keys
that have nothing to do with each other are one. `MCSplit` and `MCTwins` name them:
`NothingStuck` says that no others stay down, `StaysDown` that no others are released
by each other. Each name is needed: without any one of them TLC finds a
counterexample. The keyboard is not in the repository; its IDs are those of Synergy's
key types. Two keys down at a time are enough, since the properties relate a key to
one other key or to its own other ID; two virtual keys down and one lost (`MaxHeld`,
`MaxLost`) let one that is left over meet a key that is pressed.

Proved (`InputProofs`), for any keyboard, any sharing of virtual keys and any number
of keys down: `TypeOK`, and that only a key that is more than one to the client, let
go as another than it was pressed as, is stuck on a live connection
(`StuckOnlyIfTorn`). It needs that without a connection nothing counts as pressed on
it. `NothingStuck` follows if `Split` names those keys; that `MCSplit` does so is what
the run shows. `StaysDown` is not proved: it is a statement about one finite table,
all of which TLC goes through.

### Startup, StartupProofs

`minput_main` from arguments to exit status for both builds, with the dialogs that let
iterations run before the network is set up and after the buffer is freed. `startup`:
`BufferIsLive`, `Released`, `StatusTellsFailure`. No bound but the number of
arguments. `Released` covers the connection, the packet buffer and the icon; Winsock
stays started (see `findings`), and the timer is left to the system where the window
is not closed. The module also has, as the code does, the port that is read from the
wrong argument and the `WSACleanup` that is never called (see `findings`).

Proved (`StartupProofs`), for any arguments and error numbers: the type invariant
and the three properties. The invariant says in which phase the buffer, the
connection and Winsock can be there; the step that is not obvious is that an
iteration during a dialog reaches no connection (`IterationInLoop`): in
`netio_setup`'s dialog Winsock is not up, and in WinMain's, if it is up,
`WM_QUIT` is pending (`QuitByPhase`).

## What is only model-checked, and what is not modelled

Liveness (`AllParsed`, `BackOnline`, `ScreenTold`, `QuitEnds`) is out of reach of the
prover; of `QuitEnds` it has proved all but the last inference, from the fairness of
the steps (see `WinLoop`). Every invariant, every action property and both refinements
that a run checks are also proved, but for `StaysDown`, which is about one table.

Not modelled: where the mouse points (`DMMV` moves the pointer, and the static
`mouse_x` and `mouse_y` are passed with clicks, which are made without
`MOUSEEVENTF_MOVE` and so happen where the pointer is), `connect` taking long in
`MinputLoop` (the deadline is set when it returns; `Keepalive` lets it take any time),
`send` taking long or writing a part, the blocking hook of 16-bit Winsock (which
dispatches messages while a `recv` or `connect` waits: `WinLoop` nests calls in
dialogs only), `EmptyClipboard` failing, the Win16 procedure lookup, logging,
`oldc.h`, resources and build files. The Unix versions of input and clipboard print
what they are told.

## Runs

| run | properties | result |
|---|---|---|
| `netio` | `IInv`, `Window`, `NoOverflow`, `StreamSpec`, `AllParsed` | hold |
| `loop` | `TypeOK`, `OwedIsOnItsWay`, `DropsInTime`, `LoopInv`, `WhyDropped`, `PromiseSpec`, `BackOnline`, `ScreenTold` | hold |
| `keepalive` | `HeldLate`, `KeepaliveInv`, `NoEarlyDrop`, `KeepsPromise` | hold |
| `win_safety` | `WinTypeOK`, `WinInv`, `OutsideOnlyInOverflow`, `NoInputAfterQuit`, `NearerTheEnd`, `QuitEnds` | hold |
| `synproto` | `TypeOK`, `AsDocumented`, `WellFramed`, `SynprotoInv` | hold |
| `input` | `TypeOK`, `NothingStuck`, `StaysDown` | hold |
| `clipboard` | `UpToDate`, `OnlyText`, `NotLeftOpen`, `ClipInv` | hold |
| `startup` | `TypeOK`, `BufferIsLive`, `Released`, `StatusTellsFailure` | hold |
| `loop_backlog` | `ReceivedKeepaliveCounts` | violated by the code, which a comment says it keeps |
| `loop_closed` | `DeadConnectionIsLeft` | violated by the code, which a comment says it keeps |
| `loop_sigpipe` | `SurvivesConnection` | violated by the code, which a comment says it keeps |
| `win_reentry` | `NoOverflowFound` | violated by the code, which a comment says it keeps |

## Where it could go on

1. `DMMV`, `CINN` and `COUT` with the pointer of the local user, as a part of
   `WinInput`.
2. Composing `Keepalive` with `MinputLoop`: the clock that wraps in place of the
   ticks that are left.
