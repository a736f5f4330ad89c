# Battleship on MINIX: a verification project

TLA+ models, TLC runs and TLAPS proofs for the Battleship game under
`src/project/src/`: two virtual machines on a serial cable, or one machine and
a bot. Everything below is read from the C code; `src/README.md` is used only
as the source of the rules the code is held against.

    cd tla
    tlasany Duel.tla                                # parse
    tlc -workers 2 -config MCDuel.cfg MCDuel        # one run
    tlapm BotHunt_proofs.tla                        # the proofs of one module

`PROJECT.json` ties every definition to the lines it stands for ("map"), lists
the runs with their properties, a mutation of the model that each property must
refute, the hazards at their lines, the findings and the theorems.

## 1. The system

One process per machine. `main.c` waits for an interrupt notification and calls
the handlers of the devices named in it, serial before mouse before keyboard
before timer, each to its end; there are no threads, and nothing is kept on
disk. What makes the program hard is what happens *between* handlers: the game
is one state machine moved by four handlers, and its animations, waits and
handovers are counters and flags that one handler sets and another reads some
ticks later. In a game of two there are two such machines, whose only bond is
a stream of bytes.

| Component | State it keeps | Operations | Talks to |
|---|---|---|---|
| Board (`model/board.c`) | grid, ships with hit counters and sunk flags, `ships_sunk` | init, can_place, place_ship, attack, already_attacked, all_sunk | called by game, bot |
| Bot (`controller/bot.c`) | mode, anchor, direction, current cell, directions tried | reset, place_ships, choose_attack, register_result | reads the human's board |
| Game (`controller/game.c`) | screen and previous screen, role, handshake flags, both boards, a union of per-screen data, four tick counters | handlers for a tick, a scancode, the mouse, a message | all others |
| Explosion (`view/renderer.c`) | running, finished, phase, tick count, cell | start, update, reset, two queries | game |
| Main loop, handlers (`main.c`, `controller/handlers.c`) | latched mouse flags, parser state | one handler per interrupt, connection attempts every second, the last message | devices, game |
| Protocol (`serial/protocol.c`) | type byte and payload so far | feed a byte, reset, senders | handlers, uart |
| UART (`serial/uart.c`) | receive ring, its indices, overflow flag | interrupt handler, push, pop, discard, send with bounded polling | hardware |
| Mouse packets and pointer (`model/mouse.c`, `handle_mouse`, the cursor in game.c) | packet bytes, pointer, latched click, cursor on the board | assemble, clamp, pixel to cell, follow | handlers, game |
| Device set-up (`main.c`) | what has been taken from the machine | init, cleanup | lab drivers |
| Drawing, fonts, menus, sprites, date (`view/`, `model/rtc.c`) | none the game depends on | draw | – |
| Lab drivers (`src/pedro/lab2`–`lab5`) | hook ids, last byte read, error flag | subscribe, read out, command with retries | keyboard controller, shared by keyboard and mouse |
| Rest of the repository (`src/jorge`, lab 1, MINIX headers, generated pages) | not part of the program | – | – |

How they interact:

- **Calls.** A key or click on a fresh cell calls `board_attack` at once and
  `start_explosion`; the *result* is read by the timer handler only after the
  animation, from `explosion_finished` and from the grid.
- **Messages.** The host decides. The client sends ships as it places them,
  shots as requests, and quits; the host sends screens (`MSG_STATE`), results,
  its fleet, seconds and the winner. The client repeats the results on its own
  boards instead of receiving boards.
- **Shared state.** `game_t.data` is a union: the selected menu line, the
  player in turn and the winner are one word.
- **Interrupts to game.** `uart_ih` fills the ring, `handle_serial` empties it
  into the parser, complete messages go to the game.

What makes each component correct:

- *Board*: grid, counters and flags agree with each other and with positions and
  shots after any legal sequence, and a fleet is lost exactly when all its cells
  are shot.
- *Bot*: it hunts around a ship that floats, follows its line, gives no ship up
  and wins against anybody who lets it shoot.
- *Game, alone*: it plays by the rules whatever is pressed and whenever; every
  shot is answered; no latched click, counter or flag of one turn leaks into the
  next.
- *Game, two machines*: both copies of the boards, the turn and the winner agree;
  never two shooters; players who want to play meet, and quitting takes the
  other one along.
- *Serial*: what one game sends the other gets, once and in order; nothing is dropped
  in the receiver without the parser being told, and after damage nothing is made up.
- *Devices*: two interrupt handlers share a controller of one byte, each throws
  away what is not its own, and neither may leave a byte behind whose interrupt
  is gone; packets stay whole; whatever bytes come, the pointer stays on the screen, and
  no screen takes its cursor from what another has left in the union; what is taken from
  the machine is given back.

## 2. The modules

| Module | Models | Kind |
|---|---|---|
| `Board` | board.c and the client's mirroring of results | operators |
| `Fleet` | what a board promises: positions and shots, no counters | abstract specification |
| `BoardLife` | one board from placement to loss | state machine, implements `Fleet` |
| `Board_proofs` | any board record: what a placement and a shot do to it | lemmas |
| `Bot` | bot.c | operators |
| `BotHunt` | the bot against one board, which is `BoardLife`'s | state machine |
| `BotHunt_proofs` | one board, and the bot against it | theorems |
| `Rules` | the rules of the game, from the README's turn rule | abstract specification |
| `Console` | one running program: every handler of game.c, the animation, the flags | operators |
| `SinglePlayer` | one program, its player, its timer and the bot | state machine, implements `Rules` |
| `SinglePlayer_proofs` | | theorems |
| `Duel` | host and client with two players, two timers and a cable | state machine, implements `Rules` |
| `Duel_proofs` | what is under way, screens and copies | theorems |
| `DuelTurns_proofs` | turns and winner | theorems |
| `Ring`, `Protocol` | receive ring of uart.c; framing of protocol.c | operators |
| `Queue`, `Inbox` | a bounded queue; the same between a writer and a reader that take turns | abstract specifications |
| `Channel` | delivery once and in order | abstract specification |
| `RingBuffer` | the ring under any calls | state machine, implements `Queue` |
| `RingBuffer_proofs` | where the bytes of a ring are; the ring as a queue | theorems |
| `SerialLink` | sender, UARTs, cable, interrupt handler by registers, ring, parser | state machine, implements `Inbox` and `Channel` |
| `SerialLink_proofs` | | theorems |
| `Mouse` | mouse.c and the pixel conversions of board.c | operators |
| `Pointer` | packet assembly, pointer and click under any bytes; the union's words, the cursor among them, under any screens | state machine |
| `Devices` | main.c, the handlers of mouse and keyboard, the lab drivers, the controller | state machine, implements `Pointer` |
| `Devices_proofs` | the pointer and the devices | theorems |
| `MC*` | constants for TLC | |

`Board` is extended by `Bot`, `Bot` by `Console`, `Console` by `SinglePlayer`
and `Duel`; `BotHunt` extends `BoardLife` and `Bot`. `Ring` is
extended by `RingBuffer`, which declares the one ring there is, and `RingBuffer` and
`Protocol` by `SerialLink`. `Duel` takes its cable, a
queue of messages in each direction, from what `SerialLink` shows of the bytes
below it. `Pointer` extends `Mouse` and `Devices` extends `Pointer`: the first
assumes nothing of the bytes, the second produces them, and a theorem
(`DevicesFeedPointer`) joins the two. `Board_proofs` is used by the proofs of
`BoardLife`, `BotHunt`, `SinglePlayer` and `Duel`, `RingBuffer_proofs` by those of
`SerialLink`.

### State and actions against the code

- A *board* is `[grid, ships, sunk]`; a ship is its set of cells with `size`,
  `hits`, `sunk`. The row and column arithmetic is in `Span` and `CanPlace`, and
  a placement that hangs over the edge is offered and must be refused.
- An *instance* (`Console!Fresh`) is a record: `tag`, `prev`, `role`, `single`
  (is_single_player), `connected`, `ready` (remote_ready), `word` (first int of
  the union), `idx` (place.ship_idx), `p1`, `p2`, `secs`, `cticks`, `botTimer`,
  `waiting` and `post` (waiting_post_attack and its ticks), `expl`, `eticks`,
  `done`, `at`, `ishit` (renderer.c's file statics), `bot`, `clicked`, and
  `out`, the messages the running handler has sent.
- `Tick` is `handle_timer`: countdown, result, post-attack wait, handover and bot
  in the order of `game_handle_timer` with its early return on victory, then
  `update_animations`. It returns a set because the bot draws.
- Keys and clicks are operators by effect (`PutShip`, `FireAt`, `PauseChoose`...):
  the two devices reach the same code, and where their guards differ both are
  there (`PlacesByKey`, `PlacesByMouse`).
- `HostReceives` and `ClientReceives` are the two halves of
  `game_handle_serial_msg`.
- A handler is one step, since the main loop runs each to its end. The models
  interleave handlers freely, which includes the order of one notification.
- `SerialLink`: an interrupt is not one step, because bytes arrive while it is served.
  `cause` is what `uart_ih` read in the IIR, `lsr` what it last read in the LSR. `ReadIir`,
  `ReadLsr` and `ReadRbr` are its reads of the three registers, on both of its paths,
  with what it does to the ring after each; `Finish` is the last look at the LSR, the
  overflow query and either the reset or the loop over the ring, which touch no
  register. `LookToSend` is the other reader of the LSR: the receiver's own
  `uart_send_byte`, which clears error bits it never looks at. `missed` is no state of
  the program: it records that an error came after the IIR was read (`"late"`) or was
  cleared by a look to send (`"unseen"`), the two cases in which the code goes wrong.
- `Pointer`: `buf` is `mouse_buf` up to `mouse_idx`, `ms` the `mouse_state_t`. `data` are
  the words of the union `game_t.data` after the first, in which `turn.cursor_col` lies
  over `place.ship_idx` and `turn.cursor_row` over `place.orient`; `ShotCell` and `ShipCell`
  read them as the two screens do. `mode` is what the screens are to the mouse and to
  these words: a fleet is placed, this side shoots, the opponent of the host shoots
  (handlers.c:68, the mouse is not looked at), one of the first two is paused, the lobby,
  any other. `Goes` is `transition`, which leaves the words alone, with what is written
  to them around it: nothing, or one of the resets of game.c:94-96, 167-173, 277-278,
  287-288, 338-341, 494-495, 504-505, 555-558, 770-781. `ByteIn` is `handle_mouse` on a
  byte without error up to and with `game_handle_mouse` (`Used`); `MoveCursor`, `KeyScreen`
  and `NewScreen` are what keyboard, timer and serial port do to words, screen and click.
  One machine stands for both roles, and how many ships lie on the board is left out:
  the last ship may come with any but never after `NumShips`, since `ships_placed` counts
  at least the ships that `ship_idx` counts.
- `Devices`: `pc` walks through `proj_main_loop`. `Done` and `Refused` are the steps of
  `devices_init`, each of which may fail and then undoes by hand what `Undone` says.
  `flagged` are the interrupts MINIX has noted, `irqs` those of the notification in
  hand; `Receive` turns one into the other. `HandleMouse` and `HandleKeyboard` include
  `mouse_ih` and `kbc_ih`, which read the byte whoever sent it. `Command`, `Answer` and
  `Verdict` are `mouse_send_cmd` with its tries and `kbc_read_mouse_byte`; the controller
  may take a byte between any two of these steps. `held` records what is
  taken from the machine: the interrupts, the timer's rate, the video mode, the
  mouse's reports (`stream`), the serial port. `calm` is no state of the program: it is
  the user's promise to let go, under which the properties of clean-up and recovery
  are stated.

## 3. The runs

| Run | Configuration | Shows | States |
|---|---|---|---|
| `board_life` | 4 × 2 sea, ships 3 and 2, every placement, every shot order | grid, counters and verdict agree; implements `Fleet` | 4,101 |
| `bot_hunt` | 3 × 3 sea, ships 3 and 2, every fleet, every draw | the bot's memory is sound and it always wins | 21,727 |
| `single_player` | 4 × 1 sea, ships 2 and 1, all menus, pauses, rematches | implements `Rules`; no leak between turns; every shot answered, the bot's turn ends | 82,060 |
| `single_hasty` | the same, player fires before the result is read | **violation** of the turn rule | – |
| `single_keys` | the same, keys while the bot places | **violation**: a lone game waits for a client | – |
| `duel` | 3 × 1 sea, two boats each, clocks together, messages within a tick | one shooter, same winner; meeting, handing over, quitting together | 350,518 |
| `duel_drift` | one ship of 2, any clock drift, any message delay | what must hold by order alone: copies agree, screens in step, the rules | 725,960 |
| `duel_hasty` | timed, client fires before the result is read | **violation** of the turn rule | – |
| `serial_link` | ring of 8, FIFO of 3, 1 byte arriving during an interrupt, 2 messages out of three kinds, 2 mishaps | implements `Channel` while the line is good and `Inbox` always; nothing forged when errors are met in time; room in the ring | 429,165 |
| `serial_impatient` | the same, 3 messages, one mishap | **violation**: half a message completed by the next | – |
| `serial_overrun` | the same, nobody gives up | **violation**: an overrun while the FIFO is drained forges a message | – |
| `devices` | strip of two pixels, one of them the board; two ships, two packets, one key, one damaged byte, 3 tries | no byte stranded, no packet torn but by damage and then found again, pointer on the screen and no stale words in the union, everything given back | 3,767,839 |

Each property is refuted by a mutation of a definition it depends on (marked "A
plausible bug" in the modules): a counter not reset, a guard dropped, a
direction turned the wrong way, a byte restarted. A property nothing could
refute has been left out.

### Bounds, and why they are enough

- *Sea and fleet.* The code treats cells alike but for borders and neighbours.
  Four by two, or three by three, has corners, edges, both orientations, touching
  and separate ships. The fights need one cell of water to miss and one ship that
  can be hit before it is sunk; two boats give a hit that sinks without winning.
- *Ticks.* 30 a second becomes 1 or 2, the countdown of 5 s becomes 1 or 2, the
  blast of 40 ticks 1 or 2, the splash of 45 ticks 1 or 2, the wait of 60 ticks 1
  or 2. Two values matter for each counter, "not yet" and "now". In the timed
  duel runs one proportion of the real durations is kept: the client, which
  starts its animation of 85 ticks before the host starts its own, and animates
  every shot of its own as a miss (game.c:403), is still animating when the
  host's result of a hit arrives after 40. With a splash shorter than that the
  client could be paused, or fire, when the result arrives, and `SameWinner` would fail: on
  the real timings it rests on that. `OneShooter` rests on a handover of more than one
  tick. The two theorems name these conditions, so that they hold of 30, 40, 45 and 60
  as they do of 2, 1, 2 and 2.
- *Cable.* In the timed runs a message arrives before the next tick of either
  clock: 33 ms are 380 bytes at 115200 baud, the longest burst is 29. The drift
  run drops that, and with it the properties that depend on it. It was also
  checked with two boats (6.5 million states, too long to repeat every time).
- *Ring and FIFO.* 8 and 3 for 128 and 16, and a `Burst` of 1, the bytes that can arrive
  while one interrupt is served: one is enough to come at each point between two reads
  of a register. `RingHasRoom` depends on the ring being emptied at every interrupt
  but those in error, which leave at most a FIFO and a burst behind. The assumption is
  that twice their sum fits in the ring, so the code's 128 and 16 allow 48 bytes to
  arrive during one interrupt. The mask is a remainder, the same for a power of two;
  two messages of four bytes take the indices round.
- *Messages.* Two in a row (three in the runs that look for a violation), of no, one
  and three payload bytes, from client to host. Two mishaps: the second can hit what
  the first one left behind. A payload
  with the value of a type byte is among them, since the arrow keys' scancodes
  (0x48, 0x4B, 0x4D, 0x50) are the letters H, K, M and P.
- *Screen.* Two pixels by one, the right one a board of one cell: the pointer can be
  on the board, off it, and pushed over each edge. Wider screens only repeat that; the
  arithmetic for every size is proved, and so is every packet.
- *Packets.* One moves a pixel right. The other moves far with the button down, and
  its bytes are the dangerous ones: 57 begins a packet; 252 and 250 carry the sync
  bit, so a handler out of phase takes them for a packet's first, and they are the
  codes the mouse uses for an error and for an acknowledgement, so `mouse_send_cmd`
  may take them for its answer.
- *Mishaps and tries.* One damaged byte tears a packet, or makes the mouse mishear a
  command. Three tries for ten: the assumption `MaxMishaps + 2 <= MaxTries` leaves one
  try for a byte of a packet in the place of the answer, one for each mishap and one
  that succeeds. `MaxKeys` is 1: one key waiting behind the byte in the controller.
- `MaxSent`, `MaxKeys` and `MaxMishaps` are the only counters with a bound of their
  own, and `MaxTries` is the code's.

### Deadlock

The game really stops: after quitting there is no step. `CHECK_DEADLOCK FALSE`
says so in those configurations, in `bot_hunt` (the fleet is sunk), in the
serial ones (all messages sent) and in `devices` (the program has returned). The
board run checks it.

### Fairness

- The timer interrupts thirty times a second and its handler always returns:
  weak fairness of `Timer`, `TickTogether` and `TickAlone`.
- A message sent is decoded (`Deliver`), since bytes raise interrupts; a program
  whose loop condition is false leaves the loop (`Leave`); a waiting client
  repeats its hello (`SayHello`).
- In `SerialLink` a sender that has begun goes on, bytes on the wire arrive, and
  interrupts are served. Nothing is assumed of damage, of loss or of giving up.
- In `Devices` the controller passes on what its devices send, MINIX delivers the
  notification, the two handlers are served and a clean-up that has begun goes on.
  The user, the set-up and the end of the game are under no fairness.
- No player is ever obliged to press a key. Liveness properties therefore name
  pausing and quitting as ways out.

### Who the players are

`HastyShots`, `Hasty` and `KeysDuringDraw` say what players may do that the code
does not foresee. With all of them off the rules hold; each one on is a run of
its own that shows what goes wrong. They are guards on the players, not on the
program: the program's own guards are all in `Console`.

## 4. The proofs

TLC checks the instances above; the theorems hold for every value of the
constants that satisfies the named assumptions (`BoardAssumption`: a sea of at
least one cell and a fleet of at least one ship of at least one cell;
`RingAssumption`: at least two slots; `LinkAssumption`: messages as long as their
type byte says, and a ring of at least twice a FIFO and a burst; `FleetAssumption`: at
least one ship; `ScreenAssumption`: a screen whose sides leave
room for one packet's movement below 2^15; `DevicesAssumption`: packets of three
bytes, the first with the sync bit, and tries enough for the mishaps).

**The board** (`Board_proofs`, the first part of `BotHunt_proofs`). The painted grid is not an inductive
invariant. Painting a whole ship as sunk is right only if the hit counter is
exact when it reaches the size; the counter is exact only if ships share no
cells (else a shot counts for the wrong ship) and have as many cells as their
size says (else the last hit is counted too early or never); and a placement
paints over water only because no shot came before it. `Good` says all of this of a
board record, and lemmas of any such record say what happens to it: `PlacingShows` and
`PlacingKeeps` for a placement, `MissEffect`, `StrikeEffect` and `AttackKeeps` for a
shot, `LossIsCounted` for the verdict. For the variable the invariant `IInv` is
`Good` of the variable (`InOrder`), in the terms of the properties: `TypeOK`,
`ShipsApart`, `ShipsWhole`, `NoShotBeforeTheFight`, `GridShowsFleet`, `CountsExact`.
From `Invariance` follow
`TypeCorrect`, `GridCorrect`, `CountsCorrect` and `LossCorrect`, the action
property `ShotsKept`, and `Refinement`: with fleet and shots read off the board,
every step is a step of `Fleet` or leaves it unchanged.

**The bot** (`BotHunt_proofs`). `NeverGivesUp`, that no hit ship is left alone while
ships do not touch, is the claim; it needs to know why the probing loop of
bot_choose_attack never runs dry. In `HuntInv` a search has gone through the directions
in their order and has nothing but the first hit to show (`SearchInOrder`); a line has
a second hit next to the first (`DestroyFollowsLine`); and whatever is hit belongs to
the ship hunted (`OneShipHit`), since a shot next to a hit of one ship cannot fall on
another (`NeighboursAreOneShip`). A ship that shows a hit has a cell not shot at yet
(`HitShip`, from the board's invariant), and because it is straight its cells go on
from the hit in a direction still to come (`SearchFinds`) or at one of the ends of the
line (`LineFinds`): `HuntGoesOn`. Each kind of shot then has its lemma, `RandomShot`,
`SearchHit`, `SearchMiss`, `DestroyShot` and `ProbeSinks`. The loop's first cell that is
not hit and its first open probe are least numbers with a property; `LeastNumber` (in `Board_proofs`)
gets them from the naturals being well-founded, in place of an induction.
`HuntPlaysBoard` shows the bot's shots to be steps of `BoardLife`, so `LossCorrect` and
the rest hold under it.

**One program** (`SinglePlayer_proofs`). A game is driven by flags that one handler sets
and another, ticks later, reads: `is_exploding`, `explosion_finished`,
`waiting_post_attack` and the latched click. The invariant `Sound` says that between two handlers at most one of
animation, unread result and wait is under way, that it is on the screen of a turn,
and that only an unread result can sit through a pause, since the last frame and
the Esc may come in either order. It says of every screen a pause leads back to that
a pause can begin there, that a click is latched only on TURN_P2, which ignores it,
and, while the player places, that `ship_idx` is the number of ships
placed and the opponent's board is empty. `Sound` is a predicate on the record of
one program, not on the variable, so each part of a tick has its own lemma
(`CountdownSound`, `ResultSound`, `PostAttackSound`, `HandoverSound`, `BotPlaysSound`,
`AnimateSound`), and so do a shot, a placement, a menu, a pause and a rematch; `TickSound`
composes the first six in handle_timer's order. From `Soundness` follow the four
invariants the runs check. `NobodyWaitsAlone` is the other side of the finding of
`single_keys`: assuming that no key is pressed during the bot's draw, a single player
is never left on the waiting screen.

`RulesKept` is the refinement: the program plays by the rules, on every sea, with every
fleet and every timing. Its assumption `Careful` is what the two findings leave: the
player waits for a shot's result (not `HastyShots`), keeps off the keyboard while the
bot places (not `KeysDuringDraw`), and a handover takes more than one tick, since in a
tick that ended one the bot would fire at once and the turn would pass unseen. The
rules see of a program its `View`: fleets, shots, whose turn it is, whether the last
shot missed and has still to end it, the winner. `Ruled` lists the steps they allow
between two views. The invariant `Fair` adds to `Sound` what a step of the rules needs
of the program's data: both boards are `Good`, no shot falls before the fight, and
both fleets are complete when it begins (`Prepares`, or a game would begin lost);
during it a fleet that is gone is gone by the shot whose result is still unread, and
a wait is always for a miss (`Fights`, or the turn would pass after a hit, or a shot be
fired at a lost fleet); and the bot's memory has what its probing loop reads
(`Remembers`). Each handler has a lemma that it keeps `Fair` and makes at most one of
these steps (`ResultMoves`, `PostAttackMoves`, `FireMoves`, `BotPlaysMoves`...). A tick is
six handlers in a row, and `TickMoves` shows that altogether it makes at most one step
the rules see: after a shot, a win or a passed turn the handlers that follow in the
same tick find nothing to do. The fleet that the bot draws is any that can be placed;
`DrawnIsGood` shows that it makes a board in order.

`CountersInRange` proves the type invariant on top of that (`Ranges`), for the same
`Careful` players: the counters of ticks and seconds, `ship_idx`, the bot's directions and
the screens stay in their ranges. It is not so whatever is pressed: keys during the
bot's draw can give the bot's board more ships than it has room for (board.c:32). It
needs `Fair` because a counter is only reset by the handler that follows it:
`ship_idx` stays below the number of ships because the screen of the placement is left
with the last one.

**Two programs** (`Duel_proofs`, `DuelTurns_proofs`). Each program acts on its own state and believes what
the other one has sent, and between the two is a cable with any number of messages
under way. The invariant `DuelInv` says of each message what it will find:

- *To the client.* A client is, for the host's messages, where it is in the game and
  what its two boards show (`Copy`). Each message is a step from one such state to
  another (`Hop`) that the client takes only if it is on a screen that handles the
  message; `Linked` says that the messages under way, one after the other, lead it to a
  state that mirrors the host (`Mirror`). The path stays within one game: its parts come
  in an order (`Rank`), and the path never goes back, so that no message of an earlier
  game is left for the next one.
- *To the host.* `Asked` says that greetings, ships and the end of the placement come
  only where the host waits for them, `Growing` that the ships under way, placed one
  after the other, make the host's copy of the client's fleet what the client's own
  board is.
- *The two ends.* `HostOK` and `ClientOK` say of each program by itself what `Sound` and
  `Fair` say of one that plays alone; `Wires` that a program that has left hears
  nothing and that its farewell comes last; `Clean` that nobody begins a game with the
  boards of the last one.

Every handler of the host has a lemma that what it says is a path from where the host
was to where it is now (`Tells`), every message to the client one that the client
arrives where the hop says (`Arrives`), and every handler of the client one that its
copy stays (`ClientStep`); `HostMoves`, `ClientMoves`, `HostHears` and `ClientHears`
lift them to queues. Nothing is assumed of clocks or delays: `DuelStaysInOrder`,
`DuelTypes` and `DuelInStep` hold for any. The boards take one assumption. A client that
shoots before the result of its last shot is read makes the host resolve a shot while
another is still to be told, the finding of `duel_hasty`; so `Told`, the part of
`Mirror` about the boards, is for patient players, and so is `DuelCopiesAgree`. It
allows the host's boards to be ahead of the copies by the one shot whose result is
still to be sent (`Behind`).

`DuelOneShooter` (`DuelTurns_proofs`) is about time and needs the clocks: it assumes that they tick together,
that messages arrive between two ticks (`Timely`), and a handover of more than one tick.
The invariant `Turning` says that the client has its turn, or is about to be told of it, only
while the host is on one of the screens that yield (`Yielding`): the client's turn, the
handover back, or the lobby after a victory. The handover is announced in the tick in which
it begins, and it cannot end in that tick (`TickInTurn`), so by the next the client has
been told. With a handover of one tick host and client would own the turn at once, as
TLC confirms. The rest of `Turning` (`Ending`) says why a program has ended, since a client
whose host has gone keeps its turn on the screen.

`DuelSameWinner` needs patient players as well, and a splash of more than one tick. The
winner travels in three messages, result, winner and screen, and the client keeps it in
the word that its menus share (`word`, the union `game_t.data`): a client that opens its
pause menu and moves the line between the second and the third overwrites it. `Crowned` says that a
client that is still to be told cannot open one, because it watches the host's turn or an
animation of its own (`Verdict` lists what may then be on the cable). That needs the
animations to go together, `Shooting`: from the moment the client asks, its blast is
where the host's is, and since the client animates every shot as a miss it has the whole
splash before it when the host comes to read a hit. The last piece is that the host can
only lose by a hit (`Unbeaten`, from `LossIsAHit`): a miss gives the client no such time.
All three parts and the queue of the host's own words in a tick (`TickDecides`) depend on
each other, so the invariant is `WinInv`, their conjunction while both programs run. TLC
finds `SameWinner` violated with a splash of one tick. With a handover of one tick, which
the proof excludes for the order of messages within a tick, TLC finds no violation.

**The ring** (`RingBuffer_proofs`). Type correctness is inductive. `RingRefinement`
shows that two indices and a remainder are a queue: lemmas on the remainder
(`Remainder`, `SlotIs`) locate the k-th byte, `PushAppends` and `PopRemoves` say
what the two operations do to the sequence read off the slots, `FullIsCapacity`
that the push is refused exactly at RingSize - 1 bytes. That is for any order of calls
and proved only; what `uart_ih` and `handle_serial` make of the ring together is
`ImplementsInbox`, checked and proved.

**The serial line** (`SerialLink_proofs`). Between the message that one game sends and
the message that the other gets a byte is in the sender's buffer, in the holding
register, in the FIFO or in the ring, and part of a message may be in the parser. The
invariant `LinkInv` reads these as one line of bytes (`Line`) and gives each of them its
place in what was sent: the n-th is the I[n]-th byte of the K[n]-th message, and
between one and the next none is missing (`Carries`). While nothing was damaged, the
messages before the place where the line begins were delivered and the parser has read
exactly the bytes of that message before it (`Follows`). After damage, too,
bytes are missing in front and not between, as long as `missed` is empty: an error that is
there when `uart_ih` reads the IIR makes it throw away *everything the receiver has*, the
bytes that arrive while it does so included. Then what was delivered is some of the
messages, in their order, and the parser is where the line begins or waits for a type
(`Resumes`), or it will be reset before it is fed (`Gap`, `Traced`). `Lost` says which bytes
no longer count. If the code kept the bytes before the damaged one the first of these would fail,
and if it did not reset the parser the second. `FeedInPlace` is the heart: a byte in its
place takes the parser to the next place, and a parser that waits skips the rest of a
message it has lost, unless the payload looks like a type byte.

That no byte is missing *between* others is a condition, not a fact of the code. The loop
for received data (uart.c:150-161) tests the overrun bit as well, and what it meets there
came after the IIR was read: it throws away the ring and one byte, keeps the bytes in
the FIFO, and the lost byte's gap lies behind those. And `uart_send_byte` reads the LSR
to see whether it may send, which clears the errors of bytes received meanwhile.
`InPlace` and `NothingForged` are therefore stated for `missed = {}`, and `ForcesResync`,
the same without the first of the two exceptions, is violated (`serial_overrun`).

The rest of the invariant bounds the ring (`Room`) and needs no such condition: at each
point of an interrupt ring and FIFO together hold less than two FIFOs and a burst and
what has arrived in it (`Filling`), or a FIFO and that once an error has emptied the ring,
and between interrupts less than a FIFO and a burst is left over (`Idle`). So the next
one always fits when the ring is twice as large as a FIFO and a burst. `Discarding` says
that a line status interrupt finds the error it was raised for; `Undamaged` that without
errors no damaged byte is under way.

The loop over the ring (`Fed`) is a recursive function of the number of turns. `FedTrace`
unfolds it to a sequence of states, one for each turn, and `Ascends` is the induction: a
set of numbers that has 0 and with each the next has them all. `FedInPlace` says what
it does to the parser. The loop over the FIFO is the steps `ReadLsr` and `ReadRbr`. The
step lemmas are one per action; from `LinkInvariance` follow `LinkTypeCorrect` (the
parser's four bytes), `RoomAlways`, `NeverForged`, `InboxInPlace` and `DeliversInOrder`, the
refinement of `Channel`.

**The pointer** (`Devices_proofs`). The pointer's part of `PointerSafe` is inductive
(`Assembled`), because the clamp repairs whatever a packet says, as long as the sum before
it fits 16 bits. The union's part is not: `transition` leaves the words alone, so a
screen that reads a cell or a ship has to be shown to have had them set. `Fit` says of
each screen which words are in order: on the screens that read them, on a pause of
those, whose Resume sets nothing, and in the lobby, whose fleet's words were set in the main
menu and from which MSG_HELLO leads straight to the fleet (game.c:665-666).
`ZeroedFits`, `NewTurnFits`, `PlaceShipFits`, `ChosenFits`, `UsedFits` and `NewScreenSafe` go through
the resets one by one; leaving out the one at the start of a turn (`NewTurnKeeps`) makes
TLC find a turn whose cursor is a ship's number.
`MovesExactly` shows that no addition wraps when the screen is at most 32512 by 32511,
with which the clamp is the clamp of the true sum. `CellsAndMargin` settles C's
division towards zero: the pixels that convert to a cell of the board are those on
it, and the margin of `CellSize - 1` pixels to the left and above that converts to
the first column or row as well. `CellsRoundTrip`: a cell's own pixel leads back to it.

**The devices** (`Devices_proofs`). What has to be shown is that no byte stands in
the controller unannounced (`NeverDeaf`), and that what is taken is given back
(`GivesBack`). Neither is inductive. The first needs to know that interrupts are
subscribed in a fixed order, so that keyboard bytes do not come before `kbd` is held
nor mouse bytes before `mouse` is (`HeldInOrder`), and that outside the loop only
what was subscribed is noted (`Noted`). The second needs to know what the mouse's
queue holds at every moment: the rest of a packet, or, while an answer is awaited, one
answer that agrees with `held` (`Packeted`); how often the mouse was asked
against how many mishaps and bytes in the way there were (`Counted`); and that after
the user has let go nothing damaged, no key, and only gentle packets are under way
(`Calmed`), since a packet's byte that says "error" ends clean-up for good. The
invariant is proved with one step per action; `HearsEveryDevice`, `EndsClean` and the
action property `DevicesTearNothing` follow. `DevicesFeedPointer` maps every step to
a step of `Pointer` or a stutter, so `PointerSafe` holds of the whole
(`DevicesPointerSafe`).

Model-checked only: of `Duel`, that it implements `Rules`; `WholeMessages` and the other properties of
the runs that are violated; and all liveness (`FindsBack`,
`ShotAnswered`, `BotTurnEnds`, `BotWins`, `BothWaitingMeet`, `MissPassesTheTurn`,
`QuitReachesThePeer`, `AllDelivered`), since the prover has no fairness and no ENABLED.

## 5. What the runs found

1. **A miss can be forgotten** (`single_hasty`, renderer.c:332). The animation's
   end is a flag set in one tick and read in the next. A shot fired between the
   two restarts the animation and clears the flag; the miss has no consequences
   and the same player goes on. The window is one tick, 33 ms.
2. **The host serves a shot during the wait** (`duel_hasty`, game.c:711). The
   guards that hold back a shot of the host's own player are not there for a shot
   that comes as a message.
3. **Keys place the bot's ships** (`single_keys`, game.c:307). During the two
   seconds before the bot places its fleet, Enter does it instead, and the last
   ship leads to a waiting screen nobody ever ends. The mouse has the guard that
   the keyboard lacks.
4. **Sending does not block** (`serial_impatient`, uart.c:167). After ten looks at
   the line status a byte is given up, and the rest of the message with it; no
   caller looks at the result. The header says that it blocks.
5. **An overrun met half way forges a message** (`serial_overrun`, uart.c:150). A FIFO
   that overruns after the IIR was read as received data is met in the loop, which
   resets the parser and then lets it read the bytes before the gap; the ones behind
   the gap come with the next interrupt and complete a message that nobody sent. The
   comment in the loop says "force resync". The path for a line status interrupt, which
   throws away the whole FIFO, has no such gap.

Seen in the models and stated where the properties leave room for it, without a run
of its own:

- **The overflow flag is forgotten when it is read** (uart.c:12, 188-192), and
  `handle_serial` needs it to be: uart.h:192-193 says that `uart_rx_overflow` tells of an
  overflow "since the last call to uart_init", after which no interrupt would ever be
  read again. The header is wrong; `Queue!Ask` and `Inbox!End` follow the code.
- **A click outlasts its packet.** mouse.h:37-38 says that `clicked` is true "for the
  single packet in which the left button transitions". While the opponent shoots the
  host does not call the game and does not clear it (handlers.c:68-74), and `mouse.c`
  never clears it, so it stays set through any number of packets. `NoStaleClick` and the clause of
  `PointerSafe` on clicks say how far it can get: `transition` clears it with the screen.
- **A look to send hides an error.** `uart_send_byte` reads the LSR (uart.c:169), and
  the UART forgets the error bits when they are read: a damaged byte that is first in
  the FIFO then goes into the ring like any other (`LookToSend`, `missed`).
- **Clean-up can stop half way.** `devices_cleanup` returns at main.c:72 when
  the mouse does not answer its last command as expected, with mouse, keyboard and timer still
  subscribed and the screen still in graphics mode, although kbc.c and mouse.c ask
  for the unsubscription before the program exits. It takes little: the byte that
  `kbc_read_mouse_byte` finds is the release of the key that quit the game, or a
  packet's 252, which is the code of an error. `GivesBack` therefore promises an end
  in good order only under all three conditions of `calm`: the keyboard is let go, no byte
  is damaged, and the mouse moves less than eight pixels right or up at a time.
- **A mouse that keeps talking.** A packet's 250 in the place of the answer is taken
  for the acknowledgement; if the mouse has misheard the command, it stays on
  after an end that looks good (`"stream"` in the second line of `GivesBack`).
- **A failed start leaves things on**: the video mode and the timer's rate, and the
  mouse's reports when the serial port fails. The rate is never put back at all.
- **Interrupts noted twice.** The function that turns the reports on reads the
  controller while interrupts are subscribed; the notes of what it read remain, and a
  handler that comes for nothing can throw away the other device's next byte.
  `NothingTorn` is therefore stated from the moment notes and byte agree.

Known and not contradicted: the README's notes already say that the bot may lose
the thread between ships that touch (`NeverGivesUp` is stated for ships apart)
and that a client leaving the game-over screen tells nobody (`QuitReachesThePeer`
excludes it).

## 6. What is left out

- *Abstractions.* The HUD clock, cursors and `MSG_CURSOR`; `MSG_KEY` and
  `MSG_MOUSE`, which reach no statement that changes the host's state
  (game.c:702-709 runs the keyboard handler as host on TURN_P2, where it breaks
  at game.c:374); the client's `MSG_STATE` to the host, ignored there. Any cell
  may be under the cursor when a player acts. Menus offer any line.
- `SinglePlayer` sends no messages and `Duel` offers no single-player game: a
  client that quits its main menu while the host plays the bot would end that
  game, which is in neither.
- After `over` is set, handlers of the same notification still run once. In
  `Devices` they do; `SinglePlayer` and `Duel` stop at once.
- *Devices.* A failing system call inside a handler, the polling of the status
  before a command is written, the right and middle buttons and the `released`
  flag, which nothing reads. Keys before the keyboard is subscribed belong to MINIX.
  The controller answers a command in time and drops the rest of a packet for
  it. What a scancode does to the game is in `Console`; here a key may move the
  cursor, turn the ship, place it or change the screen.
- Placement by the bot draws until a place is free; the model takes any fleet that
  can be placed and lets the draw end.
- Without mishaps left a full FIFO holds the next byte back. That is: interrupts
  are otherwise served in time. An interrupt is raised for every byte, where the code's
  trigger level of four and its timeout would let some wait; `uart_ih` finds a cause when it
  is called, so its return at uart.c:119 is left out.
- *Loading of sprites.* The animation assumes that they are there; a missing one is
  a hazard without a property.
- *Not worth modelling*: drawing, fonts, date, the labs' own test programs, the
  second set of labs in `src/jorge` (not linked), vendored headers, generated pages.
- *Share of the repository.* Nearly all of its 120,000 lines are two vendored copies
  of MINIX's and clang's headers (`src/*/lab1/.minix-src`), with generated pages and
  labs that the game does not link: declarations, and nothing that runs in the
  program. The map covers the game's logic and the drivers it calls; of what is
  left, the greater part draws.

## 7. The plan

Order: the board (everything is decided there), the bot, one program against the
rules, two programs, the bytes underneath, the devices at the edge.

Done: `Board`, `Fleet`, `BoardLife` and its proofs; `Bot`, `BotHunt` and its proofs; `Rules`,
`Console`, `SinglePlayer` and its proofs, the refinement of `Rules` with them; `Duel` and the
proofs that screens, copies, turns and winners agree; `Ring`,
`Queue`, `RingBuffer` and its proofs; `Protocol`, `Inbox`, `Channel`, `SerialLink` and its proofs;
`Mouse`, `Pointer`, `Devices` and their proofs.

Left, to extend the model:

1. `SinglePlayer` with keys during the draw: how many ships the bot's board can
   get when human and bot both place.
2. `Duel` with the host's single-player game, to close the gap named above.

Left, to prove: the refinement of `Rules` by `Duel`, for which `DuelInv`, `Unbeaten` and the
lemmas of `SinglePlayer_proofs` on one program's ticks are the ground.
