# PalCrosschat: specifications, model checking and proofs

PalCrosschat is a UE4SS mod for Palworld dedicated servers. Each server relays
its public chat through one MySQL table to the other servers and to a Discord
bot, shows their lines in the game, hides and forwards commands, mutes players
by filter patterns, and links game accounts to Discord users. This directory
models the C++ code of the mod (`src/src/`) in TLA+, checks the models with TLC
and proves its central facts with TLAPS. Paths below are
relative to the repository root, `src/` in `PROJECT.json`.

## 1. Inventory

Two threads run on every server. The **game thread** runs the hooks (inside the
game's own functions) and `on_update` once a frame; the **database worker**
owns the MySQL connection. A third thread posts webhooks. They share five
mutex-protected queues and nothing else. Servers share two tables.

    players --> EnterChat_Receive hook                 other servers, bot
                  |  ChatCapture, WordFilter                 |   ^
                  |                                          v   |
       deferred <-+-> m_outbound --> DbWorker <--> crosschat_messages, _cursors
          |       |                    |  ^
          v       +-> m_link_jobs -----+--+--> crosschat_players
      ChatInject <---- m_inbound <-----+
          |       <--- m_link_results -+        (webhook queue --> Webhook)
          v
    BroadcastChatMessage, to the lists of Audience

| Component | State it keeps | Operations | What is hard | What makes it correct |
|---|---|---|---|---|
| Bounded queues (`Queues.h`) | a deque of at most 500 | Push drops the oldest, TryPop | the limit | the bound; who is lost is known |
| Database worker (`DbWorker.cpp`) | connection, prepared statements, cursor, backoff | connect, jump to MAX(id), INSERT, poll, save the cursor, back off, stop | any statement fails; a failed write may be committed; restarts; ids visible out of order | no replay, no echo, no gap, no silent loss |
| Discord link (`ChatCapture.cpp`, `DbWorker.cpp`) | deferred commands, `m_link_clients`, jobs, results; `crosschat_players` | defer, register, test, look up, update, reply | two servers at once; two commands at once; a reply long after the command | a success is true; a code links once; the player is told |
| Chat capture (`ChatCapture.cpp`) | pending relays, name cache | the hook with its early returns, the deferred flush | order of the tests; a line is cleared in one place and replaced in another | nothing leaks, nothing is lost, order is kept |
| Word filter (`WordFilter.cpp`) | mutes | match, mute, notice | expiry; keys; throttle | mutes are personal and exact |
| Chat injection (`ChatInject.cpp`) | deferred actions, GameState cache, circuit, warm-up | drain, dual broadcast, retry | players leave under it; calls fault; the circuit | right form to the right players, once |
| Audience (`Audience.cpp`) | roster, two lists, join queue | join, upsert, prune, bootstrap, snapshot, forget | nobody reports a leave; ids fill in late | the lists are the roster, the roster follows the players |
| Message text (`Sanitize.cpp`) | none | strip, trim, cut; the fetch buffer | the limit, inside a code point | same whole text everywhere |
| Webhook worker (`Webhook.cpp`) | a queue, a thread | enqueue, post, stop | stop with work queued; started by one condition, filled by another | every report is served, stop returns |
| Lifecycle (`PalCrosschat.cpp`) | owners of all of these | construct, register, update, destruct | a constructor that fails half-way; order of teardown; what a hook id means | nothing is used after it is gone |
| Configuration (`Config.cpp`) | none after the start | parse, clamp, disable | types, ranges, old names | what it enables is usable |
| Chat format (`ChatFormat.cpp`) | none | fill a template, split it in two fields | empty parts, brackets, the colon | no part of the message is lost |
| Platform ids (`PlatformId.cpp`) | none | trim, recognise, normalise; account name, then net id | one account in several spellings; white space | one id for one account, the same however often it is normalised |
| Guarded calls (`SehUtil.cpp`) | none that changes | guard a call, look through a weak pointer | | by their outcomes, see section 8 |

The hazards of the code, each with its line and the properties that watch it,
are listed under `hazards` in `PROJECT.json`.

## 2. Modules

| Module | Models | Lines it stands for |
|---|---|---|
| `BoundedQueue` | `Push`, `TryPop` as operators on sequences, with the item a full queue drops | `Queues.h` |
| `DbWorker` | the worker thread of one server, both chat queues, the tables and their other writers | `DbWorker.cpp` |
| `LiveFeed` | the abstract promise of the worker: while connected, every foreign line once, in order, without a gap | |
| `DiscordLink` | `!setdiscord` through both threads of several servers and `crosschat_players` | `ChatCapture.cpp` 650-768, 863-890; `DbWorker.cpp` 605-718 |
| `WordFilter` | mutes as operators | `WordFilter.cpp` |
| `ChatCapture` (`MCChatCapture`) | the chat hook and the deferred flush | `ChatCapture.cpp` 411-1145 |
| `PlatformId` | the forms of an account id and their normalisation, as operators on texts | `PlatformId.cpp` |
| `Audience` | the roster, with the ids of `PlatformId` | `Audience.cpp` |
| `ChatInject` (`MCChatInject`) | `Drain` on top of `Audience`: extends it, uses its operators, and adds the queues of messages | `ChatInject.cpp` |
| `GameThread` (`MCGameThread`) | the game thread of one server: extends `ChatInject` and instantiates `ChatCapture`, joined where the hook calls the tracker and the injector, and in `on_update` | the calls in `ChatCapture.cpp`, `PalCrosschat.cpp` 117-147 |
| `MessageText` | one line of text from the keyboard to another server | `Sanitize.cpp`, buffers of `DbWorker.cpp` |
| `ChatFormat` | `ApplyChatFormat` and its helpers as operators on texts; `MessageText` shows its texts with them | `ChatFormat.cpp` |
| `Config` | `LoadConfig` as a function of the file | `Config.cpp` |
| `Lifecycle` (`MCLifecycle`) | constructor, hooks, destructor, the webhook worker, the end of the database worker | `PalCrosschat.cpp`, `Webhook.cpp`, `Start`, `Stop`, `RegisterHook` and `UnregisterHook` of the parts |
| `BoundedQueueProofs`, `DbWorkerProofs`, `DiscordLinkProofs`, `LifecycleProofs`, `ChatCaptureProofs`, `ChatInjectProofs`, `GameThreadProofs`, `MessageTextProofs` | proofs (section 6) | |

Each definition that stands for code is listed with its lines under `map` in
`PROJECT.json`. Names are those of the source where the language allows. Where
a module has several forms of one operator, those commented "Mutant" are
deliberate errors, used to show that a property can fail; no specification
refers to them.

### How state and steps correspond to the code

*DbWorker.* `pc` names the place reached in `ThreadMain`. A step runs from one
point where others can notice the worker (a statement, a queue operation, a
sleep) to the next. `handle` is the connection and its prepared statements,
`connected` and `cursorReady` the two flags, so that a flag that outlives the
connection can be seen. A statement may fail at any time; a failed write may
have been committed, since the client gives up on a late answer after five
seconds. Rows are the table by id. Other writers insert at once or in two steps
(take an id, commit later), which is what InnoDB does. The variables `pushed`,
`owed`, `dropped`, `abandoned`, `requeued` and `unacked` are history. A line in `Refused` is one that
MySQL rejects whenever it is sent.

*DiscordLink.* A command is a number; every queue holds numbers. The three
statements of `process_link_job` are three steps of a worker, so that the
workers of two servers interleave between them. `clients` is `m_link_clients`
with what is known of each player: his uid, or only his controller, or a
controller that is gone. A reply is followed as far as its hand-over to
`ChatInject`, as a private chat; what may become of it there (a full list of 64,
an open circuit, a player who has left) is that of the private messages of
`ChatInject`.

*ChatCapture.* A line is its player, kind, category and the outcomes of the
reads the hook attempts. `HandleHook` has one action for every way out of the
function, and the conditions of the earlier ways are negated in the later ones,
as the early returns do. `fate` says which way a line took and `native` what
the game was left with. `FlushDeferred` is one step: it runs on the game thread
with nothing in between.

*PlatformId.* A text is a sequence of characters in which each of the words that
the code looks for (`steam_`, `gdk_`, `ps5_`, `Steam:`, `steam:`) is one; the
letters that the code does not tell apart are the one `x`. The only length that
the code tests, 15, is that of digits without a word before them. In `Audience` the constants
`AccountName` and `NetId` are what the game says of a player, in any of these
spellings, and `LinkIds` all that `!setdiscord` can come to, with the id that it
cached for an earlier command.

*Audience and ChatInject.* A `PlayerState` is a number, with its player, whether
it still exists (which is all that a weak pointer tells), and whether its ids
can be read yet. `Audience` describes every change as a function of a roster
(`Upserted`, `Pruned`, `Forgotten`), so that `ChatInject` can compose bootstrap,
snapshot, calls and `ForgetMany` into one broadcast. A step of the frame is one
broadcast: the worker may push rows between the steps, but players come and go
only between frames, since the game's events run on the same thread. Each call
of a broadcast resolves the GameState anew; between two calls the GameState may
be collected or a search for it fault, so the calls end one by one (`Outcome`).
An exception ends the frame and loses the message in hand (`Thrown`).

*GameThread.* One hook call is one step: `C!HandleHook` says what becomes of the
line, `Chatted` who is listed by it, and `Tagged` and `MuteBanner` what it defers
to the injector, in the order of the calls. `OnUpdate` is the first part of
`on_update`, the deferred commands and lines and then `Tick`, as far as the
first broadcast; `Drain` is the rest. `typedBy` keeps the `PlayerState` a line
came from, since the same player may be back as another one when it is shown;
`comebacks` is a history variable, the message by which each line of
`rebroadcast` comes back.

*Lifecycle.* The members are numbered in the order of their declaration, so that
`built` of them exist at any time, while they come and while they go. The two
`Stop` functions are two steps each, the request and the return of the join;
the threads run between them. `RegisterHook` answers with a pair of ids; the
two callers take different values for "none", and a hook is forgotten by its
owner when it is installed with an id its owner does not recognise. Reports are
numbers, and `fate` is what became of each. A disabled mod has no members. The
hooks are not called while constructor or destructor run, being on their thread.

*Config.* A file is a record of what the code reads of it, each value absent,
of a wrong type, or a number. `LoadConfig` is the whole function except for
texts that are only shown.

*MessageText and ChatFormat.* Bytes are told apart as far as the code tells them: a letter,
white space, a control character, a first byte, a continuation byte. `Post` is
the bot's INSERT, whose text nobody has cleaned and which may be longer than the
buffer of `poll_inbound`; `Fetch` then reads the bytes behind the buffer, which may
be any.

## 3. What the runs check

Runs that pass (all bounds are in the `.cfg` files):

| Run | Question | Result |
|---|---|---|
| `relay_faults` | What survives failures of every statement, lost acknowledgements, late commits and a restart? | No row is pushed twice or out of order; the two flags of the connection tell the truth; the saved cursor never moves back; every line is queued, written, or lost for a known reason; duplicates come from lost acknowledgements only and reordering from requeues only. |
| `relay_live` | Does the worker implement `LiveFeed`, do lines and rows arrive, and does Stop return? | Yes, when rows become visible in id order (`MaxOpen = 0`) and once finitely many faults are over. A line that MySQL rejects each time does not keep the other lines out of the table. A row that is owed to the game is pushed as long as no such line is typed: see *Rejected lines* below. |
| `link` | Two servers and two players compete for a code while statements fail and queues are full. | A success is true, a code is used once, every job comes back unless a full queue discards it, and its result is handed to `ChatInject` unless only a controller was known that is gone, or another command of the player used up the entry. |
| `capture` | Four lines of two players, of every kind, with room for one pending line, and a clock that runs past the ends of mutes. | Order, agreement of local and remote chat, no loss, only public chat leaves; a mute is its player's own and lasts as long as it says; notices of a mute that outlasts the gap keep their distance. |
| `frames` | Frame after frame for one player whose ids fill in late, with rows, rebroadcast lines and a function that cannot be resolved yet; the hooks may fill the list of deferred work anew before every frame, for ever. | Rows are in one place; only a retry reorders them; the deferred work does not starve them (one budget for both lists would); who joins and stays is listed, unless he could not be read to the last frame. |
| `game` | The hook and the frames together: two players type lines that are cleared and shown again, hit patterns, leave and come back; a row arrives; any call may fault or throw, and the GameState may be lost between two calls. | What is shown goes to each player once, except for a row that was retried after the first of its two calls had succeeded; in the right form, only to players who are online; the roster loses only who is gone; a cleared line comes back to its player but for the losses that the property names. |
| `text` | All texts of players of up to seven bytes and of the bot of up to five, limit four, in seven templates, under five names. | Cuts keep whole code points; stored text is clean; shorter lines are the same everywhere; the message is shown whole under a sender that is never empty, and the sender names the player, where the template puts him before the message and the name has neither `[]` nor two spaces. |
| `lifecycle` | Ten files, a constructor that may throw at every line, every answer of `RegisterHook`, an unload at any time after. | Nothing is used after it is destroyed; every report is posted, refused, pushed out or left behind by the unload; the unload ends, and waits for at most one post that begins after it. |

Runs that end in a counterexample, each a disagreement between the code and
what the repository says of it (`findings` in `PROJECT.json`):

| Run | Said | Done |
|---|---|---|
| `relay_late_commit` | a row appears within two poll intervals | a row that commits after a later id is never selected |
| `link_race` | the conflict test finds an account that is already linked | two servers pass it together |
| `capture_commands` | commands never reach Discord and are never truncated | one that matches a pattern is cleared and quoted in the webhook before the command gate is reached |
| `text_limit` | no multibyte sequence is split | the fetch buffer is one byte short |

Other disagreements were met while the models were written. The definitions
below have them; no run is devoted to them:

* *Rejected lines* (`InsertRefused`, `DbWorker.cpp` 769-788): the queue is drained
  before the poll, and a failed INSERT requeues its line, drops the connection and
  ends the pass. With a line in the queue that MySQL rejects each time no pass comes
  to its poll, and each reconnect moves the cursor to MAX(id) again: the rows of
  others are passed over as long as the line waits, while `src/README.md` 298 says
  that they appear within two poll intervals. Without its premise about such lines
  `RowReachesGame` is false.
* *Conflict test* (`ConflictUnread`, `DbWorker.cpp` 639-648): a result that
  cannot be bound, stored or fetched counts as no conflict, so an account can
  be linked twice on one server too.
* *Overlapping commands* (`DeliverLinkResult`, `ChatCapture.cpp` 748): the first
  result of a player erases his entry of `m_link_clients`, and the result of a
  second command typed before it is dropped. `ResultIsHandedOn` says that this and
  a controller that is gone are the only two ways in which a result is not handed
  to `ChatInject`. There the private line may still be lost, like any other.
* *A row shown twice* (`Outcome`, `ChatInject.cpp` 488-493, 733-747, 1012): if the
  second call of a double broadcast finds no GameState after the first was made,
  the row is pushed back and both calls are made again. The comment at 488
  expects the GameState to be collected between two calls.
  `ShownTwiceOnlyByRetry` says that nothing else is shown twice.
* *Exceptions* (`Thrown`, `ChatInject.cpp` 1017-1037): the message in hand is lost;
  "Exceptions in hooks/tick are logged" is all that `src/README.md` promises.
* *Templates* (`ApplyChatFormat`, `ChatFormat.cpp` 99-103): what follows `{message}`
  is ignored, a `{player}` there as well; and in the sender a name loses each
  `[]` and all but one of adjoining spaces (57-61).
* *Long rows of the bot* (`Fetch`, `DbWorker.cpp` 559, 574): a truncated fetch is
  accepted, and the text is taken at the length of the row, not at that of the
  buffer.
* *Shared mutes* (`MuteKey`, `ChatCapture.cpp` 918): without a readable uid the
  key is the name, and without a name the word "Unknown", so such players share
  a mute; and a player whose uid can be read only sometimes escapes his. The
  run `capture` types lines whose uid can be read (`OwnKeys`), so this hazard has
  no property.
* *Names that come late* (`HaveDisplayName`, `ChatCapture.cpp` 898-909): if the
  name property is empty for one line and filled for the next, the second
  overtakes the first. In the run `capture` the property is empty, as it is on
  a dedicated server; the overtaking by way of the cache is in the run.
* *Guild lines* (`FilteredLine`, `ChatCapture.cpp` 1022): a guild line that
  matches a pattern is quoted in the webhook, while `src/README.md` says that
  guild chat never leaves the server.
* *Remote lines on Xbox* (`Attributed`, `ChatInject.cpp` 692): a row of another
  server is shown to Xbox players if its sender has since joined this one,
  while `src/README.md` says such rows are not sent to them at all.
* *Open circuit* (`CanInjectNow`, `ChatInject.cpp` 930): deferred lines are no
  longer shown, while `ChatCapture` goes on clearing them from the game's own
  chat (`Suppress`): local Global chat is silent until a restart.
  `ClearedLineComesBack` names it among the losses.
* *A config.json that is no object* (`Throws`, `Config.cpp` 153): the lookup of
  `General` is outside of the `try` and throws out of the constructor, while
  `Config.h` 62-63 says that on failure the function logs and returns a disabled
  configuration.
* *Prefixes* (`ChatCapture.cpp` 1084): the guard against relaying a line that
  was relayed already compares with the bare prefixes too, so a player's line
  that begins with one of them stays on his server. It is the kind `tagged`.
* *Very long mutes* (`WordFilter.cpp` 147): the minutes of a pattern have no upper
  limit, and the end of a mute is computed from them without one.

## 4. Bounds

Constants marked "bound" in the modules have no counterpart in the code; they
end the model and appear in the guards of environment actions only. The others
are limits of the code, made small:

* Queues of 500, 64 and 32 become queues of one or two: the overflow rule
  depends on whether there is room, not on how much.
* Two writers, three lines and two foreign rows with one uncommitted are enough
  for a row to be overtaken, a line to be overtaken, and each to meet a
  restart. Two faults allow a failure during the recovery from a failure.
  `relay_live` has three foreign rows, so that a batch of two leaves a rest, and
  three lines, of which MySQL always rejects the second, so that it meets lines
  ahead of it and behind it; one fault, which may fall anywhere, and no restart.
* The backoff cap of three is not a power of two, so that the cap bites.
* Four lines are needed for a player to be muted, let off, muted again and
  noticed, and for a held line to be overtaken. The mutes last
  no time, so that they end at once, or three, longer than the gap of two between
  notices, so that a second notice comes due while the mute lasts. The clock runs
  to three, the end of such a mute.
* `frames` has every frame limit at its smallest distinct value and one
  `PlayerState`, whose ids are empty at first and fill in one by one; queues of
  two and two messages let a row be pushed back and be overtaken. Two messages
  alone could not starve a row: `DeferAgain` keeps the list of deferred work full,
  and a frame takes at most one of each list (`Cap = 1`). A full inbound queue is not reached here;
  for that case there is only the theorem `RowsCorrect`. The run has no faults;
  those are in `game`.
* The account names of `frames` and `game` need trimming, a new prefix, or the net
  id (`MCAccountName`, `MCNetId`); what normalisation does to other texts is proved.
* `game` has two `PlayerState`s: a player can leave and return, or both be
  online, one on Xbox. Two typed lines with one place for a held one and two
  deferred messages make a held line, a banner and a rebroadcast compete for
  room; one row from the worker overflows nothing but may be in hand when a
  call faults. Joins by hook are left to `frames` (`JoinHook = FALSE`): there
  the roster fills by bootstrap and chat. One find fault stands for three, so
  that the one fault of the run may open the circuit by either way. Mutes last one
  tick and their notices need no gap: the timing is that of `capture`.
  The row is of the player who is not on Xbox (`Senders`), and he may be listed or
  gone when it is shown to the other, or it is one that the filter drops; rows
  of the bot come in `frames`.
* `lifecycle` has files that differ from a complete one in one respect each.
  A queue of two and four reports let the queue overflow while a post is under
  way and while the unload waits. `FirstHookId = 0` is the value at which the two
  conventions for hook ids differ.
* In `link` the players compete for one code. Two codes are needed for an
  account to be linked twice; `link_race` has them.
* Texts of seven bytes against a limit of four put every kind of code point on
  and across the limit, after leading white space as well. The bot's rows of five
  bytes are one longer than the buffer. The
  seven templates and five names have every part empty or filled, with the player
  in front of the message, behind it and absent, and names with `[]` and with two
  spaces.

Symmetry is declared only where the constants are interchangeable and the run
has no liveness property.

## 5. Fairness

`DbWorker!FairSpec` assumes that the operating system runs the worker thread and
that the clock advances. It assumes nothing of the game thread, of the other
writers, or that a started server is ever stopped; `MaxFaults` makes failures
finite, which is the assumption that MySQL eventually works long enough.
`DiscordLink!FairSpec` adds that the game ticks. `ChatInject!FairSpec` assumes
that frames begin, that `Drain` finishes what it has begun and that the clock
passes the warm-up; that a GameState exists and that the function can be
resolved is a premise of `RowIsTaken`, not of fairness. Under `FairSpec` the hooks may defer
more work again and again, without end (`DeferAgain`). `Lifecycle!Spec` assumes
that both threads are scheduled and their calls return (WinHTTP has timeouts,
and `StopCompletes` of `DbWorker` is about the other thread), and that the game
thread finishes a destructor it has begun; not that it ever begins one. Text,
capture and `GameThread` have safety properties only.

## 6. Proofs

`DbWorkerProofs` proves, for every value of the constants that satisfies the
named assumptions of `DbWorker` (a positive queue limit, batch limit and backoff
cap; the server's origin is not among its peers'; bounds are numbers):

* `TypeCorrect`: `Spec => []TypeOK`. The invariant is inductive by itself. The
  queue bounds rest on `PushType` and `PopType` of `BoundedQueueProofs`.
* `FeedCorrect`: `Spec => [](NoReplay /\ NoEcho)`. `NoEcho`, that the worker
  never hands the game a line of its own server, is proved and not checked by a
  run of its own. Neither part is inductive: a
  state in which the cursor is behind a pushed row, or a batch holds a row
  already pushed, satisfies both and has a successor that does not. `FeedInv`
  adds that nothing pushed is ahead of the cursor (ahead of `maxId` while the
  cursor is being saved, ahead of `rowId` while a row is being acknowledged),
  that what is left of a batch is foreign and beyond the cursor, and that the
  cursor is ready whenever a pass is under way. The proof has one step per
  action of the worker; the lemma `TableStep` covers the environment, whose
  steps only add rows and commit them, and `IdlesFeed` and `LosesFeed` the
  steps that leave the feed alone or drop the connection. The steps that matter
  are the jump to MAX(id), which is at or beyond every pushed row because rows
  are not removed, and the fetch, which takes the smallest row of the batch.
* `FlagsCorrect`: `Spec => []FlagsAreTrue`. The worker keeps three notes of one
  fact (its own flag, the handle's statements, its place in the pass) and two of
  the cursor. `FlagInv` adds that every place between a good connect and the end
  of the pass has prepared statements; without it the step that sets
  `cursorReady` would have nothing to rest on. No type invariant is needed.
* `LinesCorrect`: `Spec => []NoLineLost`. `LineInv` adds that the worker holds a
  line only where it can write it or put it back. `StillLines` covers the steps
  that move no line; for the others, `PopItems` and `PushItems` of
  `BoundedQueueProofs` say where an item of a queue goes, and `AppendWritten`
  that a row hides none. Lines that MySQL always rejects are included.
* `DuplicatesCorrect`: `Spec => []DuplicateOnlyAfterLostAck`. The table alone does
  not say why a second row came about; the first row of a line may be there
  while the line still waits to be written again. `WriteInv` adds that this is so
  only for lines whose INSERT was taken for failed, and that a line waits in one
  place only.
* `WriteOrderCorrect`: `Spec => []ReorderOnlyByRequeue`. `OrderInv` says of the
  waiting lines, the one in the worker's hand and those written, that whatever is
  out of order was pushed back. `Sorted` and its lemmas are in `BoundedQueueProofs`.
* `CursorCorrect`: `Spec => CursorNeverRewinds`. `CursorInv` adds that the saved
  cursor is the id of a visible row, so that MAX(id) cannot be before it, and
  that the value about to be written is not before it either.

These theorems hold for late commits, faults and restarts without limit, beyond
what the run `relay_faults` can enumerate. The next two have the hypothesis
`MaxOpen = 0`: no other writer takes an id that it commits after a later one, so
rows become visible in the order of their ids. The run `relay_late_commit` shows that
the first is false without it, and the run `relay_live` has it too.

* `NothingSkippedCorrect`: `Spec => []NothingSkipped`, that a row owed to the
  game is ahead of the cursor. Where a batch is in hand, the cursor says too
  little: `PromptInv` adds that the batch comes before every other row that is
  left, and takes `Position`, from which the next row is found, instead of the
  cursor. `FlowInv` has the order of connecting, jumping and polling.
* `FeedRefined`: `Spec => FeedSpec`, the refinement of `LiveFeed`. The abstract log is
  the table with whether each row is foreign, live means that the cursor stands, and
  the abstract position is `Position` while the feed is live, the end of the table
  otherwise. The fetch of a row is the abstract hand-over, a failure or restart loses
  the feed, perhaps with a row of an INSERT of unknown outcome, the jump to MAX(id)
  starts it again, inserts publish, and all else stutters. That nothing foreign is
  left out before the row fetched is `PromptInv` again.

`DiscordLinkProofs` is about any number of servers, players, Discord users and
commands, under the assumptions of `DiscordLink` (`Nobody` is no player, the
queue limit is positive):

* `LinkTypeCorrect`: `Spec => []TypeOK`, with one queue lemma each for pushing,
  popping and a numbering that grows.
* `LinkCorrect`: `Spec => [](SuccessIsTrue /\ CodeUsedOnce)`. Neither is
  inductive: with a code still open for a linked user, the next `UPDATE` would
  succeed a second time and relink him. `LinkInv` adds that a code is only open
  for an unlinked user; this is what the bot's rule and the single `UPDATE`,
  which links and clears together, maintain. It says nothing of two users with
  one account, which the run `link_race` shows to be possible. `CodeCorrect` is
  its second half.
* `HandedOnCorrect`: `Spec => ResultIsHandedOn`. When a result is dropped because
  there is no entry in `m_link_clients`, the step itself does not show why.
  `EntryInv` keeps the reason: a player with a command in flight has an entry, or
  a result of his was delivered on that server before.

`LifecycleProofs` is about any set of files, any queue of reports and any first
hook id that is a natural number (`HookIdAssumption`):

* `LifeCorrect`: `Spec => []NothingUsedAfterFree`. A hook that is installed but
  not recognised by its owner would never be unregistered, and a thread that
  its owner thinks stopped would never be joined; so `LifeInv` adds that an
  installed hook is recognised and the whole mod exists (`HookInv`), where the
  database worker can run (`DbInv`), and that the webhook worker can be stopped
  as long as it runs (`WebhookInv`), which also covers a constructor that
  throws after it was started. The two owners read the ids of a hook by
  different conventions (0 and -1 for "none"); the lemma `RegisterStep` shows
  that neither overlooks a hook that is installed.
* `UnloadCorrect`: `Spec => []UnloadPostsOnce`, for any number of queued reports. The
  worker tests its stop token between any two pops (`LateInv`), so that a pop after
  the request is the last.
* `ConfigIsUsable`: a file that enables the mod gives it values that satisfy the
  assumptions of the other modules.

`ChatCaptureProofs` is about any lines that are typed (`Inputs`), mutes of any
length and lists of any positive size. Every way out of the hook has a lemma that
says what it does to the lists (`HookLines`, `HookEnds`), and the flush has one:

* `CaptureTypeCorrect`: `Spec => []TypeOK`, inductive by itself.
* `AgreementCorrect`: `Spec => []LocalAndRemoteAgree`. It is not inductive without
  `TwinInv`'s other half, that without the setting nothing is rebroadcast.
* `SenderOrderCorrect`: `Spec => []SenderOrder`. `Ordered` adds that the pending
  list is sorted, that none of its players is known by name, and that whatever was
  sent is older than what waits of the same player. It has the hypothesis
  `SteadyNames`: the name property of a player is always empty or always filled.
  On a dedicated server it is always empty; section 3 says what happens
  otherwise.
* `NoLineForgottenCorrect`: `Spec => []NoLineForgotten`. `PlaceInv` says that a line
  to be relayed is in one of three places, and once; the queue lemmas
  (`ConcatItems`, `ConcatDistinct`, `CountDistinct`) say that the flush keeps it so.
* `MuteCorrect`: `Spec => []MuteIsPersonal`. The property is about a line and the
  hits before it, the code about a map that is swept as it is read. `HitInv` joins
  them: for every player and every later moment, the map mutes him exactly if a hit of
  his lasts until then. `SweptMutes` says that a sweep cannot be seen.
* `NoticesCorrect`: `Spec => []NoticesSpaced`. `NoticeInv` adds that the entry of a
  mute has the time of the last notice; that a new mute starts a new entry does no
  harm, since its first notice is the hit itself.
* `PublicCorrect`: `Spec => []OnlyPublicChatLeaves`. The property is about lines that
  have left; `PublicInv` is about those that wait too.

The last three, `MuteCorrect` to `PublicCorrect`, have the hypothesis `OwnKeys`:
two lines have the same mute key exactly if they are of the same player. It holds where the uid
can be read; section 3 says which players share a key otherwise, and for those the
property is false. `MCChatCapture` has `OwnKeys` and `SteadyNames` as an
assumption, which TLC evaluates for the lines of the run.

`ChatInjectProofs` is about any players, any number of `PlayerState`s, messages,
kinds of message and faults, and any limits that satisfy the assumptions of
`Audience` and `ChatInject`. `InjectInv` has one part per concern:

* `AudienceInv`: entries point to a `PlayerState` of their own player, only Xbox
  players have Xbox ids, the lists are the roster. For each function of the
  tracker a lemma says that it preserves this (`UpsertedAsGood`,
  `PrunedGood`, `ForgottenGood`) and for each event of the game that no
  `PlayerState` changes hands (`EventVisits`).
* `ControlInv` and `QueueInv`: the place in the frame, the counters, and the
  bounds and types of the queues.
* `PlaceInv`: a message that waits has the fate "queued", a row waits in the
  queue or in hand but not in both, and a line of this server has a `PlayerState`.
  A queue that held a number twice, or a number both in hand and in the queue,
  would satisfy `RowsInOnePlace` and break it a step later; `PushAllDistinct` and
  `PushDistinct` of `BoundedQueueProofs` say that queues keep their items apart.
* `ShownInv`: what has been shown no longer waits, and was shown to each player
  once, unless it is a row that was pushed back. Without the first part a line of
  this server could be shown and wait to be shown again.

Every action has a lemma, and every kind of message one for the broadcast, which
states what the broadcast adds to `shown`. The theorems are `InjectTypeCorrect`,
`RowsCorrect`, `ShownCorrect`, `OnlineCorrect` and `XboxCorrect`. TLC checks
`RowsInOnePlace` in `frames`, and `ShownTwiceOnlyByRetry`, `LinesReachTheOnline` and
`XboxLinesAreAttributed` in `game`, where the hook and the deferred lines of
`ChatCapture` take the place of the free choice in `Chat` and `Defer`; the
theorems are about `ChatInject` with that free choice, and `GameThreadProofs` has
them again for the composition.

`GoneCorrect`, `Spec => OnlyTheGoneLeave`, rests on `InjectInv` too: an entry is removed
for a `PlayerState` that is gone, and `AudienceInv` says that it is the one of that
player; `UpsertKeeps` and `StepKeeps` follow one player through a frame. `RowOrderCorrect`,
`Spec => []RowOrder`, needs `OrderInv` besides: the rows in the queue are in order
but for those pushed back, and whatever waits and is older than a row shown or in
hand was pushed back. `RowOrder` alone says nothing of what is still queued.

`ChatInjectProofs` also has theorems about every text of an id. `Trimmed` takes the
first and the last character that is no white space, which exist because numbers are
well-founded (`Smallest`, `Largest` of `BoundedQueueProofs`). `NormalizedTwice`: an id stays what it is when
it is normalised again, as every id is in `Upsert` and every net id in
`ResolvePlatformUserId`, so `Entry` leaves it out. `OneIdPerSteamAccount`: a Steam
account that is written as digits, or after `Steam:`, `steam:` or `steam_`, has one
id, so it cannot be listed or linked as two.

`GameThreadProofs` is about the composition, for any lines that are typed, any
players, `PlayerState`s and faults, and lists of any positive size. It instantiates
`ChatCaptureProofs` (`P`) as `GameThread` does `ChatCapture`; `CaptureAssumptions`
derives what that module assumes of its constants, and `SameHook` and `SameFlush`
say that the two instances are one.

* `CaptureImplemented`: `GameSpec => C!Spec`. The game thread implements
  `ChatCapture`: whatever frames and events do between the hooks, a step is one of
  `ChatCapture` or leaves its lines alone, so what is proved of them there holds here.
* `GameTypeCorrect`, `GameShownCorrect`, `GameOnlineCorrect`, `GameXboxCorrect`,
  `GameGoneCorrect`: the properties of `ChatInject` with the hook as the source of
  its lines and the flush before its frames. A hook's step is not one of
  `ChatInject` (it defers several messages and lists a player at once), so
  `HookInject` and `UpdateInject` show of these steps that they preserve `InjectInv`,
  and `QuietSteps` that they show nobody anything. `TiesInv` ties the two halves: a
  `PlayerState` for each line, a message for each line that comes back.
* `GameBackCorrect`: `GameSpec => []ClearedLineComesBack`. That a line is shown to its
  own player depends on what happened between the hook and the frame, so `GameInv`
  adds to the invariants of both components: a player has one live `PlayerState`
  (`OneLive`); whoever typed a line is on the roster as long as he is there and the
  circuit is closed (`LineInv`, over joins, prunings, refreshes and double
  broadcasts, by `GamePlayers`); a message that is no row is "queued" as long as it is
  in the list of deferred work, and given up in silence only by the circuit,
  a lost GameState or an exception (`FateInv`); and the message of a line has its player and `PlayerState`, and reaches
  him once it is shown (`ComeInv`). `ClearedInv` adds that a line is cleared only
  under `ShowLocalServerTag`, so that it is rebroadcast whenever it is relayed.

`MessageTextProofs` is about well-formed texts of any length and any size of the
buffer into which a code point fits (`SizeAssumption`; it is 512 in the code). Where
the run enumerates texts, the lemmas speak of a text byte by byte: `WellFormedMeans`
says which byte belongs to which first byte, and `PieceWellFormed` that what lies
between two cuts is well formed again.

* `TruncateCorrect`: `Spec => []TruncateKeepsWholePrefix`, for every text and limit,
  those in the middle of a code point and zero included. `TruncateCuts` is the walk
  back of the code, `SplitIllFormed` says why no later cut would do.
* `StoredTextCorrect`: `Spec => []StoredTextIsClean`. `TextInv` gives the text at every
  stage as a function of what was typed (`TypedInv`) or, for the bot's rows that fit
  the buffer, of what was posted (`PostedInv`). No row of a player is longer than
  the buffer, so nothing is read from behind it (`NothingBehind`). That no player's line with visible text is ever
  dropped needs `FetchedShows`: even when the buffer of `poll_inbound` takes the last
  byte of a row, the rest of it is no blank line.
* `SameTextCorrect`: `Spec => []SameTextEverywhere`. `SanitizedAgain` says that what fits
  and is clean is not changed when it is cleaned a second time.
* `ShownLineCorrect`: `Spec => []ShownLineIsWhole`, for texts of any length and each of
  the model's `Templates`, `Prefixes`, `Guilds` and `Names`. `LineInv` says that what is
  shown is `ApplyChatFormat` of the four and the text. The sender is never empty
  (`SenderStands`); it names the player where the template has `{player}` before
  `{message}` (`BeforeFits`) and the name is `Plain` (`PlainMeans`, `PlainNames`).

`StripControl` and `ReplaceAll` are recursive functions over the positions of a text.
That such a function exists, and that it is what a loop over the text computes, is
shown from the smallest place at which it would be wrong, without an induction theorem
(`PickExists`, `PickUnique` and `StripSteps`; `ReplaceSteps`). `StripFacts` follows the loop with a
condition on what is kept so far (`Follows`: a code point loses none of its bytes,
since no control character is inside one).

For `ShownLineCorrect`, `ReplaceSteps` takes `ReplaceAll`, a search from left to right, apart
into steps that each copy a symbol or put the replacement in; `SymbolFrom` tells of
every symbol of the result which step it came from, and `PieceKept` that a piece
that no occurrence overlaps is found again. The sender is then followed through
`ApplyChatFormat`. In every template the placeholders of prefix and guild stand alone
in their brackets, and filling prefix and guild keeps that (`Ready`, `FillReady`).
With the player filled in, a bracket is opened neither before white space nor
around an empty pair (`Flat`, `FillFlat`). The replacements of
`CleanupEmptyGuildBrackets` keep this, so that removing a pair never makes a new one,
and once all pairs `[]` are removed no bracket is opened in vain (`Bare`, `FlatKept`).
`CollapseSpaces` keeps `Bare` (`CollapseBare`). No removed pair and no collapsed space
overlaps a name, so the player is still named (`NameKept`, `CollapseName`).

Only model-checked are the liveness properties (`LineReachesTable`, `RowReachesGame`,
`StopCompletes`, `JobsAnswered`, `ReportsServed`, `UnloadEnds`, `RowIsTaken`,
`JoinIsListed`): fairness and ENABLED are out of the prover's reach. What the code does
with templates, prefixes, guilds and names other than those of `MessageText` is
neither checked nor proved.

## 7. Assumptions about the outside

* Hooks and `on_update` run on the game thread, one at a time (`src/README.md`,
  Threading model). While `Stop` joins the worker the game thread does nothing.
* Rows are not deleted from `crosschat_messages` by this mod; the worker's own
  writes take effect in the order sent.
* The clock stands still during one hook.
* That MySQL may reject some line whenever it is sent is an assumption about the
  schema, which is not in this repository.
* A player has one live `PlayerState`, and within a frame the PlayerStates stay as
  they are; the GameState may go.
* A call that faults inside the game has delivered nothing.

## 8. Not modelled

* Of *PlatformId*, the reads of properties and the calls through UE4SS: a text
  comes out, or none. The roster cuts ids off at 255 bytes by treating longer
  ones as none; no id of a platform is that long.
* *SehUtil*: by its outcomes, a call done or faulted, an object live or gone.
* Of *Config*, integers beyond the range of `int` in the JSON, and texts that are
  only shown. `LogConfigSummary` only logs.
* Of *Webhook*, parsing the url and escaping the JSON; a post is done or failed.
* `EnqueueServerNotice`, `Remember`, `Forget`, `MuteReason` have no caller;
  `SanitizeNotice` only words notices.
* Regular expressions: whether a line matches is part of its kind.
* Two whole servers in one model: their product is beyond TLC, and all that one
  sees of another is rows and `crosschat_players`. `DbWorker` has the other
  writers as actions (`PeerInsert`, `PeerTakeId`, `Commit`), `DiscordLink` has
  several servers.

## 9. Plan

Done: the core (queues, worker, its abstract specification and the refinement of it),
every interactive component, their composition on the game thread, the lifecycle
with the webhook worker, and theorems for every safety property of the worker, the
linking, the lifecycle, capture, the roster, the injection and the composition of
the three on the game thread, and of a line's text. Not planned: a theorem about
`ApplyChatFormat` for templates other than the model's.

## Running

    tlc -config DbWorkerFaults.cfg DbWorker
    tlc -config ChatCapture.cfg MCChatCapture
    tlc -config GameThread.cfg MCGameThread
    tlc -config Lifecycle.cfg MCLifecycle
    tlc -config Frames.cfg MCChatInject
    tlapm DbWorkerProofs.tla
    tlapm DiscordLinkProofs.tla
    tlapm LifecycleProofs.tla
    tlapm ChatCaptureProofs.tla
    tlapm ChatInjectProofs.tla
    tlapm GameThreadProofs.tla
    tlapm MessageTextProofs.tla

The configuration of each run and what is expected of it are in `PROJECT.json`.
