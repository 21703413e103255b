# A TLA+ verification of Xcaliber Mark II

Xcaliber Mark II (`xcal`) is a multi-user terminal conference server in C: one
process, one `select` loop, a table of user slots.  This directory holds TLA+
models of its core, TLC configurations that check them on small instances, and
TLAPS proofs about all of them for every instance.  All line numbers
refer to the files of the repository.

Check a model with `tlc -config MCx.cfg MCx`, the proofs of a module with
`tlapm xProofs.tla` (a minute or two for each).  `PROJECT.json` maps every definition to the
lines it models, and lists the runs, the hazards, the findings and the theorems.

## Inventory of the system

| Part | State | Operations | What is hard |
|---|---|---|---|
| Conference (`con.c`, `cmd.c`) | `who[]`, each user's `mstr` and flags, `num`, `max`, `new`, `NEWCON` | connect, log in, disconnect, BYE, KILL, MTY, NORMALIZE, GIVE, XYZZY, XRESET, pass of `con_run`, end, restart | slot numbers that outlive their users, ownership handed back, loops that change what they iterate over, a master lost in mid-pass |
| Streams (`stream.c`) | a growing ring: `data`, `size`, `head`, `tail`, `num` | put, unget, get, read line, copy, flush, shrink | wrap-around, growth from any offset, empty and full look alike |
| Messages and dialogues (`con.c`, `cmd.c`, `user.c`, `message.c`) | reference-counted messages, a queue and an unfinished message per user, user state, ignore map, reject flags, the current warning | TELL and its text, delivery, notification, warning, EXPLAIN, OUT, LINE, ID, IGNORE, RA, RN, transmission | recipients chosen long before the message is posted, references of many owners, what is posted within a pass |
| Input of a user (`user.c`, `telnet.c`) | input stream, state of the dialogue | read, telnet requests, one line per pass (all of them while composing) | lines in pieces, several lines at once, requests between lines, busy users |
| Main loop and clock (`xcal.c`, `con_run`) | listener, `g_quit`, retries, `end`, `warn`, `til` | listen, retry, first accept, select, warnings, XTEND, interrupt, shutdown, reset | interrupt at any moment, sleeping past an instant, the listener shared by successive conferences |
| Command parsing (`cmd.c`) | the command vector | `con_command`, `cmd_match`, `cmd_comp`, `cmd_argmap`, `cmd_isok` | abbreviations that could fit two commands, separators, GIVE's two parts |
| Notices of the ownership commands (`con_give_map`, MTY, NORMALIZE, GIVE) | notices in the users' queues | post, transmit, discard | several changes waiting in one queue, users who are out or have not logged in |
| Left list (`con_left`, LEFT) | growing array of dead users | add, list, reset | stored before it grows, reuse after reset |
| Help, languages, privileges, net, ports, log, memory, scripts | files and system calls | | pure I/O |

The parts interact as follows.  `main` (Server) starts and ends conferences and
owns the listener.  `con_run` alternates between *transmitting* (every idle
user with a queue starts to receive one message), `select`, at most one
`con_newuser`, and a *pass* over the slots in order: each user is polled
(`user_poll`) and his state dispatched to a handler; then it looks at the
clock.  Nothing runs concurrently with it but the interrupt handler, the
clients and the network.  All interleaving is therefore in the order of slots
within a pass: what an early slot does is seen by later slots before anything
is transmitted.

What makes each part correct:

* Conference: while the master is there, and until a GIVE closes a loop,
  everybody has a connected master who may command and the masters form a tree
  rooted at #0; ownership moves only by command or one level up, the counters
  are exact, the loss of the master ends the conference, and each way to
  dereference a NULL user is known.
* Streams: a queue of bytes, whatever the ring does underneath.
* Messages: exact reference counts, no message for the wrong person, a message
  in progress belongs to its composer, warnings reach everybody, idle users
  are served.
* Notices: what a user was told last, or is about to be told, of his master and
  his rank is true.
* Parsing: a word calls the command it abbreviates, a list means its numbers.
* Left list: everybody who has left this conference, nobody else, in order.
* Input: lines are acted on in order, complete, exactly once.
* Server: promised time is kept, the end comes by itself and with a warning,
  interrupts work, the listener survives.

## Modules

| Module | Models | Correspondence |
|---|---|---|
| `Conference` | `con_newuser`, `con_exuser`, `con_normalize`, `con_give_map`, the loop index of `con_run`, the ownership commands | A flag of the user record is the set of users that have it; `mstr`, `new`, `num`, `max` keep their names; `turn` is the loop index; a NULL dereference sets `phase` to `"crashed"`. KILL and NORMALIZE treat one argument per step (`KillOne`, `NormOne`), all other handlers are one action. A bitmap is a set of slots in which bit 0 has the double meaning it has in `con_give_map`. `cyclic` remembers that a GIVE has closed a loop. |
| `ConferenceProofs`, `NoticesProofs`, `StreamProofs`, `ServerProofs`, `MessagingProofs`, `LinesProofs`, `CommandsProofs` | | theorems, see *Proofs* |
| `Numbers` | | a set of naturals has a least member, and what follows from it: counting up to a number, and recursions that go up or down define a function. What the proofs use for induction |
| `Notices` | what `con_give_map`, `cmd_mty`, `cmd_norm`, `cmd_give`, `con_login` tell the users concerned | extends `Conference`: each action is Conference's of the same name and the notices it posts; `told` and `ranked` remember what a user heard last. The other contents of the queues are in `Messaging`. |
| `Commands` | `con_command`, `cmd_match`, `cmd_comp`, `cmd_argmap`, `cmd_isok`, the header of `cmd_give`, `cmdtab` itself | a user types a line character by character and RETURN has it parsed by recursive functions that follow the loops of the code, one step a turn; the reference definitions (`Spellings`, `Meant`) are independent of them. A string is the sequence of its characters, with `NUL` behind it; `Others` stands for the characters that no command uses. `cp` is what parsing looks at of the conference: who is connected and who of them leads. Who may use a command is in `Conference`. |
| `Bytestream` | what a stream promises | a sequence with push-back and line reading; `ReadLn` may find nothing |
| `Stream` | `stream.c` | all five fields; refines `Bytestream` through `queue <- Contents`. Undefined results are never read. |
| `Messaging` | messages, queues, dialogues, one pass | `msg` is the heap, with reference counts; a queue is a sequence of message numbers; `sending` says that the output stream is not empty; names, wording and subconferences are left out. |
| `Lines` | `user_poll`, telnet handling, dispatch, for one user, his client and the network | the input stream is an instance of `Bytestream`, and `room` the size of the ring under it, on which `HasLine` depends; the ring may be larger after a read by any number of doublings the bytes can have caused, requests among them that are gone again. `wire` holds what the network has not delivered. |
| `Server` | `main`, `sig_int`, `con_run`'s clock, `con_left` and its reset | the phases of `main`; time in units, handlers take none. `left` and `nml` are `cp->left` and `cp->nml`, users are numbered in the order they leave. |

`MC*` modules instantiate them.  Definitions whose name ends in `Bug` are not
part of any specification: each is its namesake with one plausible mistake, and
shows (entries `mutants` of `PROJECT.json`) that a property can fail.

## Runs

| Run | Shows | Bounds, and why they are enough |
|---|---|---|
| `MCOwnership` | type, counters, `MasterIsZero`, `NobodyOrphaned`, `RootedAtMaster`, `OwnershipMoves` | four slots: a master, a submaster, a submaster below him and somebody to pass; no code treats more levels at a time; loops by GIVE |
| `MCPrivileges` | `CrashHasItsCause`, `MasterLossEnds`, `DoneEnds`, counters | three slots, all commands (KILL of everybody among them), a privileged user, loops by GIVE, restarts: all three causes of a crash occur |
| `MCNotices` | `ToldMaster`, `ToldRank`, `PassedToLeaders` | three slots (master, submaster, user), two notices waiting for each: enough for a user to be given, returned and promoted before he hears of any of it |
| `MCCommands` | `DispatchExact`, `ListExact`, `GiveExact` | every beginning of a name in the vector with one letter more; arguments of up to five characters (NEW counts as three): two numbers with everything that can stand around them; #0 connected or gone |
| `MCStream` | refinement of the queue, `LineMissedOnlyWhenFull` | sizes 1 and 3 and up to 4 bytes: wraps at every offset, grows once or twice |
| `MCMessaging` | `RefCounts`, `ComposersHaveMessages`, `OutHearsWarningsOnly`, `WarningReaches` | three slots (two recipients and a composer), two messages alive, two in a queue |
| `MCDialogues` | `OutputUndisturbed`, `IgnoredUnheard`, `IdleAreServed` | two slots, ignore and reject settings |
| `MCLines` | `TextKept`, `LinesExact`, `AllHandled` | three lines or requests, every cut of either, one message that makes the user busy; a ring of two bytes at first, which every pair of lines fills or outgrows; an empty line and two that can be told apart, so that lost, doubled and swapped lines show |
| `MCServer` | `ListenerKept`, `NeverEndsEarly`, `EndIsWarned`, `OverrunBounded`, `LeftKept`, `InterruptEnds`, `TimeEnds` | both values of `-l`; six units extended to at most nine, first warning five before the end, then every two; the clock's own bound (14) is never reached; four users leave, for whom the left list grows twice |
| `MCNewUsers`, `MCMasterExit`, `MCListen` | the findings below | the smallest instances that show them |

Three of the passing runs switch off the check for deadlock for a reason: the
streams' caller may shrink its stream for good (`MCStream`), a user may have
hung up (`MCLines`), the server may have exited (`MCServer`).  `MCOwnership`
and `MCPrivileges` stop after a crash, and `MCNotices` where every queue is full.

Heap and queue bounds of `Messaging` disable the action that would exceed them;
the code has no such limit.  `Backlog` does the same in `Notices`.  `Units`, `Mail`, `Limit`, `MaxEnd`, `MaxNow`,
`MaxGone` and `MaxArgs` bound the environment likewise.  `LoopGives` is a bound
of the same kind, which only `MCNotices` uses: it has no loops by GIVE, because
with them it has 4.9 million states.  (Its properties hold with them too.)

### Fairness

The process is not blocked between two steps of its loop, since `select` has
a timeout and messages are sent to whom `select` says can take them: `WF` of the
loop (`Conference`, `Messaging`) or of the polling steps (`Lines`).  In
`Server` select ends when its time has come (`WF` of `Main`) and time passes
(`SF` of `Tick`: the loop goes through phases in which time stands still).
Two strong assumptions are about the outside and only for `AllHandled`: what is
on the wire arrives (`SF` of `Read`) and a client reads what it is sent (`SF`
of `Received`).  `IdleAreServed` needs no reader but `WF` of the loop.
`WF` of the loop supposes that users read the replies to their own commands,
which are sent on blocking sockets (`net.c:88`), and that `select` and `accept`
do not fail (`con.c:216`).
Nobody has to connect, type or leave; `FirstUser` is fair only after an
interrupt, which closes the listener under the blocked accept.

### Findings

1. **New users go to the grandparent** (`MCNewUsers`).  `con_give_map` sets
   `cp->new` to the *master of* its argument (`con.c:645`), and
   `con_normalize` passes the superior already (`con.c:696`).  "Transfer
   ownership ... back to his or her superior" (`con.c:668`) holds for the
   users but not for the new ones.
2. **The pass goes on without the master** (`MCMasterExit`).  After the
   master's connexion has died (`con.c:234`) later slots are still served, and
   a tell-all (`cmd.c:166`) or a login (`con.c:395`) follows the NULL pointer of
   his slot, before the conference "closes down, disconnecting all its users"
   (`xcal.c:165`).
3. **The retry loop never listens again** (`MCListen`): with `ear == -1` the
   argument `!g_con.ear` is 0 (`xcal.c:128`), so waiting "for the address to
   become free" (`xcal.c:126`) is in vain.

### Other divergences

Met while modelling, kept in the models as the code has them, and without a run
of their own:

* A line whose end fills the ring exactly (32, 64, ... bytes) is not seen until
  another byte arrives (`stream.c:112`); `LineMissedOnlyWhenFull` allows exactly
  this case.  `help/out.hf:4-5` promises that RETURN is noticed.  `Lines` has it
  too (`HasLine`): such a line can wait for ever, and `AllHandled` excepts it
  and no other.
* KILL without arguments visits every slot below `cp->max` and dereferences
  those whose users have left (`cmd.c:922-932`).  It is one of the three
  causes of a crash that `CrashHasItsCause` names.
* GIVE may pass a submaster to somebody below him (`cmd.c:1175`).  The users of the
  loop are then below nobody, keep each other as masters, and can be left with
  one who has gone: the second cause.  What holds without a loop is stated up to
  the first one.
* Bit 0 of a bitmap is the new users for `con_give_map` and user #0 for
  `cmd_argmap`.  Once a privileged user has killed the master and an ordinary
  user has taken slot 0, GIVE of #0 moves the new users and not him
  (`con.c:644`).  `GivenNew` and `GivenMstr` do the same; no property objects.
* EXPLAIN puts a help text in the queue and keeps the reference it was born with
  (`cmd.c:401-417`), so the text is never freed.  `RefCounts` counts one
  reference more for each help text, and shows that no other is lost.
* `-w` and `-d` are taken as they are typed (`xcal.c:70-72`).  With a warning time of
  0 or less, or longer than two conferences, a conference may end
  without a warning, and with a long one `labs` (`con.c:210`) makes `select` sleep past
  the end.  `EndIsWarned` claims nothing for them; `Overrun` says how late it gets.
* OUT discards a warning that was posted earlier in the same pass
  (`cmd.c:653`), though "system warnings cannot be ignored" (`con.c:736`);
  `WarningReaches` allows exactly this case.
* RA is looked at when a tell-all is typed and not when it is posted
  (`con.c:780`), against `help/ra.hf:3-4`.
* A submaster's own tell-all looks at his superior's DISABLE and not at his own,
  though it reaches his subconference (`cmd.c:166`, `help/disable.hf`); and the
  flag outlives a NORMALIZE.
* A break during composition disconnects (`user.c:297`); the help texts of TELL
  and BYE say it aborts the message.
* PO, WH and LI are refused, though "any command may be abbreviated" to two
  letters according to `help/general.hf:7`: the vector has no star there.
* A separator where a number is due stands for user #0 (`cmd.c:1559`); `ListExact`
  states exactly when.
* `con_give_map` tells the superior that he has been passed new users who in fact
  go to his master (the root of finding 1).
* Notices of MTY, NORMALIZE and GIVE wait for users who are OUT, messages and
  notifications do not.
* A telnet request that is cut before its option leaves the option, and the
  requests behind it in the stream, in the next line (`telnet.c:30`); `TextKept` shows
  that the text itself survives.
* The user records of the left list are cleared twice, by `con_shutdown` and by
  `con_reset`, which is harmless since `user_clear` resets what it frees.

## Proofs

Every theorem holds for any number of slots, users, messages, bytes and units of
time.  The assumptions are those the modules make on their constants (there is
a slot; `Backlog` is not 0; a minute is not nothing, and so on; each is an
`ASSUME` that TLC evaluates in the runs).  No theorem excludes a command, a loop
by GIVE or a setting of the clock: where the code does not keep something
in every case, the property says in which cases it does.

An invariant that a run checks is seldom inductive.  The ones below are
conjunctions of named parts, checked by TLC on the runs' instances before they
were proved where TLC can evaluate them (not the ones that say that a function
exists).  There is no induction over data: where an argument needs one
(a chain of masters, the last notice in a queue, the last turn of a loop over a
string) it takes the *least counterexample*, whose existence `Numbers` derives
from the library.  Where it counts (references, users of a slot), it shows
bijections between the finite sets that are counted.

### Conference (`ConferenceProofs`)

* `TypeCorrect` and `SlotsBelowMaxCorrect`.  The two are proved together (`IType`): that
  `who` lies below `max` needs that a newcomer's slot is at most the number of
  users, which is where the search for the *first* free slot matters
  (`FirstFreeBound`), and that needs `num` to be exact.
* `MasterIsZeroCorrect`, from `IMaster`, which adds that slot 0 is never handed on
  by a bitmap (`ZeroNotGiven`) although bit 0 means the new users.
* `NobodyOrphanedCorrect`.  The property is not inductive:
  handing a user's people to his master says nothing about that master
  unless masters are ordered.  `IOwner` says there is a *rank*, a natural for
  each slot, that falls from every user to his master.  `HandBack` shows that
  what a leaving or demoted submaster returns keeps falling, `ConnectOwner`
  ranks a newcomer above his master, and `GiveOwner` builds the new rank of a
  GIVE from the set below the people passed, which does not contain the
  receiver: such a set is what a GIVE that closes no loop has (`MakesLoop`).
  `ITree` says that there is a rank until one has been closed.
* `RootedAtMasterCorrect`: the same rank falls along the
  chain of a user's masters, so the `Size + 1` members of a chain that had not
  come to #0 would be different slots, one more than there are.
* `CrashHasItsCauseCorrect`: as long as there is a rank and the master, only KILL of
  everybody follows a NULL pointer.  `IVictims` adds that the arguments left in
  any other KILL are connected.
* `MasterLossEndsCorrect` and `OwnershipMovesCorrect`, action properties.  The first needs
  `ISpared` (whoever kills is not among his victims), the second the types only.

### Notices (`NoticesProofs`)

* `NoticesRefineConference` (`NoticesSpec => Spec`): each action with its notices is an
  action of `Conference`, so all theorems above hold here as well.
* `NoticesTypeCorrect`, `ToldMasterCorrect`, `ToldRankCorrect`.  What posting does is
  said once (`Final`: what the last notice of some kinds in a queue says) and
  every action is one of a few effects on one or several queues (`Effect`):
  a user is named to his new master, raised, lowered, given on, hears the head of
  his queue.  `ITold` follows effect by effect.  It needs `INorm`: whoever is in
  the middle of a NORMALIZE is connected.
* `PassedToLeadersCorrect`, from `IBacked`: as long as the masters form a tree, behind every
  notice of users passed to somebody who does not lead any more waits the one
  that tells him so.  It uses the forest of masters (`ITree`).

### Streams (`StreamProofs`)

* `RingCorrect`: `RingOK` is inductive; the lemmas are about `Index` and `Grown`.
* `LineMissedCorrect`: `stream_hasline` compares positions, and so sees a line
  end unless head and tail coincide.
* `QueueCorrect` (`Spec => IsBytestream`): the ring implements the queue of
  `Bytestream`, with `queue <- Contents`.  One lemma for each operation says what
  it does to the contents (`PutChAppends`, `UngetChPushes`, `TakeDrops`,
  `CopyContents`, `GetChHead`, `ReadLnLine`), growth and wrapping included.

### Server (`ServerProofs`)

* `ServerTypeCorrect`, `ListenerKeptCorrect`: `IEar` says that outside a conference the
  listener is not closed and no interrupt is pending.
* `LeftKeptCorrect`: `ILeft` says that the array holds the first `nml` leavers *and
  has room for one more*; `LeftGrows` shows that doubling keeps both.
* `NeverEndsEarlyCorrect`, `EndIsWarnedCorrect`, `OverrunBoundedCorrect`: four parts of
  `IClock` say phase by phase how `end`, `warn`, `til`, `wake` and `now` are
  related: `til` is what was granted (`IPromise`); if the warning time is
  from one unit to two conferences, no sleep before the first warning reaches beyond
  the end (`IWarning`);
  `warn` is where the end puts it until the first warning, and a minute later than
  that afterwards (`IDue`); and so the loop is never later than `Overrun` (`ILate`).
  The last two hold for every `-w`: the first turn of the loop, where a long
  one puts `warn` before the beginning, is a case of its own (`Beginning`).

### Messages (`MessagingProofs`)

* `RefCountsCorrect`: counts are exact but for the one reference a help text loses.  `Due` counts what queues, composers and the warning owe
  to each message; `Sound` says that the counts of the messages are what is due, and that
  a message is free just when that is 0.  In mid-handler a count includes what
  the handler itself holds, so the lemmas `UnrefSound`, `RaisedSound`, `MadeSound`,
  `EnqueueSound` speak of any due.  `Posted`, `Emptied`, `Forced` and `Sent` are what
  handlers do to queues, each with lemmas about the references it adds
  or removes (`PostedPlaces`, ...).
* `MessagingTypeCorrect`, `ComposersCorrect`, `OutHearsCorrect`, `WarningReachesCorrect`,
  `OutputUndisturbedCorrect`.  All need exact counts: a message that is held is not
  freed and so cannot be reused for something else (`HeldSame`).
  `ServedStep` shows once what the turn of one slot leaves all the other users
  (`Aside`), so that a lemma per handler has to speak about its own user
  only (`Own`).  `IMessaging` adds that nobody is left in a free slot
  (`IAbsent`) and that the warning is one (`IWarning`).
* `IgnoredUnheardCorrect`, an action property.  EXPLAIN puts its text *first*, so
  the last message of the lengthened queue is an old one; that it is from nobody
  the user ignores is `IHeard`: IGNORE leaves its user idle, and before
  his next turn all that waited for him at that time has begun to move.

### Input (`LinesProofs`)

* `LinesTypeCorrect`.
* `LinesExactCorrect`, from `IParsed`: as long as nothing has been torn, what is in
  the input stream and on the wire, joined, is a sequence of *whole* units, and
  there is an increasing map from the lines that have not been acted on to the
  units, which misses only requests (`Spread`).  So wherever the network cuts is
  no matter: `ReadMoves` shows that reading changes neither.  `RequestTaken` and
  `LineTaken` show that the server takes exactly the first unit; the former is
  where a request without its option would break it, and the latter where two
  bytes to end a line would (a CR whose LF has not come).  What
  `FlattenSeq` computes is derived first (`FlattenConcat`, `FlattenFirst`).
* `TextKeptCorrect`, for all line ends and with torn requests, where there are
  no whole units left to speak of.  Instead it follows a *reader* (`Reads`) who takes the
  bytes one by one, skips those of telnet requests, and notes a line at
  every CR or LF unless it is empty.  `IText` says that this reader, if he starts
  with the lines acted on and reads all that is ahead, in the stream and on the
  wire, ends with the lines typed.  So it is no matter where pieces begin and
  end; a line acted on is a step of his (`LineBytes`), a request is nothing to
  him, whether it is taken whole or torn (`RequestBytes`), and a CR LF is a
  line and an empty one.  The second half of `TextKept` needs that until
  something is torn no telnet byte stands but behind the one it follows
  in a request (`Chained`), so that a line can only hold one if it begins with
  one, which it does not (`Starts`).

### Parsing (`CommandsProofs`)

A line is any sequence of `Characters`, however long.  `CallCorrect` (`ICall`) says that
a complete line is called as `con_command` reads it; the rest is about
what the operators compute, for every string.  `Span`, a loop over a class of
characters, stops at the one place `StopsAt` describes.

* `DispatchExactCorrect`.  `CompSpells`: `cmd_comp` accepts just the names without
  their stars (`Spelt`), cut off at the end or before a star.  It goes by the
  turns of the loop: after `cx` of them it has passed exactly the characters
  of the name that are no stars (`CompPasses`).  That two commands share no spelling
  and that names hold letters and stars only is `TableAssumption`, a fact about
  the literal vector, which TLC evaluates.
* `ListExactCorrect`.  The turn at place `i` reads one item (`ItemIs`).  `ListRead`
  shows from the last item backwards that what the loop adds from `i` on is what
  the text from `i` on means (`ReadRight`): the numbers that begin there
  (`NextNumbers`), and #0 where a separator stands in the place of one (`StrayHere`,
  `StrayLater`), or a refusal as soon as one of them is not connected or a
  character is none of a list's.  `BeforeNumbers` and `BeforeStray` carry this over to
  `Meant`, which does not know of items.
* `GiveExactCorrect`.  `HeadGood` and `HeadBad`: the header's three loops
  come to a semicolon behind a number just when what stands before the first
  semicolon is one number and blanks.  `NewIs`: only NEW in full is `"new"` for
  `cmd_comp`.  The list behind it is `ListExactCorrect`'s.

That the recursive functions exist at all is proved first (`Recursion` and `Gathering` of
`Numbers`), since the prover knows no recursion.

### Only model-checked

* Liveness under fairness (`DoneEnds`, `IdleAreServed`, `AllHandled`, `InterruptEnds`,
  `TimeEnds`) is out of the prover's reach.

All other properties of the passing runs, every invariant and the five action and
refinement properties, are theorems, under no hypothesis but the modules'
assumptions on their constants.

## Not modelled

* Formatting and printing (`stream_printf`, WHO, LEFT, CLOCK, INFO, ...), log,
  languages, help lookup, passwords, memory wrappers, scripts and the
  interactive programs under `tests/`.
* ENABLE and DISABLE, and subconferences in `Messaging` (`Notices` has them for
  the notices about ownership).
* Failures of `select`, `accept` and memory allocation.  `con_newuser` may block
  in `accept` if a connexion is gone before it is accepted.
* Numbers beyond the table before GIVE's semicolon, which the code uses as an
  index unchecked (`cmd.c:1098`), and numbers that overflow an `int`.
* Streams of size 0 (`stream.c:79`, `con.c:746`).

## Plan

Conference, Stream, Messaging, Lines, Server, Notices and Commands are modelled,
checked and proved about.  What is left:

1. Subconferences in `Messaging`, by taking `mstr` from `Conference`.
2. What holds of the masters after a loop of GIVE (hazard at `cmd.c:1175`): how
   far from a forest they can get.
