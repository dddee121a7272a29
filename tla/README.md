# A verification project for the CSF assignments

This directory holds TLA+ specifications of the programs in `src/`, the TLC
configurations that check them on small instances, and theorems about them that
the TLAPS proof system checks for every value of the constants.

Contents: [the system](#the-system), [modules](#modules-and-the-code),
[runs](#runs-and-bounds), [fairness](#fairness), [proofs](#proofs),
[what the code does not do](#where-code-and-documentation-part),
[what is left out](#what-is-not-modelled), [plan](#plan).

## The system

The repository holds five programs for one course.

| Part | Source | Status |
|---|---|---|
| Chat server: rooms, workers, message queues | `csf_assign05/{server,room,message_queue}.cpp`, `user.h`, `guard.h` | modelled |
| Connection: messages on a socket | `csf_assign05/connection.cpp`, `message.h`, `rio_*` of `csapp.c` | modelled |
| Chat clients | `csf_assign05/{sender,receiver,client_util}.cpp` | modelled |
| Parallel quicksort | `csf_assign04/parsort.c` | modelled |
| Cache simulator | `csf_assign03/main.cpp` | modelled |
| Image transformations, C and assembly | `csf_assign02/{c_imgproc_fns.c,asm_imgproc_fns.S}` | modelled |
| Image files, main of the image program | `csf_assign02/{image.c,c_imgproc_main.c}` | modelled, with the failures of `pnglite.c`'s writing |
| Fixed-point numbers | `csf_assign01/csf_assign01/fixpoint.{c,h}` | modelled |
| the rest of `csapp.c`; the encoding in `pnglite.c`; `tctest.c`, command lines, tests | | left out |

### Chat server

*State.* The `Server` has a map of room names to `Room` objects with a mutex
`m_lock`; a `Room` has a set of pointers to `User` objects with a mutex `lock`;
the `User` of a receiver has a `MessageQueue`: a deque with a mutex and a
semaphore.  Rooms are never deleted.  Users are, by the worker of their
connection.

*Operations.* The main thread accepts connections and starts one detached
worker for each.  A worker reads a login; for a receiver it reads a join, adds
the User to the room, and then takes messages from the User's queue and writes
them to the connection; for a sender it answers join, leave, sendall and quit.
A sendall walks through the members of the room, holding its lock, and puts the
message in each one's queue.

*What is hard.* Workers share rooms and, by the sets of pointers, each other's
Users and queues.  A broadcaster uses the User of a receiver whose own worker
may be on its way to delete it; it posts the semaphore after it left the
queue's critical section, when the message may be gone already.  Push and post
are two steps, so are wait and pop.  Two workers may look up the same new
room.  A connection can break at any time, also between a request and its
reply.  A dequeue times out every second and is tried again.

*What makes it correct.* One Room object per name; a User is in a room's set
exactly while its worker serves it; nobody follows a pointer to a deleted User;
no lock is held by a worker that left; every member is written exactly what was
broadcast since it joined, in one order; every request is answered.

### Connections

*State.* At each end a descriptor and the result of the last call; at the
reading end the internal buffer of the robust reader; in between, the socket.

*Operations.* `connect`, `send`, `receive`, `close`.  A message is a line,
`tag:data`, of at most `MAX_LEN` bytes.

*What is hard.* The socket takes and gives bytes in pieces of any size, which
have nothing to do with messages.  What is left in the reader's buffer belongs to
the next call.  The stream can end, or break, anywhere.  Nobody makes the other
end write messages: it may be any program.

*What makes it correct.* Whatever the pieces, the messages received are those
that were sent, in order and whole, and whatever the bytes, `receive` returns
lines of the stream that was written; nothing written stays behind in a buffer.

### Chat clients

*State.* Where the program is, and its connection.

*Operations.* The sender logs in and turns each line its user types into a
request, and waits for the answer.  The receiver logs in, joins a room, and
shows the deliveries that come.

*What is hard.* A client takes the next message it gets for the answer to its
last request; one path through the server that answers twice or not at all and
they are out of step for good, or wait for each other.  Texts may hold the
colons that separate the fields.  Lines may be too long to be sent, or only too
long to be delivered.  Either side may end at any moment.

*What makes it correct.* A client that waits has an answer to its last request
on the way to it, or that request on the way to the server, or a dead server;
what a user types in a room is what the receivers in it show, in one order.

### Parallel sort

*State.* The file, mapped into the memory of a tree of processes, one for each
region; the indices of `partition` in each process.

*Operations.* `quicksort` leaves short regions to `qsort`; it partitions the
others around the middle element, forks a child for each side and waits for
both.

*What is hard.* All processes write to one mapping.  `fork` and `waitpid` fail,
processes crash or are killed in the middle of a swap; the tree must neither
report success for a file that is not sorted nor leave processes behind.  The
indices are unsigned, and elements may be equal to the pivot.

*What makes it correct.* Processes that write have no slot in common; both
sides of a pivot stay where they are whatever the children do; exit status 0
means a sorted region with nobody at work in it; every run ends.

### Cache simulator

*State.* For each set of the cache its slots (tag, valid, dirty, timestamp), a
32-bit counter of accesses, and the totals that are printed.

*Operations.* Loads and stores of a trace, with write-allocate or not,
write-through or write-back, LRU or FIFO.

*What is hard.* Eight combinations of policies of which six are accepted; tag
and index are cut out of an address by shifts; recency is a counter; costs are
added up from a hit, a block, a word and a write-back.

*What makes it correct.* Whatever the trace, hits, misses, replacements and
cycles are those of a set-associative cache described without slots, tags and
timestamps.

### Fixed-point numbers

*State.* None of its own: numbers (a sign and two 32-bit halves) in variables
of the caller, whose pointers may be equal.

*Operations.* init, negate, add, sub, mul, compare, format and parse.

*What is hard.* Carries and borrows between halves; the flags that say which
bits were lost; zeros that have a sign; results written over operands; digits
trimmed by one function and shifted back by another; a parser that leaves to
`sscanf` what a number is, which takes more than digits.

*What makes it correct.* Agreement with exact arithmetic on the numbers
represented, a format that parsing undoes, and a parser that takes little else.

### Image program

*State.* The input and the output image in memory: arrays of words, one for each
pixel.

*Operations.* Read a PNG file, transform the image (complement, transpose,
ellipse, emboss), write a PNG file.  The transformations exist twice, in C and
in assembly.

*What is hard.* Colors are bytes of a file and bits of a word, in one of two
orders; files may have no alpha; rows and columns are indexes into one array;
the ellipse divides by integer halves of the size, in ints; emboss chooses
between differences of one size.  Each call for memory or to write may fail, and
not every result is looked at.

*What makes it correct.* Each byte of the output file is the one that
`imgproc.h` says it is for the bytes of the input file, if no call failed; the
program refuses what it should and writes nothing then.

### How the parts interact

Only the parts of the chat system do.  Workers call `Room` and `MessageQueue`
and meet in them through locks, semaphores and shared objects; clients and
workers talk through connections.  Each part is specified in full in a module of
its own and used in the others through what that module shows it to be: to
`ChatServer`, `MessageQueue` is a FIFO queue; to `ChatSession`, each direction of
a connection is a queue of messages with an end, and what goes on between the
workers is a broadcast to rooms, as `ChatServer` shows.  The other programs
stand alone.

## Modules and the code

A definition marked `Bug:` in a comment is no part of a model.  It is a faulty
variant of the definition that follows it, kept to see that the properties
notice: `PROJECT.json` ("mutants") says which property notices which.

### `MessageQueue`, `FifoQueue`, `MCMessageQueue`, `MessageQueueProofs`

`MessageQueue` is `message_queue.cpp` with one action for each line that
another thread can come between.

| Action | Code |
|---|---|
| `Call`, `Lock`, `Push`, `Unlock`, `Post` | `enqueue`: entry, lock, `push_back`, unlock, `sem_post` |
| `Wait`, `TimeOut`, `Claim` | `dequeue`: deadline and `sem_timedwait`, which fails or takes one |
| `Lock`, `Pop`, `Unlock` | `dequeue`: lock, `front` and `pop_front` (with the assertion), unlock |

`sent` and `got` record what went in and out; they are the state of
`FifoQueue`, the abstract queue that `MessageQueue` implements.

### `ChatServer`, `ChatProperties`, `RoomBroadcast`, `MCChatServer`, `ChatProofs`

`ChatServer` is one worker per connection.  `pc` says what a worker does next;
the shared variables are those of the code (`m_rooms`, `m_lock`, `members`,
`lock`, `queue`, `avail`), `user` says whether a User exists.

| Actions | Code |
|---|---|
| `Accept`, `Login`, `LoginFails` | `handle_client_requests`, start of `worker` |
| `ReceiverJoins`, `ReceiverRefused`, `JoinOk` | the receiver's part of `worker`, with its error paths |
| `FindLock`, `FindMisses`, `FindReturns`, `Create` | `find_or_create_room` under its Guard |
| `AddMember`, `RemoveMember` | `Room::add_member`, `remove_member` under their Guards |
| `Dequeue`, `Deliver`, `DeliverFails` | the loop of `chat_with_receiver` |
| `SenderJoins`, `SenderLeaves`, `SendAll`, `Refuse`, `Quit`, `Reply`, `EndOfInput` | `chat_with_sender` |
| `BroadcastLock`, `BroadcastNext`, `BroadcastPush`, `BroadcastPost`, `BroadcastUnlock` | `broadcast_message` and the `enqueue` it calls |
| `Delete` | the end of `worker` and the destructors |
| `Disconnect` | the client, which may close its connection at any time |

A critical section in which a thread touches nothing else that is shared is one
step, guarded by its lock (`AddMember`, `RemoveMember`, the queue's own
sections, which `MessageQueue` justifies); those of `find_or_create_room` and
`broadcast_message` are several steps, since other threads act in between.  In
`enqueue` the push and the post stay apart: between them the receiver may
already be dropped.  Messages are a sender and a text; a text is deliverable or
too long (`Overlong`), names of users and wordings of replies are left out.
`pthread_create` may fail without anybody noticing (`orphan`).

`RoomBroadcast` is the server as clients see it: a log for each room, and
receivers that are sent the log from where they joined.  The mapping is in
`ChatProperties`: `AddMember` is its `Join`, `BroadcastLock` its `Publish`,
`Deliver` its `Deliver`, and the step at which a worker gives up on a receiver
(`JoinOk` failing, `DeliverFails`) its `Leave`; every other step is invisible.
The history variables `log`, `joined` and `wire` are there for this.

### `ParallelSort`, `SortProperties`, `MCParallelSort`, `SortProofs`

A process is named by the region it sorts.  That no region is sorted twice is
not assumed but checked and proved (`EachRegionOnce`).  One step is one turn of
the loop of `partition`, or one `qsort`, `fork` or `waitpid`.

| Actions | Code |
|---|---|
| `Mapped`, `NotMapped` | `main` up to `quicksort` |
| `Trivial`, `Sequential`, `Qsort` | the base cases of `quicksort` |
| `Partition`, `ExtendLeft`, `ExtendRight`, `Exchange`, `PlacePivot`, `Crash` | `partition`; `Crash` is the read at `ULONG_MAX`, where the page before the mapping is taken to be unmapped |
| `ForkLeft`, `ForkRight`, `WaitLone`, `WaitLeft`, `WaitRight` | the rest of `quicksort` |
| `ForkLeftFails`, `ForkRightFails`, `WaitFails` | their error paths |
| `KillAtRest`, `KillInSwap`, `KillInQsort` | death from outside, also half way through a swap or in `qsort` |

`qsort` and the kernel are external: `qsort` leaves its region in order, or any
mixture of its elements if killed.

### `Connection`, `MessageFormat`, `LineStream`, `MCConnection`, `ConnectionProofs`

`MessageFormat` has what a message is as a line and what `receive` makes of a
line.  Bytes are the four the code looks at (colon, newline, carriage return,
NUL) and others.  `Connection` is one direction of a connection.

| Actions | Code |
|---|---|
| `Connect` | `open_clientfd`, `accept`, `rio_readinitb` |
| `SendRefuses`, `SendStarts` | `send` up to `rio_writen` |
| `Write`, `WriteFails` | one turn of the loop of `rio_writen`, and what `send` makes of its result |
| `WriterEnds`, `ReaderCloses` | `close`, or the end of a process |
| `CallReceive` | the beginning of `receive` |
| `Refill`, `TakeByte` | `rio_read` with an empty and a full buffer, the loop of `rio_readlineb`, and after its last turn the rest of `receive` |
| `ReadsEnd`, `ReadFails` | `read` returns 0 or -1 |
| `OtherWrites`, `Reset` | another program in the place of `send`; the network |

What a socket does is external: it holds `Room` bytes, takes any number that fit
and gives what it has; bytes to a closed end break it; a reset loses what was not
read.

`LineStream` is the same without sockets and buffers: a sequence of bytes of which
each call takes one line.  The bytes of the line being read, of the reader's
buffer and of the socket, one after the other, are its sequence.

### `ChatSession`, `MCChatSession`, `ChatSessionProofs`

The two clients, and for each connection the server's side of the conversation.
A connection is two queues of messages, `up` and `down`, and its ends may be
closed (`copen`, `sopen`).

| Actions | Code |
|---|---|
| `ConnectFails`, `Connects` | the clients up to their login |
| `Refused`, `ReceiverJoins`, `Answered`, `Unanswered` | what they do with an answer |
| `TypesNothing`, `Requests`, `RequestFails`, `EndOfInput` | the loop of the sender, for a line of `Typed` |
| `Shows`, `Ends` | the loop of the receiver |
| `Accepts`, `LoginRefused`, `LoggedIn`, `ReceiverRefused`, `ReceiverJoined` | `handle_client_requests`, `worker` |
| `Said`, `SenderJoined`, `Left`, `RequestRefused`, `QuitAnswered` | `chat_with_sender`, one action for a request and its answer |
| `Delivers`, `Drops` | `chat_with_receiver` |
| `ReadsEnd` | end of file where the worker waits for a request |
| `Killed`, `Dies` | a signal that ends a client or the server |

Texts are sequences of words and `MAX_LEN` counts words, so that a line can be
short enough, too long to be delivered, or too long to be sent.  `Command` is
what the sender makes of a line, `Parsed` what the receiver makes of a delivery.
That what is shown is what was said is `RoomBroadcast` once more, with what is
on the screens in the place of what is on the wires.

### `CacheSim`, `ReferenceCache`, `CacheProofs`

`CacheSim` is `accessCache` and the loop of `main`: `Hit`, `StoreBypasses` and
`Allocate` are the three ways through an access, each with its counters and
cycles.  `Accepted` is what `main` does not refuse.  Integers have `Word`
values: the counter of accesses wraps, costs are truncated, and a shift by all
the bits of a word is by none.  `now` and `used` are history.

`ReferenceCache` knows block numbers, an order of replacement and a set of
blocks that memory has an old copy of.  Under the mapping a block is its tag
and index put together again, the order is that of `used`, and the cycles are
those of `main`, which the reference takes from accesses and words moved.
`ImplementsReference` asks of each access to an address that it is the reference's
access to the block that address lies in.

### `FixPoint`, `FixHex`, `FixPointProofs`

`FixPoint` is a caller with a few variables that calls the operations in any
order with any pointers (`GoesOn` is its step from one call to the next).  An operation
maps memory to memory, writing in the order the code writes, so that a result
that is an operand behaves as in C: `fixpoint_add` computes a sum of equal signs twice, and `AddAlike` has both.
`Base` stands for 2^32.

`FixHex` is `fixpoint_format_hex` and `fixpoint_parse_hex`.  A text is what the
parser finds in a string: the minus sign, a side before and a side after the
point, each with what `sscanf("%x")` takes there (white space, a plus sign, `0x`,
digits), whether there is a point, whether the white space begins with a space,
for which the parser looks, and whether anything follows (`rest`).  Every string
is of this form; only the case of letters is left out.  What `sscanf` takes is
counted in characters (`NumRead`), as `%n` does, and what it skipped therefore
shifts the digits after the point (`FracOf`).  `PrefixIsZero` says whether `0x`
without digits is taken for 0, which C libraries differ in.
`Radix` stands for 16 and `Width` for 8.  `FixPointProofs` is about both modules.

### `ImageProgram`, `ImageProofs`, `MCPrograms`, `MCFixZero`

`ImageProgram` is `main` with its calls: `Read`, `Create`, `Apply` and `WriteImage`,
each with the ways it fails, and `Crashes` for the division by zero.  Writing
fails in four ways, of which `main` notices two: the file cannot be opened
(`OpenFails`), or there is no memory for the swapped words (`CopyFails`).
`pnglite.c` looks neither at the memory it asks for (`WriteCrashes`) nor at
what `compress`, `fwrite` and `fclose` return: then the file is `Damaged` and
the program a success (`WriteFallsShort`).  `fault` notes that a call
failed.  Pixels are
words of four bytes of `Byte` values; `Load` and `Store` say what a word is in
memory on a machine of either order, and `byteswap` is defined with them as the
code is.  ints have `IntWord` values.  The functions of the assembly build are
defined beside those in C; where they do the same to the same values they are
defined by them, where they compute in another order (the products of the
ellipse, the choice of the difference in emboss) in that order.

`MCPrograms` puts the sequential programs, `CacheSim`, `ImageProgram`, `FixPoint`
and `FixHex`, into one instance for TLC.  They share nothing: a behaviour is one
of them at work while the variables of the others rest.  It extends the four
modules, so that the properties it checks are the ones the theorems are about.
`MCFixZero` is `FixPoint` with a caller that adds only into a variable that is no operand.

## Runs and bounds

| Run | Instance | What it shows |
|---|---|---|
| `queue` | 2 producers, 2 consumers, 2 messages, 4 enqueues | mutual exclusion; the semaphore's account; a FIFO queue; calls return |
| `chat_rooms` | 3 connections, 2 names, 2 requests | one object per name, exact membership, no leaked lock |
| `chat_streams` | 3 connections, 1 name, 2 texts, 3 requests | no use after free; exact streams; implements `RoomBroadcast` |
| `chat_live` | 3 connections in a busy room, 2 more requests, fair | requests answered, members served or dropped, Users freed |
| `chat_overlong` | 2 connections | *violated:* only receivers that are gone are dropped |
| `chat_idle` | 2 connections, fair | *violated:* a receiver that is gone is removed |
| `conn` | messages of 3, 4 and 5 bytes where 4 fit, 3 sends, or 5 bytes of any other program; buffers of 2 and 3 bytes; fair | messages received are those sent; implements `LineStream`; what is sent arrives |
| `session` | a sender, a receiver, 9 lines to type, 3 typed, fair | requests and answers stay paired; what is typed is shown; nobody waits forever |
| `sort` | 4 elements of 3 values, thresholds 1 and 2, 2 faults, fair | disjoint writers, lasting partitions, honest success, nobody left, termination |
| `sort_fails` | 3 elements | *violated:* sorting fails only if a system call does |
| `programs` | caches of up to 8 sets and 8 slots, 5 accesses to 4 addresses; images to 7 by 7 in both builds; 3 numbers with halves below 3; texts of 3 characters a side and one too many | the cache implements `ReferenceCache`; images as documented; exact arithmetic; what is formatted is parsed back, and what else is parsed is of named forms |
| `fix_zero` | 2 variables, halves below 4, sums into a variable that is no operand | *violated:* a negated zero is not negative |

*Chat.* `MaxRequests` bounds joins and sendalls, the only requests that use a
room; refused requests, leaving and quitting are not bounded.  Three
connections are the least with two broadcasters and a member, or a broadcaster
and two members; three requests let a sender join and broadcast twice, or two
senders join and one broadcast.  A second name is needed only to show that
rooms do not mix (`chat_rooms`).  `chat_live` starts from a state that a few
steps lead to (`BusyInit`: a receiver waits in a room, two senders joined it by
the first two of four requests), which has all the contention there is at a
fraction of the states.  Workers are interchangeable, so the runs without
liveness use symmetry.

*Queue.* Four enqueues by two threads are enough for any two of them to overlap
with any two dequeues.  The server has one consumer per queue; two of them are
harder on the semaphore.

*Connection.* With `MAX_LEN` 4 the messages `a:`, `a::` and `a:a:` have lines that
are shorter than the longest, just as long, and too long to be sent; a piece of
two bytes splits each of them, and the socket holds less than one line and the
beginning of the next.  The other program writes all sequences of up to five of
the bytes the code looks at and one more, so that a line too long for the
buffer is followed by its rest.  `CHECK_DEADLOCK FALSE` because a closed
connection stays closed.

*Session.* `MAX_LEN` is 9 words, counting the colons and the newline: of the three
texts among the lines one is delivered, one can be sent and not delivered, one
cannot be sent.  The other lines are each command with blanks around it, a join
of a room with a bad name and with no name, and nothing.  Three lines let a
sender join and say two things, or say something without a room, join and leave.
One sender is enough for the questions asked here, which are each about one
client and its worker; senders that compete for a room are in `ChatServer`, and
two of them here take more than the time there is.

*Sort.* Four elements down to one make a tree of three levels with uneven
sides; three values allow elements less than, equal to and greater than the
pivot.  Two faults make one happen while the tree deals with another.
`MaxUlong` is 99: all that matters is that it is no index.

*Images.* With 4 values for a byte, images of two rows and columns have every
difference of each color, all ties between them, and sums that are clamped at both
ends; images of one row or column, and of even and odd sizes, square and not,
have every case of the geometry.  An int has 256 values and 10 stands for
10000, so that the image of 7 by 7 has products that overflow.

*Cache.* The sizes are 0 to 3 and 8, so that there are sizes `main` refuses, sets
of one and two slots that are full and replace, and blocks of two words: 0 and
4 are two words of one block, 8 and 16 are other blocks, in the same set or
another.  A set of one or two slots has several replacements and write-backs in
five accesses; one of eight never fills.  `Word` is out of reach
in this run (`MaxAccesses < Word` and sets times block size below it), so what
it shows holds of traces below 2^32 accesses and caches below 4 GB.

*Fixed point.* The algorithms treat a half as a digit of base `Base`; a base of
3 has carries, borrows and the digits 0, 1 and greatest.  All sequences of
calls are covered, since the number of values is finite and nothing bounds the
calls.  `fix_zero` takes only calls whose result is no operand, since the tests
of the library make no others (`MCFixZero`).  As text, numbers have all digits
there are, and texts every combination of white space, plus sign, `0x` and digits
of up to one character a side more than is allowed; more of them are refused for
the same reason.

`CHECK_DEADLOCK FALSE` in `programs`: programs end.  Elsewhere: the chat server
may wait for clients for ever, and clients and server end.

## Fairness

*Queue.* A thread inside `enqueue` or `dequeue` that can take a step eventually
does; a consumer calls `dequeue` again, as `chat_with_receiver` does.  Producers
need not call.  No fairness of the mutex is assumed: the enqueues are finite in
number, so a waiter is overtaken finitely often.

*Chat.* Weak fairness of `Run(w)`, the steps of a worker that do not wait for a
client to say something.  Strong fairness of `EndOfInput(w)`: what a client sent
before it closed its end is finite, and after it the worker reads end of file.
Nothing is assumed of requests: a client may stay silent for ever.  Clients are
assumed to read what they are sent; the code has no time-out for those that do
not.

*Connection.* Weak fairness of the writer's loop (`WriteSome`) and of the reader's
steps, which include the next call of `receive`: both clients and
`chat_with_sender` read again after each message.  Neither is fair to end, to
reset or to send.

*Session.* Weak fairness of what a client does with a message or with the end of
its connection (`Hears`, `RunsReceiver`), and of each worker's steps.  Nobody has
to connect, to type or to be killed.

*Sort.* Weak fairness of each process's own steps.  Faults are never fair.

## Proofs

| Module | Theorems | For all |
|---|---|---|
| `MessageQueueProofs` | `TypeCorrect`, `Exclusion`, `SemaphoreCorrect`, `AssertionHolds`, `QueueImplementsFifo` | finite sets of threads, messages, numbers of calls |
| `ChatProofs` | `TypeCorrect`, `RoomsAreUnique`, `MembershipCorrect`, `RoomLockCorrect`, `SemaphoresCorrect`, `BroadcastsAreSafe`, `StreamsCorrect`, `ServerImplementsRoomBroadcast` | finite sets of connections, names, texts, numbers of requests |
| `ConnectionProofs` | `TypeCorrect`, `ImplementsStream`, `SendsArrive` | sets of bytes, plain messages, `MAX_LEN`, sizes of the buffers, numbers of sends |
| `ChatSessionProofs` | `StaysInLockstep`, `ShownIsSaid` | sets of clients, lines that are typed, `MAX_LEN`, numbers of requests |
| `FixPointProofs` | `SumsAreExact`, `ProductsAreExact`, `ComparisonsAreExact` | bases from 2, sets of variables, numbers of calls |
| | `FormattedTextsAreParsed`, `ParsedTextsAreFormatted` | radices from 2, numbers of digits, numbers and texts |
| `CacheProofs` | `TypeCorrect`, `OneSlot`, `SimulatesReference` | words, sizes, policies and traces |
| `ImageProofs` | `WrittenAsDocumented`, `FailuresAsDocumented` | sizes of images, values of components and ints, both builds, both byte orders |
| `SortProofs` | `TypeCorrect`, `WritersAreDisjoint`, `RegionsOnce`, `PartitionCorrect`, `SuccessIsSorted`, `ElementsKept`, `NoneLeftBehind` | files, thresholds, numbers of faults |

The assumptions are the `ASSUME`s of the modules, which TLC evaluates in the
runs: sets of threads are finite and disjoint, `Null` and `Free` are none of
the things they stand beside, a file is not empty and not longer than
`ULONG_MAX`, buffers hold at least one byte, and the messages that are sent are
`Plain`: they have no newline or NUL, no colon in the tag, and do not end in a
carriage return.  Of the clients it is assumed that `Colon` is no letter or digit
and `Nowhere` no room (`NamesAssumption`), and that `RoomNames` has the rooms that
the lines in `Typed` join (`TypedAssumption`).  Of the fixed-point library it is
assumed that a half has at least two values, and that the local variable of
`fixpoint_sub` is none of the caller's; of its texts that a radix is at least 2 and
a half has at least one digit (`HexAssumption`), whatever the library makes of `0x`.  Of the image program it is assumed
that an image has at least one pixel and each of them all of its components, and
that twice the scale of the ellipse (20000 in the code) is less than the bound of an
int (`ImageAssumption`).

Two theorems are about less than every behaviour.  `SimulatesReference` is about
those whose states are all `Ordinary`: the policies are ones that `main` knows,
and neither the counter of accesses nor a cost nor a shift exceeds an int; all
behaviours of `programs` are.  Beyond it the simulator is no cache, see
[below](#where-code-and-documentation-part).
`WritesAsDocumented` is about runs in which no call failed, and ellipses whose
products fit an int (`IsSmall`; in the code up to 927 pixels), and says so itself.

*Queue.* The invariant is mutual exclusion, the account of the semaphore, and
that `sent` is `got` followed by the deque.  The account is what keeps the
assertion: a thread at `pop` is itself one of the claimed, so the deque is not
empty.  It needs that adding a thread to, or removing it from, the sets of
unposted and claimed changes a cardinality by one.

*Chat, safety.* `NoUseAfterFree` is not inductive.  `Inv` adds: a User is live
exactly between login and `Delete` (`UserExact`), arguments are there when they
are used, the map's lock is held exactly in `find_or_create_room` (`MapExact`),
membership and the room's lock are exact, and the member a broadcaster stands
at is a member of the room it has locked (`CursorIsMember`).  A member cannot
get past `RemoveMember` while the room is locked, and only after that is it
deleted.  `RoomUnique` follows because a map that is locked does not change
between lookup and insertion.

*Chat, streams.* `StreamExact` needs besides that a message is in the hand only
between `Dequeue` and the write, that a broadcast has appended its message to
the log and to the queues of exactly the members visited, that nothing was
written to a connection before it joined, and that no log is shorter than where
a member joined it.  The same invariant gives the step-by-step refinement of
`RoomBroadcast`: what `Deliver` writes is the next entry of the log.

*Connection, stream.* The invariant is that of types, with two facts about what is
being read: no byte of `line` is a newline and it is shorter than the longest
line (`LineInv`), and nothing is on its way while there is no connection
(`PipeInv`).  Then the bytes of `line`, `unread` and `pipe` in a row are changed
only at their ends: a write grows them, a refill leaves them as they are, and
the byte that completes a line takes exactly that line away.

*Connection, messages.* That what comes out is what was put in is not about those
bytes alone.  The invariant `SentInv` says of each byte on its way which byte of
which message it is: the bytes not received yet are the rest of the lines of the
messages not received yet, the last one without what `rio_writen` has still to
write, and what is being read is the beginning of the first of them.  Each of
those lines has its only newline at its end and fits in the buffer, so
`rio_readlineb` returns just where a line ends, and what `receive` makes of the
line of a plain message is that message.

*Session.* A client and its worker are tied by what is on its way between them
(`Paired`).  While the client waits, either its request is there alone, and the
worker is where it reads such a request (`Pending`), or the answer is there, and
the worker is where that answer sends it (`Answering`, `Follows`): without that
the next request would be read in the wrong place, or by nobody.  A receiver
that joins may have messages behind the answer, and they do not come before it
(`AppendsBehind`).  When the server dies it loses what it wrote only to clients
whose request it had not read, and these have no answer on its way.

*Session, screens.* `ShownAsSaid` is a refinement of `RoomBroadcast`, with the
screens in the place of the wires.  `RoomInv` adds to the invariant where the
room and the stream of each receiver are: what it was shown, what is on its way
behind the answer to its join, and what is queued for it are in a row the log of its
room from where it joined (`StreamAt`, `JoinExact`).  A delivery is parsed into the
sender and the text it was made of (`ParsedDelivery`), since names that were
accepted have no colon in them.

*Fixed point.* That numbers stay numbers is all the invariant needs.  The work is
in the halves: `SumOfHalves` and `DifferenceOfHalves` give carry and borrow,
`ProductOfHalves` and `MiddleDigits` the middle of a product from four products
of halves, and all come down to the uniqueness of quotient and rest
(`DivModUnique`).  `AddAlikeSums` needs the result to be no operand, since the
sum is computed again from what was written; the others allow it.

*Numbers as texts.* The number that some digits stand for is reached digit by digit
(`Horner`).  All the digits of a half give back the half (`NumberOfDigits`);
zeros in front of digits do not change their number (`LeadingZeros`,
`ZerosBeforeCountNothing`, by which characters that were skipped count as
zeros in front of the digits after the point), and those that
were taken from the end of a fraction are what its shift by the missing digits
puts back (`TrailingZeros`).  The other way, digits of a number are unique, so a
text that has no zeros too many is the one that is formatted
(`WholeIsFormatted`, `FracIsFormatted`).  Each is an induction over the number of
digits.  The induction theorem of the library is out of the prover's reach, but
its instance for sets is not: a set with 0 in it that has with each number the
next has them all (`Induction`), because there is no least exception
(`LeastElement`, from `WFMin`).  The invariant `HexInv` is that of types, and that an
accepted text and the number are each other's.

*Sort.* `Laminar` is the heart of the invariant: the regions of two processes
are apart, or one lies in one side of the other's pivot, and then the other
writes no more.  With it a step of one process leaves alone what the invariant
says of every other, but for its ancestors, whose partitions are kept because
elements move only within one side (`PartitionHolds`).  `LoopExact` says what
the two indices of `partition` delimit, the wrapped one included; `MidInside`
that the pivot is in its region; `LeftExact` that a success noted of a child is
its exit status; `CalmExited` that without kills and failures of `waitpid` a
process exits after its children; `SuccessMeansSorted` is inductive with these.
`SuccessKeepsElements` is not: a process killed in a swap doubles an element, and
only later its ancestors fail for it.  `KeepsElements` says that nothing is lost
unless somebody was killed, `AllSucceeded` that below a process that succeeded
nobody was.  A swap or a `qsort` of a region rearranges the array
(`RegionRearranges`), and rearrangements compose (`RearrangesTwice`).

*Cache.* `TypeOK` says that every set has a slot; it holds because `main` refuses
sizes that are not powers of two, and is inductive because remainders and
quotients stay in range (`Quotient`, `WhereItGoes`) and a least timestamp exists
(`NatHasMin`).  With it `OneSlotPerBlock` is inductive: a hit keeps the tag, a
miss brings in a tag no slot of the set has.  The refinement needs two facts more
(`RefInv`): timestamps are the times of last use (`StampsExact`), and only a
cache that writes back has dirty slots (`DirtyWritesBack`).  Tag and index of a
slot make up its block again (`BlockOfSlot`), so the blocks of a set that are in
the cache are as many as its valid slots, and a set is full for the code just
when it is for the reference (`RivalsFillPlaces`).  Each access to an address is
the reference's access to its block.

*Images.* `ImageInv` says what the images in memory are at each step of `main`,
the one that was read in terms of the file (`PixelsAreStored`).  What the theorems
come down to is that a word and its four components determine each other
(`ComponentsOfWord`), however the machine stores it, and that the geometry is the
documented one: `LargestIsFirst` for the choice of emboss among its differences,
`TermIsExact` for the ellipse, whose products and quotients do not overflow in
a small image, `ZeroRadius` for where it divides by zero.

*Only model-checked.* Liveness, which the prover does not reach: `EverythingComesOut`,
`CallsReturn`, `RequestsAnswered`, `DroppedIsFreed`, `GoneSenderIsFreed`,
`OwedIsSentOrDropped`, `SentIsReceived`, `SaidIsShown`, `AnswersCome`,
`Terminates`.  Every safety property of a passing run is proved.

## Where code and documentation part

Four disagreements are runs of the project (see "findings" in `PROJECT.json`):

- a text that makes a delivery longer than `MAX_LEN` drops every member of the
  room (`chat_overlong`; `server.cpp:61`);
- a receiver that leaves a silent room is never removed (`chat_idle`;
  `server.cpp:57`);
- a file in which nothing is less than the middle element crashes `partition`,
  though no system call fails (`sort_fails`; `parsort.c:166`);
- a sum of two negative numbers that overflows to 0, as -2.0 + -2.0 does with
  halves below 4, keeps its minus sign, and `fixpoint_negate` leaves it
  (`fix_zero`; `fixpoint.c:174`).

Others were met while modelling and are in the models, not in runs of their
own:

- `fixpoint_add` of two numbers of one sign written over one of them adds twice
  (`fixpoint.c:174-178`); `SumExact` names this exception;
- `fixpoint_parse_hex` should accept only what `fixpoint_format_hex` writes
  (`fixpoint.h:180-205`), but takes sides without digits (`.8`, `1.`), zeros behind
  a minus sign (`-00.8`), and whatever `sscanf` does: `+1.0`, `-0x1.0`, a tab before
  the number, `1.0x`; `1. 5` and `1.+5` are read as 1.05, since the skipped character
  counts in the shift (`fixpoint.c:415`, `454`).  Upper-case digits are taken too.
  `ParsesNearlyFormatted` names these forms, but for the case of letters, and
  excludes all others;
- a write that fails on a full disk is not noticed (`pnglite.c:321-326`, `478-510`,
  `808-834`): `img_write` returns `IMG_SUCCESS`, against `image.h:58-60`,
  `IMG_ERR_COULD_NOT_WRITE` is never returned, and the program exits with 0 and
  leaves a damaged file.  `WritesAsDocumented` names this exception (`fault`);
- `compareAbsoluteVal` returns 1 for a bigger first number, `fixpoint.h:134`
  says -1;
- the timestamp of the cache wraps after 2^32 accesses (`main.cpp:67`), sets
  times block size of 2^32 or more make the shift of `main.cpp:73` one by fewer
  bits than meant, and the cost of a block of 2^28 bytes or more is truncated;
- a store policy other than the two known names is accepted, and then stores
  cost nothing (`main.cpp:191`);
- the check for lines that are too long in `connection.cpp:109-114` can never
  be true: such a line is received in pieces, each as a message of its own, which
  `LineStream` says;
- a message that was cut off by the death of its writer is received as if it were
  whole (`csapp.c:893`); `ReceivedAsSent` names this exception;
- when no thread can be created for a connection (`server.cpp:354`), its client
  waits for an answer forever; `AnswersCome` names this exception;
- the check for a room without a name in `sender.cpp:100` can never be true, since
  the line was trimmed before: `/join` alone is a text, and is said in the room;
- a line that is too long to be sent ends the sender (`sender.cpp:115-118`);
- a receiver that the server gave up ends with exit status 0, as if nothing had
  happened (`receiver.cpp:86-88`);
- the ellipse of an image one pixel wide or high divides by zero, and from 928
  pixels on its products overflow (`c_imgproc_fns.c:177`); `FailsAsDocumented` and
  `WritesAsDocumented` name these;
- `img_read` does not look whether it got memory (`image.c:61`, `66`).

## What is not modelled

- *csapp:* what the chat programs do not use, and `open_listenfd`.
- *pnglite, tctest:* third-party code.  What pnglite gives and takes is in
  `Read` and `WriteImage` of `ImageProgram`, and that it looks at no result when it
  writes in `WriteCrashes` and `WriteFallsShort`; how pixels are encoded in a file is
  left out.  So is what is in a file that fell short: it is `Damaged`.
- *The case of letters in texts of numbers:* the parser takes both.
- *What lies before the mapping in `parsort`:* `Crash` takes it to be unmapped.
- *Command lines, messages, opening sockets and files:* plain I/O, no state to
  check.  The failure of `open`, `fstat` and `mmap` in `parsort` is
  there (`NotMapped`).
- *Names of users and texts of replies:* left out of `ChatServer`, where no property
  depends on them; `ChatSession` has both.
- *Registers and the stack of the assembly functions:* their values are followed,
  where they are kept is not; so not modelled is that `imgproc_complement` does
  not restore `%rbx` for its caller (`asm_imgproc_fns.S:228`).
- *Programs other than the two clients:* they are in `Connection` (`OtherWrites`) and
  `ChatServer` (any request at any time), not in `ChatSession`.
- *Stalled clients:* one that stays connected and never reads blocks its worker in
  `write` for ever; the code has no answer to this, and nothing could be said of
  it.  The clients of the repository read all they are sent.
- *`seqsort`, `is_sorted`, `gen_rand_data`, tests:* a library call, a linear scan, a
  random generator, and what is read as documentation.

## Plan

The order is by how hard the code is to get right, and to test.

1. Chat server: message queue, workers and rooms, refinement of `RoomBroadcast`;
   proofs of both.  *Done.*
2. Parallel sort and its proofs.  *Done.*
3. Connections: a byte stream cut into messages, against `LineStream`; proofs of
   both.  *Done.*
4. The clients at work with the server, and proofs of `Lockstep` and `ShownAsSaid`.
   *Done.*
5. Cache simulator against a reference cache; fixed-point numbers; image program;
   proofs of what is checked of them.  *Done.*
6. What is left: the safety steps that the liveness properties rest on (which waits
   can end, and by whose step), as far as they can be said without fairness.
