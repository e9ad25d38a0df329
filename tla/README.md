# A TLA+ model of terraqtt

terraqtt is a header-only MQTT 3.1.1 client. It has no threads and no event loop of its own: the caller owns two
streams, calls `process_one` when bytes may have arrived, `update_state` now and then, and `publish`, `subscribe` and
so on when it has something to say. What is hard in it is resumption. `process_one(ec, available)` may be called when
any prefix of a packet is there, has to stop exactly at the last available byte, and has to go on from there at the
next call, having remembered everything in a dozen scalar members.

The other half is plainer, but its parts share more than a reader of one of them sees: an output stream that may break
inside a packet, an `error_code` that the caller, the handler and the writers hand on to each other, a header object
that lives in the storage of the one before, a stream buffer over another's bytes.

This directory models both halves, the keep-alive timers, and a session of the example client that puts them together. Paths below are relative to `src/terraqtt/` unless they start elsewhere.

## Inventory

| Part | State | Operations | What makes it correct |
|---|---|---|---|
| `Basic_client`, receiving (`client.hpp`) | `_read_context`, `_read_type`, `_read_header`, `_read_ignore`, `_overread`, the input stream's position and state | `process_one`, `_skip_ignored`, `_clear_read`, nine `_handle_...` | any division of the bytes into calls gives the same callbacks; takes no more than offered; a packet is finished in the header object begun for it; nothing is left over between packets; a payload not read is skipped exactly |
| protocol readers (`protocol/reader.hpp`, `read_packet` in `connection`, `publishing`, `subscription`, `ping`) | none of their own, they advance a `Read_context` (`protocol/general.hpp`) | `peek_type`, four `read_element`, `read_blob`, nine `read_packet` | inverse of the writers; the remaining length is never exceeded; arithmetic does not overflow |
| protocol writers (`protocol/writer.hpp`, `write_packet`) | none | `write_elements`, `write_blob`, ten `write_packet` | well-formed packets; nothing is written if the packet cannot be |
| `Basic_client`, sending (`client.hpp`) | `_output`, `keep_alive` | `connect`, `publish`, `subscribe`, `unsubscribe`, `ping`, `disconnect`, `update_state`, destructor | whole packets on the stream; the keep-alive contract with the broker |
| `Keep_aliver` (`keep_aliver.hpp`) | `_timeout`, `_next_ping`, `_ping_timeout` | `reset`, `complete`, `start_ping_timeout`, `needs_ping`, `timed_out` | a ping in every interval; a silent broker is found out; no timeout without cause |
| `Constrained_streambuf` (`detail/`) | `_remaining`, a one-byte buffer | `underflow`, `release` | the handler sees exactly the payload; `release` says what is left in the parent |
| `Variant` (`variant.hpp`) | `_index`, storage | `emplace`, `get`, `clear`, destructor | `get` agrees with the last `emplace`; every object is destroyed once |
| `Static_container` | `_size`, storage | `push_back`, `max_size`, `empty`, `pop_back`, `resize` | never more than `max_size` elements |
| `String_view`, `log.hpp`, `config.hpp` | none that changes | | |
| `examples/lightweight.cpp` | the `error_code` of a round | the polling loop, `on_publish` | each publication of QoS 1 is acknowledged once, in order |

Interaction: `process_one` calls a `read_packet` on `_read_context` and the header in `_read_header`; when it is
complete it clears the context and makes a virtual call (`on_publish`, ...). `on_publish` gets a
`Constrained_streambuf` over the same input stream, reads what it likes and returns; what it left is counted in
`_read_ignore` and skipped by this and later calls. PINGRESP is the only packet that changes another part: it stops
the ping timeout of `keep_alive`. `update_state` reads the timers and may write a PINGREQ. The example's `on_publish`
calls back into the sending half: it publishes, and it writes a PUBACK, both with the `error_code` of the call of
`process_one` it runs in. Every write tests that `error_code` first and does nothing if it is set. `disconnect`, which
the destructor calls too, lets go of the output stream.

## Modules

| Module | Models | |
|---|---|---|
| `General` | `protocol/general.hpp`, `error.hpp`, members of `Basic_client` | types, and the record of everything the client remembers about its input |
| `Reader` | `protocol/reader.hpp` | each read operation as an operator from state to state |
| `Packets` | the `read_packet` functions | the same |
| `Client` | `process_one` | a state machine with one action, `ProcessOne(available, handler)`, on arbitrary bytes |
| `Writer` | `protocol/writer.hpp`, `write_packet` | packets as byte sequences |
| `PacketFeed` | | the abstract specification of a receiver: each packet sent becomes one callback, in order, and all do |
| `Feed` | `Client` on the bytes of a broker's packets, polled | refines `PacketFeed` |
| `Element` | one integer through writer and reader | the reader inverts the writer |
| `KeepAlive` | `keep_aliver.hpp`, `connect`, `ping`, `update_state`, `_handle_pingresp` | the timers against a clock |
| `Output` | the `write_packet` functions, `protected_add`, `disconnect` | every sending call on an output stream that may break after any byte |
| `Session` | `Output` under `examples/lightweight.cpp`, with `variant.hpp`, `static_container.hpp`, `detail/constrained_streambuf.hpp` | a state machine: the loop, the handler step by step, calls of the application in between, `disconnect` and the destructor |
| `MCClient`, `MCFeed`, `MCElement`, `MCSession` | | instances for TLC |
| `Reader_proofs`, `Packets_proofs`, `Client_proofs` | | theorems about `Client` and the readers it calls, checked by TLAPS |
| `Element_proofs` | | theorems about `Element`: a writer and a reader, checked by TLAPS |
| `Feed_proofs` | | theorems about `Feed`: the client on a broker's packets, and the refinement, checked by TLAPS |
| `KeepAlive_proofs` | | theorems about `KeepAlive`, checked by TLAPS |
| `Output_proofs`, `Session_proofs` | | theorems about `Output` and `Session`, checked by TLAPS |

State. `client` is one record, because the code is one object handed from function to function: a read operation is an
operator `Read...(r)` that returns the record it leaves. `r.ok` is the returned `bool`, `r.out` the out-parameter,
`r.ec` the error code. `Continues(r)` is the test `!read_element(...) || ec` negated. Inside a call the order of the
code is the nesting of the operators. Between calls the members with underscores keep their values, `pos` and `good`
are the input stream's, and `callbacks` is the history of virtual calls. `call` remembers the last call's argument and
result. The rest is read off the names: `sequence`, `data0` and `data1` (`sequence_data[0]` and `[1]`),
`remaining_size`, `available` are the `Read_context`.

Abstractions. The errors of one kind are one value (`bad_flags` for the `bad_..._flags`, `bad_payload` for the
`bad_..._payload`). PUBLISH's duplicate, QoS and retain stay together in `flags`. Header fields an alternative does
not have keep their initial value. The five acknowledgement readers with the same body are one operator. Bytes are
numbers and are never interpreted further; a topic is a sequence of them. Loops over bytes (`read_blob`, return codes,
skipping) are one step with the number of bytes the loop gets through. `uint8`, `uint32`, `size_t` and `streamsize`
wrap at their widths, which are constants.

In `Client`, a handler is a record: it extracts `take` payload bytes, then perhaps looks at one more without extracting it, then
perhaps sets `ec`. `HandlerBlocks` says whether it may read bytes that are not available yet.

`Output` counts bytes. A packet that is about to be written is its type, the bytes that go out with the fixed header,
the bytes of the rest, how many of those precede a string that `write_blob` refuses, and the remaining length as
`protected_add` computed it. Where the code stops is then arithmetic: nothing is written if `Refusal` finds an error,
else `Attempt` bytes, or as many as the connection still takes (`output.room`). What is on the stream is a sequence
of `frames`, each with the bytes written and the bytes its fixed header announces; a broker reads packets off it as
long as the two agree. `calls` is the history of the calls: their packet, the `error_code` they were given and the one
they handed back.

`Session` is the example with its steps taken apart. `stage` is where the application is: `idle` between two calls,
`log`, `reading`, `ack` and `return` inside `on_publish`, `update` before `update_state`, `over` after the loop. A
message is received at once, because `Client` and `Feed` show how it is resumed; what is left of it is what the parts
share. `header` is the Variant, with a count of the objects alive of each type, and the number of elements in the two
containers of a header; `payload` is the `Constrained_streambuf`, read one `underflow` and one extraction at a time as
`operator<<(streambuf*)` does, which stops after `underflow` if `std::cout` fails. `ec` is the `error_code` last passed
to a call; the application may pass it again without clearing it (`Given`), since the documentation calls it `out`.
The two models of a handler agree: `ReleaseExact` states, of a handler of `Session` taken apart, what `OnPublish` of
`Client` does in one step, that the bytes the handler has seen and those skipped after it are the whole payload. A byte
left in the buffer is excepted in `Session`, whose state `lost` follows it, and shown in `Client` by the run `feed_peek`.

`Session` makes an assumption about the caller: once `disconnect` has let go of `_output`, it makes no call that writes to it,
`process_one` with an `on_publish` that sends included. The code does not test this; it would dereference a null pointer.
`Send`, `Ready` and `Poll` have `attached` as a guard for this reason alone. `Poll` of other packets, and a round in
which nothing is available, go on after `disconnect`, as `process_one` does. A handler that disconnects is not modelled.

## Runs

| Run | Checks | Instance |
|---|---|---|
| `client` | `TypeOK`, `HeaderMatchesType`, `FreshBetweenPackets`, `NeverBlocks`, `VariableIntegerFits`, `TopicFits`, `Progresses` | every stream of up to 3 bytes over 7 values, three pairs of packets with every byte replaced by each of 3 values, and with every end cut off; every `available`; the caller goes on after every error |
| `feed` | `InStep`, `RemainingEndsPacket`, `NoFalseAlarm`, `NeverStuck`, `Onward`, `ImplementsPacketFeed` | one packet of 22 or two of 7 representatives of every kind, all divisions into calls that do not end inside a topic, handlers that take 0, 1 or all payload bytes and may fail |
| `element` | `ReadsBack`, `ReadsWhenThere` | every low byte, both ends of every encoded length, every division |
| `keepalive` | `KeepAliveTypeOK`, `PingsInTime`, `NoFalseTimeout`, `DetectsSilence` | intervals 0, 3 and 17, 36 seconds, two pings waiting, pings by hand, other packets, failing writes, a caller that goes on after every error |
| `session` | `SessionTypeOK`, `ReportsWhatWasSent`, `TornOnlyWhenTooLong`, `NothingAfterDisconnect`, `AcksInOrder`, `SeesPayload`, `ReleaseExact`, `HeaderAlive`, `CodesFit`, `AllAcked` | four sequences of messages, a connection that breaks after 40 bytes and one that does not, requests until three calls are recorded, packets with no error and with each kind of error, error codes used again |

These pass. The next ones are expected to fail, each on one property that says what the repository says of the code;
`findings` in PROJECT.json quotes it.

| Run | Property | What the counterexample shows |
|---|---|---|
| `feed_split` | `DeliversInOrder` | a call that ends in the text of a topic, or just before it, makes the next one deliver a part of it: the length of the topic has already raised `sequence` to 3, so `read_blob` is not called again (`protocol/publishing.hpp:94`) |
| `feed_blocking` | `NoFalseAlarm` | the default argument of `process_one`, the largest `size_t`, becomes -1 as a stream size and reading any two-byte integer fails (`protocol/reader.hpp:57`) |
| `feed_peek` | `InStep` | a payload byte looked at but not extracted is subtracted twice by `release()` (`detail/constrained_streambuf.hpp:31`) and one byte too few is skipped |
| `feed_returns` | `ReturnsProcessed` | `_overread` is computed from an `available` already set to 0 (`client.hpp:402-403`) |
| `element_signed` | `ReadsBack` | where `char` is signed, a low byte of 128 or more is sign-extended over the high byte (`protocol/reader.hpp:69`) |
| `keepalive_short` | `DetectsAnySilence` | with an interval of 5 seconds each ping resets the ping timeout of the one before (`client.hpp:213`), so that a silent broker is never found out |
| `session_empty` | `EmptyMeansNoElements` | `Static_container::empty()` returns `_size` (`static_container.hpp:44`): a topic of one byte says it is empty |

A topic has a second weak place, with another cause. A call that ends between the two bytes of its length leaves
`sequence` at 2 and `sequence_data[0]` at 1, the count of the bytes stored. The next call does go to `read_blob`, which takes this 1
for the bytes still missing of the text (`protocol/reader.hpp:120`) and the second byte of the length for the text. `SplitsTopics`
names the two parts of the field, `"length"` and `"text"`; `feed_split` has the second alone, so that its
counterexample is the one described.

The passing runs exclude exactly these cases, by constants: `SplitsTopics = {}`, `Modes` without `"blocking"`,
handlers without `peek`, `CharSigned = FALSE` (`client` excludes none of them: its properties hold nevertheless).
`DetectsSilence` is `DetectsAnySilence` for the intervals above 16 seconds. Nothing in the repository calls `empty()`. `NoFalseAlarm` and `ImplementsPacketFeed` also need fewer than 254 return codes in a SUBACK: each raises
the eight-bit `sequence` (`protocol/subscription.hpp:143`), and one that stops at a multiple of 256 is taken for a new
packet. Two further disagreements with comments are left without a run: `publish`, `subscribe` and `unsubscribe` do
not reset the timer, as `client.hpp:301` says they do, which only makes for more pings than necessary; and
"No packet received during ping timeout" (`client.hpp:237`) is reported when no PINGRESP was, whatever else was.

### Bounds

The readers look at one byte at a time and remember at most a partial 16-bit or variable integer, so a stream with two
packets has every transition from a packet, complete, unread, skipped or failed, to another; the second packet of a
`feed` behaviour is read in the state the first one left. Arbitrary streams of `client` are short because their bytes
are arbitrary; the longer ones are damaged in every place. Identifiers are 5 and 400, with and without a high byte; the
payloads include one that is itself a packet. `SizeMod` and `WordMod` are 2^30, the largest power of two TLC's integers
hold, above every sum the code can form from the bytes of an instance, so that only the deliberate conversions wrap.
One of them does so again and again: on a stream that has failed, each blocking call that reads a 16-bit integer asks
for a negative number of bytes (`reader.hpp:57`) and moves `data0` further below 0. `MCSpec` of `MCClient` has no more
blocking calls once it is `DriftMax`, 3, or more below; the theorems about `Client` have no such bound.
The clock of `KeepAlive` ticks in seconds, the unit of all durations in the code, and its bounds let two intervals and
one timeout pass after the connection.

The packets of `session` are chosen at the sizes where something changes: a string of 65535 and of 65536, a remaining
length one above the largest variable integer, one that `protected_add` must refuse and one that it lets through
because it computes in `size_t`. For the last two `WordMod` is 2^29 and `SizeMod` 2^30. Three recorded calls
(`MaxCalls`) are enough for one call to find what two others, of the application or of the handler, did to the stream
and to `ec`; handlers, `disconnect` and the destructor go on beyond the bound. The connection that breaks does so after
40 bytes, which falls inside the first, the second or a later packet. Messages are of QoS 0 to 2, with payloads that end
early, and with a topic and return codes at and above the size of their containers.

### Deadlock and fairness

`client` is checked for deadlock: a call is always possible, also at the end of the stream. `Feed`, `Element`,
`KeepAlive` and `Session` end: at the end of the broker's packets, when the integer is read, at the bound of the clock
or after an error, and with the destructor.

`Feed` assumes that the caller polls: as long as bytes are there (and no error made it stop), `process_one` is called
again and again with some of them, as the loop in `examples/lightweight.cpp:62-77` does. It is weak fairness of
`Receive`, with its enabledness written out as `CanReceive`. The code promises nothing else and nothing else is
assumed; in particular how many bytes come with each call is left open. `KeepAlive` assumes that `update_state` is
called at least once a second: `Tick` waits for it. So the bounds of `PingsInTime` and `DetectsSilence` are those of a
caller without latency, such as the example with its 100 ms; one that polls every `d` seconds pings up to `d` later, and
nothing here says how much later is too late.

`Session` assumes weak fairness of three groups of actions (`SessionSpec`), for one reason: the application has one
thread, and it runs on. `Poll` is the loop, which calls `process_one` while something is available; `Handling` are the
statements of `on_publish`, which follow each other; `Updating` is `update_state`, which returns. Nothing is assumed
of `Connect`, `Publish` and the other calls of the application, nor of `Quit` and `Destroy`: it may never make them.
`Poll` stays enabled while the application only makes calls of its own, so weak fairness of it says that the loop goes
on to poll, as lightweight.cpp:62-82 does in every round. `AllAcked` rests on all three.

## Proofs

`KeepAlive_proofs` proves, for all timeouts below 2^16, all bounds of the instance and any traffic:

- `TimerInvariant`: `KeepAliveTypeOK`, together with the strengthening `TimerInv`: the next ping is due at most one
  interval after the last packet was written, and if it is due already, this second's poll is still to come.
  `PingsInTime` alone is not inductive, because it says nothing of `next_ping`.
- `PingsInTimeTheorem`: `PingsInTime` follows.
- `NoFalseTimeoutTheorem`: `NoFalseTimeout`, from `TimeoutInv`: a running ping timeout was started by the last PINGREQ,
  which is still waiting, and no PINGRESP has come since.
- `DetectsSilenceTheorem`: `DetectsSilence` from `SilenceInv`. The run `keepalive_short` shows that it does not hold
  for short intervals.

`Output_proofs` and `Session_proofs` prove, for all widths that `GeneralAssumption` allows, any messages, headers, topics
and publications, any room on the connection, any sizes of the containers and with error codes used again or not,
every invariant of the run `session`: `SessionTypeTheorem`, `ReportsTheorem`, `TornTheorem`, `DisconnectTheorem`,
`SeesPayloadTheorem`, `ReleaseTheorem`, `HeaderAliveTheorem`, `CodesFitTheorem`, `AcksInOrderTheorem`. They follow from one
inductive invariant, `SessionInv` (`SessionInvariant`), whose parts are about different variables, so that each action
is dealt with only where it matters:

- `StreamInv`, of the stream (`OutputInv` in `Output_proofs`): every frame belongs to a call that was given no error,
  the calls of the frames increase, a frame is as long as `Attempt` says or the last one on a broken stream, and a call handed back no error
  iff its frame is whole. `Send` and `Disconnect` preserve it whatever packet they are given; that a packet built by
  `ConnectPacket` and the others has a sum that is its length, or is `huge`, is a lemma for each.
- `PayloadInv`: in a handler `remaining` and `taken` add up to its size, and what is extracted is `taken` less the byte in
  the buffer; after it, without such a byte, what is extracted and what is ignored do.
- `HeaderInv`: each type has one object alive iff it is the index, and the handler runs only when that is PUBLISH.
- `ControlInv`: in a handler at least one message was received, and `ec` is an error that a write can report, so that
  what is handed to the next write has the type `Send` needs.
- `AckInv`: there is an assignment of the acknowledgements recorded so far to messages of QoS 1, one to one and in order,
  that leaves out no message but the one in hand (`Answers`); and a handler runs for the message read last, which is a
  PUBLISH. `AcksInOrder` asks for a function in `Answering`, from the positions of the acknowledgements to those of the
  messages; a step extends the function by one pair or leaves it.

`Client_proofs` proves, for all widths of the integers that `GeneralAssumption` allows, both kinds of `char`, any topic
container, any set of streams and handlers, with or without blocking, and a caller that goes on after any errors:

- `HeaderMatchesTypeTheorem`, `FreshBetweenPacketsTheorem`, `TopicFitsTheorem` and `NeverBlocksTheorem`: the
  properties of these names, `TypeTheorem`: `TypeOK`, and the action property `ProgressesTheorem`: `Progresses`.
- Those of single states follow from one inductive invariant, `ClientInvariant`: `TypeOK` and `Sound(client)`. `Sound` adds to the three
  properties that the position is within the stream. `HeaderMatchesType` alone is not inductive: a packet is begun
  when `read_type` is `reserved` and `sequence` is 0, which needs `FreshBetweenPackets`.
- A call is one action but many steps of code, so the proof goes by operations. `Reads(r, q)` says of an operation
  that takes the client from `r` to `q` that `q` is well typed, within the stream and the topic container, and that
  the type and the alternative of the packet in progress are those of `r`. It also keeps the accounts: no more is taken
  than is available, what is taken is counted off (`Counts`), and an operation that stops without an error on a good
  stream has used up what was available (`Ends`). It is proved of every read operation in
  `Reader_proofs`, from any scratch data, so also from what an error left there; of every `read_packet` in
  `Packets_proofs` (`ReadPacketReads`); and `Client_proofs` adds `_skip_ignored`, `emplace`, `_clear_read` and the
  handlers, in the order in which `process_one` calls them.
- `Moves` and `Advances` are what a call makes of these accounts. `NeverBlocks` and `Progresses`
  compare the ends of one call and follow from them step by step; a call that waits with nothing read and nothing delivered is excluded
  because `Ends` would have it use up what was available. An UNSUBACK is the one packet without a length in the
  conditions of its reader; `Sound` says how far its `sequence` gets.
- `VariableIntegerFitsTheorem`: `Spec /\ []FewCodes => []VariableIntegerFits`, from the invariant `Paced`: of a packet
  not begun nothing is read (`Begun`), of a length in progress `k` bytes are, with the multiplier `128^k` and a sum
  below it (`Shifted`), and a SUBACK has as many return codes as `sequence` says (`Counted`). `FewCodes` is a premise the
  code makes necessary: `sequence` is a `std::uint8_t` that each return code raises (`protocol/subscription.hpp:143`). A
  SUBACK of 254 makes it 1 while `data1` is whatever the return codes left, and the next call reads the length again.
  With 252 return codes and the three elements before them `sequence` is 255, so a premise with any larger bound fails.

`Element_proofs` proves, for any set of values that fit their type and both kinds of `char`:

- `ReadsWhenThereTheorem`: `ReadsWhenThere`, for every division of the bytes into calls.
- `ReadsBackTheorem`: `ReadsBack`, if no 16-bit value has a low byte of 128 or more where `char` is signed (`Unsigned`).
  The premise is exactly the condition of the finding that the run `element_signed` shows.
- The writer's bytes are, by `Encoded`, the digits of the value in base 128, the last without a top bit. The reader's
  invariant after `k` of them (`Partial`) is that its sum is the value modulo `128^k`. `VariableByteLooped` carries
  it through one round of the loop, whether the round reads, waits or has nothing left to do; the `do` loop of
  `reader.hpp:85-108` is at most four such rounds. `HalfShort` and `Received` are the same for two bytes.

The streams must be shorter than half the range of `size_t` (`ClientAssumption`), as any stream in memory is.

`Feed_proofs` proves, for any set of sequences of well-formed packets (`FeedAssumption`: topics that fit, lengths that a
variable integer holds, header fields that the packet type has), however many there are, however long they are and
however they are cut outside topics, and for every topic container, that the client implements `PacketFeed`:

- `FeedRefinement`: every step of `FeedSpec` is a `Deliver` of `PacketFeed` or a stutter, from an initial state that is
  one of `PacketFeed`. So, in every behaviour, `ImplementsPacketFeed` holds iff `AllDelivered` does: the liveness
  half is what is left to TLC.
- `InStepTheorem`, `RemainingEndsPacketTheorem`, `NoFalseAlarmTheorem`: the invariants of the run `feed`; and
  `DeliversInOrderTheorem`, the invariant that `feed_split` shows to fail without the premise.
- `NeverStuckTheorem`, `OnwardTheorem`: the other two properties of the run. As long as a packet is missing its callback, a
  piece is left that the caller can offer: a client inside a packet stands before its end (`BeforeEnd`), and all the
  rest of the stream is such a piece, because its end is not inside a topic (`EndOutside`). Every call takes a byte or
  makes a callback: what `Progresses` excepts does not arise, because an error comes with a callback, the stream stays
  good, and no packet is of the reserved type (`InvariantNeverStalls`).
- `KeepsReceiving` puts them together with the fairness `Polling`: either all packets are delivered, or a handler's error ends
  the loop, or infinitely many calls each raise the position or the number of callbacks, neither of which ever exceeds
  the length of the stream or of the sequence. That the last is impossible is an induction over a temporal
  formula, which the prover cannot do; it is all that is left of `AllDelivered`, if `Resume` has `"handler_error"`, as
  in the run.
- `FeedIsClient`: a behaviour of `FeedSpec` is one of `Spec`, so that all that `Client_proofs` proves holds of it, without
  `Benign`.
- The premise of all the others is `Benign`, and for `NeverStuckTheorem` and `KeepsReceiving` also
  `"nonblocking" \in Modes`. `Benign` says: no piece ends inside a topic, the caller says how many bytes there are,
  handlers extract the bytes they look at, no identifier or topic length has a low byte that a signed `char` misreads,
  and a SUBACK has at most 252 return codes. The first four are the cases of the findings `feed_split`, `feed_blocking`,
  `feed_peek` and `element_signed`, which show what goes wrong without them; the last is explained above under
  `VariableIntegerFitsTheorem`. The instance of the run `feed` satisfies all five, and `FeedAssumption`, which
  TLC evaluates.
- They follow from `FeedInvariant` (`FeedInvariantTheorem`): with `n` callbacks made, the client is either between packets,
  with its position and the bytes it still has to skip adding up to the end of packet `n` (`Between`), or inside packet
  `n + 1` of the stream (`Amid`). `InPacket` says where: which fields are in `read_header` already, what `sequence`,
  `remaining_size` and the scratch data are, and the position that goes with them, so that a packet is described by the
  handful of places at which a call may stop in it. `InStep` alone is not inductive, because it says nothing of a packet
  in progress; nor is `RemainingEndsPacket`, because it says nothing before the length is known.
- The proof goes by operations once more. For every read operation there is a lemma that, if the stream spells the value
  at the client's position (`Spells`), the operation ends with the value read or within it, with nothing available
  (`ShortAhead`/`IdentifierTaken`, `TextAhead`/`TextTaken`, ...). They are put together for each `read_packet`, for the handlers, and
  for `process_one` as a whole in `ProcessedAdvances`: a call leaves the client at a place in the same packet, or it
  delivers this packet and leaves the client behind it.
- That the stream spells packet `n + 1` behind packet `n` is an induction over the packets, for `Written` is a recursive
  function. It goes by least counterexample over the natural numbers (`JoinedExists`, `WrittenGrows`), which needs
  only that `<` is well-founded, not an induction theorem with an operator parameter.

Liveness (`AllDelivered` in `ImplementsPacketFeed`, up to the last step of `KeepsReceiving`, and `AllAcked`) is out of
the prover's reach and stays with TLC; all other properties of the passing runs are proved.
`WriteVariableInteger` is written in closed form, by the length of the value, so that the proofs can unfold it.

## Not modelled

- The bytes of CONNECT, SUBSCRIBE, UNSUBSCRIBE, PINGREQ and DISCONNECT: `Output` has their number only.
- What a client does that has lost step with its stream (`stage = "lost"`), or whose return codes overflow: the second
  is undefined behaviour, and `CodesFit` says when it does not happen.
- A call of `publish`, `ping` and so on after `disconnect` dereferences a null pointer; `Send`, `Ready` and `Poll` ask for
  `attached` because the program has no behaviour to model there.
- `resize` and `pop_back` of `Static_container`, which nothing in the repository calls.
- `String_view`, logging, configuration, the build files: no state, or no program.
- The overloads that throw: each calls the one with an `error_code` and throws what it reports.
- Time between the system clock's ticks, and a clock that is not steady.

## Plan

1. Done: `General`, `Reader`, `Packets`, `Client`, `Writer`, `Feed`, `Element`, `KeepAlive`.
2. Done: `Output` and `Session`, which has `Constrained_streambuf`, `Variant` and `Static_container` as well.
3. Done: proofs about `KeepAlive`, `Client`, `Output` and `Session`.
4. Done: proofs of `NeverBlocks`, `Progresses`, `VariableIntegerFits`, `AcksInOrder`, and about `Element`.
5. Done: proofs about `Feed`: the safety half of `ImplementsPacketFeed`, `InStep`, `RemainingEndsPacket`, `NoFalseAlarm`,
   `NeverStuck` and `Onward`.
6. The bytes of the packets that only a client sends, so that `Output` refines a model of bytes.
