# TLA+ models of Historic Harpsichord

Historic Harpsichord turns a MIDI keyboard into a tuned harpsichord: a key
event goes from PortMidi's timer thread through a queue to GTK's main loop,
where it is adjusted, and through a second queue to PortAudio's callback, which
feeds it to FluidSynth. This directory holds TLA+ models of the parts of that
program in which order, concurrency or failure matter, and of the message
translation runtime it carries in `intl/`, the TLC runs that check them, and
TLAPS proofs of their most important properties for every size.

## 1. The system

| component (source) | state | operations | talks to |
|---|---|---|---|
| ring buffer (`src/audio/ringbuffer.c`) | `buf`, `read_ptr`, `write_ptr` | create, write, read, peek, read/write vector, advances | one reading and one writing thread, no lock |
| event queues (`eventqueue.c`) | an `immediate` and an `input` ring per backend | write/read output, write/read input | ring buffer; GTK thread -> audio thread; timer thread -> queue thread |
| queue thread (`audiointerface.c`) | `queue_mutex`, `queue_cond`, `signalled`, `quit_thread` | input_midi_event, try_signal_queue, queue_thread_func, signal_queue | timer thread, GLib idle sources, main thread |
| subsystem (`audiointerface.c`) | `backends[2]`, `event_queues[2]` | audio_initialize, audio_shutdown | the backends by function tables |
| PortAudio backend (`portaudiobackend.c`, `portaudioutil.c`) | `stream`, `ready` | initialize, destroy, stream_callback, ready_now, device lookup | PortAudio's thread, main loop, FluidSynth, setup dialog |
| PortMidi backend (`portmidibackend.c`, `portmidiutil.c`) | `input_stream`, `initialized`, `init_count` | initialize, destroy, process_midi, device queries | PortMidi's timer thread |
| dummy backends (`dummybackend.c`) | `dummy_audio`, `dummy_midi`, `process_thread`, `quit_thread` | initialize, destroy, process_thread_func | a thread the two backends share |
| preferences (`core/prefops.c`) | `HistoricHarpsichord.prefs`, `.setup`, the file | initprefs, readxmlprefs, writeXMLPrefs | dialog, backends |
| setup dialog (`ui/prefdialog.c`) | widgets | preferences_change, set_preferences | preferences; runs the main loop inside audio_initialize |
| synthesizer (`fluid.c`) | `synth`, `sfont_id` | init, shutdown (removes the preferences file), feed, render | preferences |
| play path (`midi.c`, `fluid.c`) | `times[]`, preferences, what sounds | handle_midi_event, play_midi_event, fluidsynth_feed_midi | immediate queue |
| temperaments (`temperament.c`) | `PR_temperament` | temperament_changed_callback, set_tuning | play path |
| start (`core/main.c`) | - | initprefs, audio_initialize, main loop, exit | everything |
| translation: names (`intl/explodename.c`, `l10nflist.c`, `localealias.c`, `finddomain.c`) | `_nl_loaded_domains`, the alias map | explode a locale's name, make the entries it falls back on, expand an alias | lookup |
| translation: catalogs (`loadmsgcat.c`) | a loaded `.mo` file, its converter | accept a file, build system dependent strings and their hash table, choose a converter | lookup |
| translation: plural rules (`plural.c`) | Bison's two stacks | yyparse, yylex, new_exp | header of a catalog |
| translation: lookup (`dcigettext.c`, `bindtextdom.c`, `textdomain.c`) | bindings, default domain, `_nl_msg_cat_cntr`, known translations, converted strings | dcigettext, bindtextdomain, bind_textdomain_codeset, textdomain | the program, by `_()` |

What is hard here, and what each component has to get right:

* Ring buffer: two threads without a lock, each working on the other's pointer
  of a moment ago. *Nothing overwritten, lost, repeated or reordered; no copy
  overlaps the other thread's; full is not empty.*
* Immediate queue: variable-length messages on a ring that publishes what
  crosses its end in two pieces. *Every event fed is a message played, whole,
  once and in order.*
* Queue thread: a flag, a condition and a try-lock between three threads.
  *Nothing slept on, nothing forgotten, order kept, a join that ends.*
* Subsystem: two backends, either may fail in every library call, while
  callbacks run. *Success is complete, failure leaves nothing in use that is
  freed, counters balance, a dummy has its thread.*
* Preferences: a file written by a process that may stop anywhere, and
  substitutes that live in the same record as the player's choices. *What was
  accepted comes back.*
* Translation: five caches (entries and their successors, loaded catalogs,
  converters, converted strings, known translations), each invalidated by a
  counter or not at all. *What comes back is what a lookup without caches would
  give; a string handed out is never overwritten; every call returns.*
* Plural rules: tables of 28 states, stacks that grow, memory that may be short.
  *The tables accept the grammar; every node has one owner.*
* Play path: tuning messages wait in the queue that the keys use, and low pitch
  is applied in two places. *The synthesizer plays what was chosen last; a held
  key sounds, a released one fades.*

Paths below are those of the source tree, `src/...`.

## 2. Modules

| module | models | spec of |
|---|---|---|
| `RingPtr` | pointer arithmetic of `ringbuffer.c` as operators: mask, read and write space, the two parts of a transfer | - |
| `ByteFifo` | abstract: a bounded FIFO of bytes | what `ringbuffer.h` promises |
| `RingBuffer` | both threads of the ring buffer, one step per copy and per publication | implements `ByteFifo` |
| `ImmediateQueue` | `eventqueue.c`'s output half, `play_midi_event`, the reading loop of `stream_callback` | - |
| `InputChannel` | abstract: a bounded FIFO of events with refusals only when full | what the input path promises |
| `QueueThread` | the input path of `audiointerface.c` | implements `InputChannel` |
| `PortAudioDevices` | `portaudioutil.c` as operators: from a device name to an index | - |
| `Subsystem` | `audio_initialize`, `audio_shutdown`, the three kinds of backend, and the threads of the libraries | extends `PortAudioDevices` |
| `Preferences` | sessions of the program: file, dialog, substitutes, failures, crashes | - |
| `PlayPath` | from key to synthesizer: `midi.c`, the tuning messages of `temperament.c`, `fluidsynth_feed_midi` | - |
| `PluralGrammar` | operators: the trees and the rules of `plural.y`, without tables; how far a text can be the beginning of a sentence | what `plural.y` promises |
| `PluralParser` | `plural.c`: the automaton with its tables, the lexer, the stacks and what happens when malloc fails | parses `PluralGrammar` |
| `LocaleNames` | operators: a locale's name taken apart, the names it falls back on, alias files | - |
| `Catalogs` | operators: which files are catalogs, system dependent strings, hash table, binary search, plural index | - |
| `TransPool` | the blocks of memory that converted strings are put into | what `Gettext` uses of memory |
| `Gettext` | `DCIGETTEXT`, `_nl_find_domain`, `_nl_find_msg`, loading, converting, binding | extends the three; implements `TransPool` |
| `MC*` | constants of the runs, and assumptions TLC evaluates | |
| `*_proofs` | theorems and TLAPS proofs | |

How they fit together: `RingBuffer` shows that the ring is a FIFO of *bytes*
whose split writes are published part by part. `ImmediateQueue` and
`QueueThread` start from that: the first keeps the write pointer, since a frame
that crosses the end becomes visible in two steps; the second need not, since
its 16-byte records divide the ring's 4096 bytes and none is ever split.
`QueueThread` begins where `Subsystem` reports success; `Subsystem` follows
each thread only as far as it has a queue in its hands. `PlayPath` takes up the
events where `QueueThread` hands them to the main loop, and uses the immediate
queue as a FIFO of whole messages with a limit in bytes, which it is until a
frame is split (`ImmediateQueue`), in a build in which a read of the empty queue
returns FALSE. `Gettext` shares no state with these; a
catalog comes to it with its plural rule as a function, which `PluralParser`
makes of the header's text.

### Correspondence

*RingBuffer.* A call is a *begin* step, which reads both pointers once, and for
each of up to two parts a *copy* step (the `memcpy`) and a *publish* step (the
assignment to the own pointer). The other thread may run between any two of
them. Write by vector, peek and the advances are the same in their own order. A
byte is its position in the writer's stream: the code never looks at a byte.
`tail` and `head` are history: the bytes published so far.

*ImmediateQueue.* `ring` is that FIFO, `rest` the part of a split write that is
still to be published, `rpc`/`length`/`event` the locals of the reading loop.
`ReadLength` and `ReadBody` are the two calls of `jack_ringbuffer_read`; the
reader's publication of a split body in two steps is one step here, since it
only makes the writer's space grow later. `EmptyReturns` is what the missing
`return` at the end of `event_queue_read_output` yields. `Misread` is what a
data byte is taken for by a reader that has lost the frames.

*QueueThread.* `qpc`, `tpc`, `mpc` are the places of queue, timer and main
thread. Mutex and condition are those of GLib: a wait releases the mutex in the
same step, and ends by a signal, its timeout, or spuriously. Draining holds the
mutex, as in the code. `idle` is the list of idle sources, which GLib
dispatches in order.

*Subsystem.* One action for every call that can fail or that another thread can
notice. `Uses(b)` holds while a thread is between its test and its last access
to queue `b`: the body of `stream_callback`'s loop, of `process_midi`, and of
each loop of the process thread is one such interval. `Pa_CloseStream` and
`Pt_Stop` return when the callback or the timer does. The main loop runs
inside the setup dialog, where `ready_now` may be dispatched.

*PlayPath.* A message is a record with what the synthesizer makes of it; its
frame is 4 bytes, or 21 with a tuning. `KeyPressed` and `KeyReleased` are whole
runs of `handle_midi_event`: compression, after-touch, the write to the queue.
The offset of a pitch class is named by its place in the table (`Offsets`), so
that "every key plays its own" needs no cents. The time of `get_time` is the
wall clock's: `Beat` is two seconds, and `SetBack` an adjustment, after which
`60 / exp(...)` may not fit a `gchar` (`OddBytes`). `held` and `lost` are
history: what the player does, and the keys whose last event was refused. A
dialog that is cancelled ends the program.

*PluralParser.* A label of `yyparse` is a value of `label`; a step is a piece of
code between two labels, with one action for the start rule, the brackets and
the rules that build a node. The tables are those of the file. The text is not
given: every call of `yylex` meets some lexeme of `Texts`, so one behaviour is
one text. A value on the stack is the tree it points to with the number of its
nodes; `live` counts the nodes allocated and not freed. The wasted first element
of the value stack is left out. `PluralGrammar` has the rules with the level of
the rule at the root of each phrase, which is how the `%left` and `%right` of
`plural.y` are read: an operand of a level must be of that level on the side the
operators group to, and stronger on the other. `Phrases` builds the phrases by
their length, from the rules alone.

*LocaleNames.* A name is a sequence of tokens, each with the character before
it. `_nl_explode_name` writes NUL between the parts; here it gives them, and the
mask. `Family` is what the recursion of `_nl_make_l10nflist` builds: the entry
of a name, the names it falls back on in their order, and which of them are
decided before any file is tried. `_nl_expand_alias` reads alias files until
one helps; `KeptLines` is what is left of one.

*Catalogs.* `Loaded` is what `_nl_load_domain` makes of a file; a message is a
sequence of pieces, and the hash of one is a constant. `AugmentedHash` adds the
system dependent strings to the file's table by the probes of the search.

*TransPool.* One conversion is `BeginConversion`, then `Resize` while the room
does not do, then `Store`, or `CannotConvert` or `NoMemory`. A string is its
block, its start and its length, with the `size_t` before it.

*Gettext.* A call is taken apart at `pc`: the next locale of the list, the entry
for it, each file that is read, the message, its conversion, the known
translation. `Load` passes over what need not be read, as the loops do. A file is
decided before it is opened. `failed` and `stale` are history: the files that
could not be read once, and whether the environment changed without a flush of
the known translations.

*Preferences.* A value is `"default"`, `"chosen"`, PortAudio's `"first"`
device, or the soundfont tried last. The file is absent, whole, or torn
(opened for writing and not finished). `accepted` is history: what the player
accepted last, reset when the code removes the file on purpose because there is
no synthesizer or soundfont.

## 3. Runs

All constants of a run are in its `.cfg`; bounds are named `Max...`.

| run | shows | bounds, and why they are enough |
|---|---|---|
| RingBuffer | pointers count, nothing overwritten, no overlapping copies, claims hold, implements `ByteFifo` | 4 bytes, a stream of 12: every start offset, wrap and split, three times around; 8.9k states |
| ImmediateQueue | frames always whole on the ring; every event fed is the message accepted in its place, and every accepted one is fed, until a message that crosses the end is published in two steps, whatever a read of the empty queue returns | 8 bytes, 4 messages of 2, 3 or 5 bytes and their length bytes: every way to reach and cross the end, twice around, refusals; both values of a read of the empty queue; 97k states |
| ImmediateTorn (violation) | the program's own ring of 512 bytes, its two tuning messages, then 3-byte events: a callback between the two publications gets a torn event | up to the first wrap, 121 messages |
| QueueThread | mutex, no sleep on a signal, safe join, implements `InputChannel`, every event handled, shutdown ends, and a thread that has slept once sleeps again whenever it has nothing to do | capacity 2, 5 events: full, refused, drained and refilled while signals fail |
| Subsystem | every pair of drivers, every failing call, those of Pm_Initialize and Pa_CloseStream included: dummies served, success is whole, PortMidi counted, no queue used after it is freed, a listed device is found, shutdown ends; what a failed query, a stream that does not close and a second dummy cost is in the properties | two backends are all there are; 4 devices, two of the same name, and a preferred one that is gone; 4.7k states |
| Preferences | the preferences that are read back are those accepted last, and what plays is what was accepted or a named substitute; after a crash anywhere the next session has a whole set or the defaults | one field of each kind, one that is never read back included; any number of sessions, failures and crashes; 2.5k states |
| PrefsLost (violation) | of all fields that are written, `damping` and `dynamic_compression` are not the accepted ones in the next session | all 7 fields, no failures |
| PlayPath | types and velocities; tuned as chosen, and the tuning arrives; held keys sound, released ones fade | 63 bytes, filled by the three tuning messages of one change, so that notes are refused; two keys, one of them the last; 3 events: press, release, press; 0.8M states |
| TuningRefused (violation) | the program's 511 bytes: the 24th change of the temperament in the dialog fills the queue, the messages that follow the dialog are refused, and the old low pitch stays | 24 changes; with 23 there is no violation |
| Plural | the parser accepts the sentences of the grammar and no others, with the grammar's tree; the stacks hold what is pushed and grow to their limit; nodes are owned when malloc fails; every parse ends | texts of 5 out of 14 lexemes, of 9 out of those of `?:`, of 7 with brackets and with the other operators; stacks of 2 that grow to 7 (the program's 200 and 10000 by the same steps); numbers of 4 bits wrap; one failure |
| Gettext | the first catalog with the message in an order of names of the code's own answers, remembered or not; in the codeset asked for; with a message and a variant that exist; no binding is hidden; converted strings stay intact; every call returns | 3 environments, one with a codeset name that later calls look for again, 2 domains, 8 files of which one is no catalog, 3 messages, blocks of 12 bytes for strings of 6 to 13; 3 calls by the program, one change of the environment, one failure: enough to bind, answer and answer again, or to bind, bind and answer, or to convert in a block that must grow; 448k states |
| LocaleOrder (violation) | with LANGUAGE `de_DE.UTF-8:french` a message that `de_DE.utf8` and `fr` translate comes back untranslated, because another message was looked for before | 2 calls |

The violation runs check what a comment or a header of the program says; the
findings in `PROJECT.json` quote it. They are properties the passing runs of
the same module leave out, or check where they hold: `WholeInOrder` is true
until the first split frame (`DamageNeedsSplit`), `TunedAsChosen` until the
queue is full, `AllReloaded` of the fields that are read (`ParsedReloaded`), and
`AnswerIsPreferred` up to the orders that the code's list of files leaves
(`AnswerIsBest`). `ImmediateTorn` has the empty queue return FALSE, so that its
trace shows the split and nothing else. `LocaleOrder` shows two losses at once,
and needs both: had either name been looked for, the message would be translated.

Seen while modelling, present in the models, and without a run of their own:

* A device that is gone has index -2, which is not `paNoDevice`, so the default
  is not tried (`portaudiobackend.c:131`). `ListedDeviceOpens` says that this
  befalls no device that is there.
* A signal that is sent before the queue thread first looks at `signalled` (the
  MIDI timer runs before the thread is created, `audiointerface.c:235`) leaves
  the flag set: it is reset only behind a wait (`audiointerface.c:330`), which it
  prevents, so that the thread never sleeps and runs round its loop with the
  mutex held. That contradicts the comment at `audiointerface.c:53`; `SleepsAgain`
  says what remains of it, from the first sleep on. Events are handled in either
  case (`EveryEventHandled`).
* `jack_ringbuffer_create` rounds up to a power of two and keeps one byte free,
  so a ring asked to hold 4096 bytes holds 4095 (the comment at
  `ringbuffer.c:34` says at least 4096), and the input queue takes 255 events.
* `event_queue_read_output` ends without a `return` when the queue is empty
  (`eventqueue.c:106`). Where that yields TRUE, the last event is fed again
  (`replayed`); `WholeInOrder` excludes it, and the passing run and the proofs
  allow both values and show that such a replay damages nothing else.
* A message without an end mark is refused before it comes to the queue, as is one
  that would have 255 bytes (`audiointerface.c:453`, `MaxData`).
* If MIDI fails, because the keyboard is off, audio is shut down, and
  `fluidsynth_shutdown` removes the preferences file (`fluid.c:105`). It may be
  meant to force a new setup; `accepted` is reset when it happens.
* With damping a release is played on channel 0 whatever the keyboard's
  channel (`midi.c:83`), and `times` has no element for key 127 (`midi.c:64`).
  `HeldSounds` and `ReleasedFades` are stated for the first channel and, where
  a time matters, for the keys that have one; the comment at `midi.c:64` says as much.
* With both drivers "dummy" `stop_process_thread` returns while the other flag
  is set, and the audio queue is freed under the thread (`dummybackend.c:107`).
  Only an edited preferences file configures that. A stream that Pa_CloseStream
  could not close (`portaudiobackend.c:186`) keeps its callback, and that the freed
  queue. `NoUseAfterFree` names these two cases and excludes every other.
* If audio fails, the MIDI queue is never freed (`audiointerface.c:275`); with
  the input device "none" the timer is never stopped (`portmidibackend.c:162`).
  Both end with the program.
* If Pm_Initialize fails once in a query of the devices, `init_count` stays above
  zero and it is never tried again (`portmidiutil.c:31`): the program then reports
  success without PortMidi. `PmBalanced` and `SuccessIsWhole` say that this one
  count is all that is lost (`leaked`).
* A player who cancels the first dialog is not asked again, since the defaults
  were written before it (`prefops.c:95`). Whether that is intended cannot be
  told from the code, and no property speaks of it.
* `portaudiobackend.c:80` would make the callback a second writer of a queue for
  one writer, but only `panic` sets `reset_audio`, and nothing calls it.
* In an alias file every second alias is lost: the end of the first word is
  overwritten by NUL, the search for the line's end then fails, and the next
  line is taken for the rest of an overlong one (`localealias.c:348`; LocaleOrder).
* A name that is looked for a second time is found as it is written, with
  successors that lack the names with the normalized codeset
  (`finddomain.c:88`; LocaleOrder). An entry also keeps the successors of the family it was
  made in (`l10nflist.c:289`): the first name tried for `de_DE@euro` is
  `de_DE+euro`, and if that was made for `de_DE.UTF-8@euro`, it is not followed by
  `de_DE@euro`, which an alias of that name then does not find. `AnswerIsBest` is
  weaker than the comments by these (`Orders`) and by the lost aliases, and by
  nothing else.
* The comment at `l10nflist.c:329` gives the order of dropping the parts of a
  name contrary to the code; the one at `finddomain.c:65` is right
  (`PreferredOrder`, evaluated by TLC).
* A file that could not be read for a passing reason is never tried again
  (`loadmsgcat.c:925`).
* The entry of a name with a "+modifier" is among its own successors.
* A syntax error in a plural rule forgets the nodes made so far, and
  `_nl_load_domain` leaks what it has read when memory runs out
  (`loadmsgcat.c:1023`).

Deadlock is checked wherever the system goes on for ever. `QueueThread` ends
with audio_shutdown, `Subsystem` with exit, a parse with its result and
`Gettext` with the program's last call, so their runs do not check it;
`ShutDownEnds`, `ParseEnds` and `CallsEnd` say there that nothing gets stuck on
the way.

Every property of a passing run is also tried on a mutant of the code: an
operator `BugX` before `X`, the way a plausible slip would change it (a dropped
guard, a signal without effect, an off-by-one, a missing entry). The property
must fail on it.

### Fairness

* `ImmediateQueue`: PortAudio calls `stream_callback` for ever (weak fairness of
  the callback's steps) and `jack_ringbuffer_write` does not block (weak
  fairness of its second half). Nothing is assumed of the player.
* `QueueThread`: weak fairness of the timer thread's try-lock and signal, of
  the queue thread, whose waits end by their timeout, and of main's idle
  dispatch and the later steps of shutdown; strong fairness of main's lock in
  `signal_queue`, since the mutex is free again and again and a GLib mutex is
  not withheld for ever from one thread. The arrival of events and the decision
  to shut down are not fair.
* `Subsystem`: threads go on, callbacks return, waits time out. `ShutDown` is
  strongly fair, since `Pa_CloseStream` waits for a callback that comes and
  goes, and stops new ones.
* `PlayPath`: the start goes on, and the callback reads on. The player and the
  dialog are not fair.
* `PluralParser` and `Gettext`: a function that was called runs on until it
  returns (weak fairness of the parser, and of the steps of a call). The
  program's calls are not fair.
* `Preferences` has no liveness property and no fairness.

## 4. Proofs

Each proof module strengthens the invariants of its runs to an inductive one
(`IInv`), shows `Init => IInv` and, action by action, `IInv /\ [Next]_vars =>
IInv'`, and derives the theorems.

*RingBuffer_proofs*, for every `Size` and stream: `TypeOK`, `PointersCount`,
`InOrder`, `ClaimsHold`, `NoDataRace` and the refinement `ImplementsFifo`. The
checked invariants are not inductive: nothing in them says that what a thread
has copied is what it will publish. `WriterHolds` and `ReaderHolds` say it, and
`PointerInv` ties the two pointers to the two counts. Mask and parts are used
through lemmas about modular arithmetic (`SpaceOfPointers`, `PartsOfTransfer`,
`MaskTwice`, `DistinctSlots`). Assumption: `Size` as `RingPtr` has it.

*ImmediateQueue_proofs*, for every ring, every set of message lengths and
whatever a reader that has lost the frames takes for a length: `FramesWhole`
and `DamageNeedsSplit`, whichever value a read of the empty queue returns.
`DamageNeedsSplit` says that one cause suffices to explain every damaged event;
what makes it inductive is where the reader stands. `IInv`: the bytes on the ring
and the rest of a split write are whole frames of messages accepted one after
another (`Whole`, `Follows`), what waits to be published belongs to a message
that was split (`RestIsSplit`), and until such a message has been fed the reader
is at the frame of the message it will feed next (`Sync`).

*QueueThread_proofs*, for every capacity and number of events: `TypeOK`,
`MutexOwned`, `NoSleepOnSignal`, `JoinIsSafe`, and the refinement
`ImplementsChannel`. What is added is `OnItsWayOut`: once main has signalled,
the thread cannot wait again.

*Subsystem_proofs*, for every list of devices, every set of drivers and whatever
fails, without an assumption on the constants: `TypeOK`, `DummyServed`,
`PmBalanced`, `SuccessIsWhole`, `NoUseAfterFree` and `ListedDeviceOpens`. What a
failure costs stands in the properties themselves: `leaked` for a query of
PortMidi, a `"stuck"` stream for Pa_CloseStream, the loop of two dummies. `IInv`
says for each stage of initialization and shutdown what is up, and that a count
which has leaked keeps Pm_Initialize from being called, so that no second one can;
`SafeInv` says who owns a stream, an input and the process thread.
`ListedDeviceOpens` rests on the first index of a name, which exists by the
well-ordering of the naturals.

*Preferences_proofs*, for every set of followed fields and whatever fails:
`TypeOK`, `ParsedReloaded`, `PlaysAccepted` and `WholeOrDefaults`. `PlaysAccepted` is of
all fields: for `damping` and `dynamic_compression` it says that they are the
accepted ones in the session of the dialog and the defaults in any other
(`NotRead`), as `PrefsLost` shows. The three speak of moments in which the preferences are in use; `IInv` follows file,
record and what was accepted through every stage of a session, since what a
session starts with was decided when an earlier one wrote or lost the file.

*PlayPath_proofs*, for every keyboard, queue, and set of temperaments and
compressions: `TypeOK`; `TunedAsChosen` if the queue has room for a message per
change and two more, `(MaxChanges + 2) * TUNING_BYTES <= Capacity`, which
`TuningRefused` shows to be needed; that compression keeps the order of
velocities, and that a key keeps its offset under low pitch. `IInv` bounds the
queue before the stream is open and follows the last tuning message in it.
`HeldSounds` and `ReleasedFades` hold for every queue. They speak of an empty
queue, so `NoteInv` says for every key whose last event was not refused that the
last message for it in the queue, or how it sounds if there is none, is what the
player did last; and that no key's time is in the future unless the clock has
been set back.

*PluralParser_proofs*, for every set of texts, every width of a number and every
limit of the stacks: `StacksFit`, `NodesOwned` and `ParsesTheGrammar`, by four
invariants, each resting on those before it. `StacksInv`: the states on the
stack, with the one about to be pushed, are a path of the automaton (`Edge` says
which state may stand on which, `Takes` which tokens a state shifts; both are
checked against the tables state by state). So when a rule is reduced, its
right-hand side is what lies on the stack (`Handle`). `ReadsInv`: the brackets
and question marks that the path has open, and what its top expects, are what
`Reads` says of the tokens read so far; an error is raised exactly where `Reads`
says that no sentence begins so. `ValuesInv`: a state made of an expression holds
its nodes, any other holds none, and an expression is missing only after a
failure of malloc. `MeaningInv`: the tokens read are divided among the states on
the path, each expression being a phrase of its share that may stand where it
stands: it is as strong as the operator to its left and as the one that follows
ask for (`Own`, `Fits`). That a state reduces before an operator exactly when
the expression below is strong enough is where the precedence and the grouping
of `plural.y` meet the tables (`MayStand`, `MayFollow`). Texts have any length,
so `Sizes`, `Reads` and `Phrases` are recursive functions of sequences of any
length; what they are after one token more is shown by induction over the length
(`Induction`, a fact about sets of numbers that follows from `Least`).
That a sentence has only one meaning is not proved: the theorem says that the
tree is one the rules give, and `Unambiguous` in `MCPlural` checks on all short
texts that they give one.

*Gettext_proofs*, first for `TransPool`, for every size of block, alignment and
set of lengths: `PoolIntact`. It says where strings lie, not where the next will: `Unused` (what
is left of the block in use begins at `offset` and is aligned), `Behind` (the
strings of that block end before it) and `Growing` (a block that is made larger
holds nothing yet, so that `realloc` may move it) make it inductive.

Then for `Gettext`, for every set of files, environments, bindings and calls:

* `LookupUsesPool`, the refinement `Spec => PoolSpec`, by which `PoolIntact` holds
  of the whole lookup (`TranslationsStayIntact`).
* `NothingHidden`. The invariant is that the bindings are in the strict order of
  the domains; that the searches by `CHOOSE` find a first place at all is the
  well-ordering of the naturals (`Least`).
* `TypeOK`, from `ListInv` (`ListIsKept`). An entry falls back on files that are
  found by name, so the list must be closed under the names an entry has
  (`IsList`), which `_nl_make_l10nflist` keeps because it adds whole families
  (`FamilyAdded`). `Calling` and `Position` say what the steps of one call leave
  to each other: a message is converted only in a loaded file that has a
  converter and a table, and `cnt` is 0 or a place among the successors. `Known`:
  a remembered translation is of a loaded file, with a counter that is not ahead.
* `AnswerExists`, from `Copies`: each converted string of a table, each
  remembered translation and the one on its way to the caller is a translation
  of the message in question, with a copy of its length that lies in the memory
  of conversions. It rests on the searches: the binary search returns the place
  of the message or none (`BinarySearchFinds`, by induction over the length of
  the interval), the hash search likewise, and it ends if the probes meet the
  message or an empty place (`HashSearchFinds`); the table that is extended by
  the system dependent strings holds them at their places (`IndexIsRight`). Copies stay, since `strings` only grows
  and `PoolIntact` keeps them undamaged.
* `AnswerInCodeset`, from `CodesetInv`, while nothing has failed. There are two
  counters: a file remembers that of the binding it made its converter for
  (`codeset_cntr`), a known translation that of all changes
  (`_nl_msg_cat_cntr`). Neither is ever ahead; where it is equal, the codeset is
  the one bound now (`Fresh`, `RootFresh`). It must survive each change of a
  binding: the counter of a domain never falls, and if it stays the same, so
  does the codeset (`RebindNewer`, `BindNewer`). That each change of a binding
  counts, a new directory too, is what the remembered translations need.
* `AnswerIsBest`, from `BestInv`, whatever failed and is remembered. The property
  does not look at the list of files, though it allows for what the list loses in a
  second lookup (`LocaleOrder` shows that this is less than the comments promise):
  `Orders` says which names a locale may be
  looked for by, from the aliases and the families of names alone. Each entry of
  the list is one of a family that was asked for, whose names are all there, and
  if it is decided and not loaded it has no catalog (`IsMade`); no alias is lost
  between the files and the map (`AliasesKept`). So the entry a call finds or
  makes, with its successors, is one of the orders of its locale (`FamilyMade`,
  `EntryMade`), and a loop passes a file only if it lacks the message
  (`PassedMade`). `CallBest` follows a call through its list of locales;
  `RootBest` says the same of the remembered translations, while their counter is
  that of now. Files that could not be read only become more, so what was passed
  stays passed (`SoughtStays`).

These proofs assume what the code assumes of its input and does not check:
files are as `msgfmt` writes them (`WellFormed`: a message has a translation,
the hash table points to messages and its probes end), a plural rule has a value
for each number used, domains have files of their own, `strcmp` tells messages
apart, and the tables of locale names (`Families`) are closed. TLC evaluates
these assumptions on the catalogs and names of `MCGettext`. That `Family` gives a
closed table for every locale name is not proved: it is a fold over its parts.
For the same reason TLC evaluates (`PreferredOrder`), and no theorem states, that
for each locale of `MCGettext` the first lookup follows the order of preference
the comments promise, and the second the same order without the normalized
codesets.

Only model-checked: everything temporal beyond `[]`, since fairness and liveness
are out of the prover's reach. Every invariant of the passing runs is proved.

## 5. Abstractions and what is left out

* Memory order. The ring's pointers are `volatile`, without barriers; the
  models interleave single steps, which is what x86 gives. Weaker machines are
  not covered.
* `MaxBytes`, `MaxEvents`, `MaxMessages`, `MaxFed`, `MaxChanges`, `MaxOps`,
  `MaxFailures` bound the runs; the theorems hold for every value.
  `Capacity` and `Size` are constants of the code.
* `reconfigure`, `start_playing`, `stop_playing`, `panic`, `midi_panic`,
  `update_playback_time` and the position they keep have no caller in this
  program. `audio_shutdown` is called from `audio_initialize` only, at a time
  when the queue thread does not exist; `QueueThread` models it with the thread
  as the public function it is (`audiointerface.h`).
* The command line's hidden `-A` and `-M` take no argument and cannot name a
  driver; a dummy driver comes from an edited preferences file.
* The setup dialog is only shown with `setup`; `Subsystem` lets its main loop
  run in every session, which adds behaviours and removes none.
* `Preferences` has the drivers of the program, portaudio and portmidi. Text
  typed into the dialog's soundfont entry is assigned nowhere in the code, so
  it is no choice; the font is changed by its chooser.
* Platforms. `G_OS_WIN32` (`prefdialog.c:361`) and `FlagI`, whether the platform
  prints digits of its own (`loadmsgcat.c:755`), are constants; the runs have a
  platform that is not Windows and has the flag. `Listed` says whether PortAudio
  lists a device besides the default; the theorems hold for either value of all
  three.
* Translation. There is one thread: outside glibc the locks of `intl/` are empty.
  A plural rule is a function of the number; `Hash`, `MsgRank` and `NormOf` are
  functions on what occurs, so `hash_string`, `strcmp` and the normalization of
  codesets are not computed. Byte order changes nothing once a file is accepted.
  Allocation does not fail inside `_nl_make_l10nflist` (where it would leave a null
  successor, `l10nflist.c:353`) nor in the table of aliases (which would stay
  unsorted, `localealias.c:303`); an alias is given once. A converter has no state between
  its calls (`dcigettext.c:932` does not reset one), and a hash table has an empty place
  (with none, `loadmsgcat.c:1329` does not end). `localcharset.c`, which names the
  environment's charset, is a field of the environment; the wrappers
  (`gettext.c` and the like) pass their arguments on.
* Not modelled: rendering, the numbers of the temperament tables (floating point), soundfont
  parsing (`libs/libsffile`, not called), `binreloc.c`, paths and message dialogs
  (`utils.c`), windows and widgets, build and packages.

## 6. Plan

Done, in this order: ring buffer (it carries everything else), immediate queue,
queue thread, subsystem, preferences, play path, plural parser, translation
lookup; and proofs for all of them.

Left:

1. Composition: the play path on the frames of `ImmediateQueue`, and behind
   `InputChannel`, as one abstract instrument from key to synthesizer; the runs
   of the parts then become refinements of it.
2. The input lookup of `portmidiutil.c` by name, as `PortAudioDevices` does it.
3. Proofs: that `Family` is closed and in the order of preference for every name;
   it needs the successors of an entry as a function of its mask, in place of the
   fold.
