# Models of the OCaml and C ciphers

This directory holds TLA+ models of the ciphers of this repository, the TLC
configurations that check them on small instances, and TLAPS proofs about them.
The repository compares implementations of the same cipher in C, OCaml, C with
SIMD instructions and OxCaml with SIMD. It has no threads and no protocol; what
is hard about it is that the same bytes are computed in four ways, that
encryption and decryption must be inverse to each other *and* right, and that
most mistakes in a cipher cancel out in the round trip that its benchmark
programs verify. Round trips are therefore never the only property here: each
cipher is also compared with an abstract one.

## 1. The system

| Part | State it keeps | Operations | Meets |
|---|---|---|---|
| ChaCha20 context (`chacha20/c`, `c_simd`, `ocaml`) | 16 input words (key, counter, nonce), a 64-byte buffer, the cursor `next`, `iv_length` | create (OCaml), init, transform, extract | the block function, which fills the buffer and counts |
| ChaCha20 one shot (`chacha20/oxcaml_simd`) | none between calls | `chacha20_crypt` | the vector block function |
| ChaCha20 blocks (all four) | a working state of 16 words or 4 vectors | quarter rounds, double rounds, feed-forward | – |
| AES-128 by hand (`aes-128/c`, `ocaml`) | the global `inv_sbox` (C), round keys, a 4x4 state | key expansion, encryption and decryption of buffers | its driver, which pads and verifies |
| AES key setups (`rijndael/`, `aes-ni/`) | an array of round-key words or vectors | setup for encryption and decryption | the block functions |
| AES block functions (`rijndael/`, `aes-ni/`) | locals | encrypt, decrypt: rolled, unrolled, partial (known-answer tests), by instructions | the key setups |
| XOR (`xor/c`, `xor/ocaml`) | two programs, shared input, key and output files | read, strip, encrypt and decrypt ten times, write, verify | each other, through files of the same name |
| Drivers of the other ciphers (eleven programs) | buffers, a key, an exit status | read, pad, encrypt, decrypt, verify, report | the ciphers above; the scripts, through output and exit status |
| Run scripts and graphs (`aes-ni/`, `chacha20/`, `rijndael/`) | a table per script, pictures | empty the table, run a program per input, add rows, draw | the drivers; each other, through the tables |
| Generators, scripts without tables | files | create inputs, run | the drivers |

What is hard about each, and what makes it correct:

* **ChaCha20 context.** A call keeps the cursor in a local, refills the buffer
  in the middle, and leaves an unfinished block to the next call. A context may
  be set up again while its buffer still holds the last session's block. The
  counter has 32 bits next to a 12-byte nonce and 64 next to an 8-byte one.
  *Correct*: the bytes depend on key, nonce, counter and position only, never on
  how a message is cut into calls; no block of keystream is used twice before
  the counter has gone round; every call returns.
* **ChaCha20 one shot.** Counters are computed from block indices, apart for
  the whole blocks and the tail. *Correct*: every byte is xored once, with the
  keystream byte of its position; a second call undoes the first.
* **ChaCha20 blocks.** Scalars in place, or rows turned so that diagonals lie
  in lanes, with rotations done by byte shuffles. *Correct*: both compute the
  rounds of ChaCha.
* **AES-128 by hand.** The inverse S-box is filled at run time, blocks are
  copied in and out of buffers, the driver pads. *Correct*: every block runs
  through the rounds with the round keys of its key; decryption goes back
  through the same states.
* **AES key setups.** Sliding pointers, loops left from their middle, a 192-bit
  key that does not fill its registers, a schedule reversed in place.
  *Correct*: both families build the schedule of the key, and the schedule of
  the equivalent inverse cipher.
* **AES block functions.** Two rounds per turn, rounds skipped by key size,
  tables looked up in one direction or the other. *Correct*: all compute the
  rounds of AES, and every decryption undoes every encryption.
* **XOR.** Repeated passes for timing, `long` lengths passed as `int`, a key
  whose line ends are stripped by one program only, output files that both
  programs write, results of writes that are not looked at. *Correct*: passes do not build on each other, the verdict is
  right, and the two agree where they use the same key.

* **Drivers.** They differ in everything that surrounds a cipher: what they do
  with a tail, where the key comes from and how long it may be, which results of
  reading and allocating they look at, whether they test the cipher, whether
  they verify, and how a failure shows. *Correct*: programs of the same cipher
  make the same ciphertext of the same files, no unwritten memory gets into it,
  a verdict is true and a failure has a reason; every program ends.
* **Scripts and graphs.** Five ways of making rows of a program's output, one of
  which takes lines of statistics for rows, and graphs that join tables by row
  number. *Correct*: a table holds what the last run has put there and nothing
  else, running a script again repairs what a fault has left, no value is drawn
  at another input's size.

`PROJECT.json` lists the components with their files, and the hazards, each at
the line where it bites, with the properties aimed at it.

## 2. Modules

Abstract modules say what a component promises; the modules below them model
the code and are shown to implement them.

| Module | Models |
|---|---|
| `ChaChaState` | the counter and the places of keystream bytes; shared |
| `Keystream` | *abstract*: a session, a position, the keystream byte there |
| `ChaCha20Stream` | the context and its calls; refines `Keystream` |
| `ChaCha20Crypt` | `chacha20_crypt`, called twice |
| `ChaChaWords` | words modulo a power of two, rotations, the quarter round |
| `ChaChaRounds` | *abstract*: column and diagonal rounds, and the sum with the input |
| `ChaCha20Block` | the scalar and the vector block function side by side, each refining `ChaChaRounds` |
| `AesBytes` | bytes as bit vectors, `xtime`, the S-box as a constant permutation |
| `AesManual` | `aes-128/`: key expansion, both buffer functions, padding, verification |
| `AesLayout` | `AesManual` in lock step with the AES it is documented to be |
| `AesWords` | words and blocks of four bytes, the mixing matrices and tables by their laws; shared |
| `KeyWords` | *reference*: the recurrence of a key schedule |
| `RijndaelKeys`, `AesniKeys` | the two key setups |
| `KeySchedules` | both on the same key |
| `AesBlocks` | SubBytes, ShiftRows, MixColumns and the rounds made of them; shared |
| `AesRounds` | *abstract*: the states of an encryption, round by round |
| `AesCipher` | all block functions of `rijndael/` and `aes-ni/`; refines `AesRounds` |
| `XorFiles`, `XorC`, `XorOCaml` | the files, and the two programs of `xor/` |
| `XorBenchmark` | the two programs interleaved on the same files |
| `DriverRun` | *abstract*: a program as its script sees it: it works, then reports or gives up |
| `Drivers` | files, memory, start, arguments, failures and verdicts; shared |
| `BlockDrivers` | the seven drivers of `aes-128/`, `rijndael/`, `aes-ni/` |
| `StreamDrivers` | the four drivers of `chacha20/` |
| `BenchmarkPrograms` | one run of any of the eleven; refines `DriverRun` |
| `Campaign` | the run scripts of a directory and its graphs |
| `*_proofs` | the theorems and proofs about the module they are named after |
| `Benchmarks_proofs` | those about `BenchmarkPrograms` and `Campaign` |
| `MC*` | the values of constants for TLC |

`ChaCha20Stream`, `ChaCha20Crypt` and `Campaign` need numbers only, which their
own `.cfg` gives them. Each module of proofs begins with the facts about
quotients and remainders that it needs.

### How state and actions correspond to the code

* `ChaCha20Stream`: `input`, `output`, `next`, `iv_length` are the fields of the
  context, `n` and `len` the locals of `transform` and `extract`. `Call` enters
  a call, `FreshByte` is an iteration that calls the block function first,
  `BufferedByte` one that does not, `Return` writes the cursor back. A block of
  keystream is represented by the input it was made from: equal inputs make
  equal blocks, and nothing else about a block matters here. `session`, `pos`,
  `last` and `blocks` are history.
* `ChaCha20Crypt`: one action for a vector of a block, one for a byte of the
  tail, with the counters that the code computes for each.
* `ChaCha20Block`: one action per quarter round (scalar) and per vector quarter
  round or turn of rows (vector); rotations by 16 and 8 go through the shuffle
  table of the code, with a constant for the byte size.
* `AesManual`: one action per round-key word, transformation, and block copied;
  the four transformations are the functions of the code, applied to the 4x4
  state with the layout of the code. The inverse S-box is set up by its own
  action before the buffers are used, as `main` does it.
* `RijndaelKeys`: one action per assignment to a word of `rk`, with the test
  that leaves the loop; then one per pair of keys swapped and per key mixed.
* `AesniKeys`: one action per assist; each instruction is an operator with its
  name. The last two words of the second register of a 192-bit key come from
  `Junk`, the words that may lie behind the key.
* `AesCipher`: `impl` says which function runs (`rolled`, `unrolled`, `kat` for
  the functions with a number of rounds, `aesni`); one action per round. The
  tables are their defining columns, as the comment above them in the code has
  it; that the 4 KB of constants equal it is outside the model.
* `XorC` and `XorOCaml`: one action per byte, per pass, and for each output file
  one that opens it, which empties it, one that hands over a part of the buffer
  of any size, and one that closes it. `cpos` and `opos` are the offsets of the
  two programs in the file: a part goes to the places of its bytes, also if the
  other program has written there or has emptied the file in the meantime, and
  what nobody has written before it reads as zeros (`Written`). Every read and
  write may fail, with what the program then does: the C program exits with 1
  on a failed read, is killed by writing to a null `FILE *`, and does not notice
  a write that is cut short (`cut` is history); the OCaml program dies of an
  exception, at any byte or at the end.
* `BenchmarkPrograms`: `pc` names the part of `main` or `benchmark_file` that
  runs: `start` (the test of the block function, before anything else in two
  programs), `arguments`, `cpu`, `input`, `key`, `nonce`, `allocate`, then `init
  encrypt`, `encrypt`, `init decrypt`, `decrypt` (a step per block), `verify`,
  `exit`. A file is its length, or `Missing`. A byte is where it comes from:
  byte p of the input, the key or the nonce, padding, a byte of a fixed key, or
  memory nobody has written. AES of a block is a term of key, block and place;
  a byte xored with keystream is the set of the two, and xoring the same byte
  again takes it out. Whether a result is looked at is a set of programs
  (`UncheckedInput`, `UncheckedKey`): for these, reads may be short; for the
  others `Fails` ends the program with the status of its language. `fault` is
  the one thing that the code does not have: a cipher that decrypts one byte
  wrongly, or makes wrong keystream. It is there to ask what a verdict is worth.
  `DriverRun` sees `status`, `printed`, and whether the message came back.
* `Campaign`: `at` is the loop variable of each script, `table` the CSV file it
  appends to. `Style` says what each script does with the output of a program:
  `awk` that makes a row when it meets the line of the verdict, the output
  appended as it is, the same under `set -e`, the same for a program that prints
  statistics behind its row (`rijndael/ocaml/benchmark_rijndael_opt.ml`; only
  the scripts of `scripts_final_opt` leave them out), or a row made in any case
  from whatever fields were found. A line of statistics becomes a row with
  nothing in its fields, which is what `read_csv` makes of it. `Draw` is the graphs script: sizes from the C
  table, values by row number, and an error if lengths differ. `run` and `lost`
  are history.

## 3. Runs

All runs end by themselves; together they take about three minutes.

| Run | Question | Instance |
|---|---|---|
| `chacha_stream` | do buffer, cursor and counter stay in step through all sequences of calls, and does the context refine the keystream? | 3-value counter words, blocks of 2 bytes, calls of up to 3 bytes, 21 bytes per session |
| `chacha_crypt` | does every byte get the keystream of its position, whatever the length? | blocks of 8 bytes, lanes of 2, messages of 0 to 31 bytes, counter words of 2 values |
| `chacha_block` | do both block functions compute the rounds? | bytes of 2 bits, hence words of 8, rotations by 4, 3, 2 and 1 for 16, 12, 8 and 7; 3 double rounds; three inputs |
| `aes_manual` | do blocks, round keys and inverse rounds fit together? | bytes and S-box of the code, four messages: short, whole, padded, empty |
| `key_schedules` | do both setups build and invert the schedule? | 128, 192 and 256 bits, two keys, two words of junk |
| `aes_cipher` | do all implementations compute the rounds, and undo each other? | 10, 12 and 14 rounds, two schedules, two blocks, every pair of implementations |
| `xor_benchmark` | passes, stripping, verdicts, files | messages up to 9 bytes, keys up to 8, two passes, `IntMax` 3 |
| `xor_outputs` | *finding*: do the programs produce the same outputs? | as above |
| `benchmark_programs` | what reaches the ciphertext, when do programs agree, what is a verdict worth, does every program end as its script expects? | blocks of 2 bytes, files from missing to one byte too long, a fault at every byte or none |
| `campaign` | what do tables and pictures hold after failures, interruptions and repetitions? | 3 inputs, 3 lines of statistics, 3 starts of scripts, 2 faults |
| `failure_exits` | *finding*: do the programs of `aes-ni/` exit with an error when verification fails? | as `benchmark_programs` |
| `aes_layout` | *finding*: is `aes-128/` AES-128? | the example vector of FIPS-197 |

Why the bounds are enough:

* `chacha_stream`: with `W = 3` a 32-bit counter goes round after 3 blocks = 6
  bytes and a 64-bit one after 9 blocks = 18 bytes; 21 bytes per session go past
  both. Calls of 0 to 3 bytes on blocks of 2 give every alignment of a call to
  a block: none, part of one, exactly one, across one and across two. Two keys and
  the zero key of a created context are enough to tell a stale block from a new
  one.
* `chacha_crypt`: 31 = 3 blocks and a tail of 7; with `W = 2` the counter wraps
  within the message.
* `chacha_block`: places and rotations do not depend on the number of rounds;
  the second and third double rounds are there to see that one is followed
  rightly by the next. The proofs are for every number of rounds and word size.
* `aes_manual`: bytes are real bytes, so that the S-box and `xtime` are the
  code's own.
* `key_schedules`, `aes_cipher`: bytes of three bits, in a field of eight
  elements, with AES's own mixing matrices: these are polynomials whose product
  is one in any field of characteristic two. Numbers of rounds, of words and
  all loop bounds are the real ones.
* `xor_benchmark`: with `IntMax = 3` an int wraps around at 8: a message of 5
  bytes has a negative length in the C loops (2 GiB and more), one of 9 bytes a
  length of 1 (4 GiB and more), and a key of 8 bytes a length of 0. Two passes
  tell the first from a later one. Files of 3 bytes are written in up to three
  parts, so that one program can empty a file between two parts of the other.
  A new buffer is full of one byte that is no zero: what is left of it in a file
  differs from a hole, and the content of a buffer has no other use.
* `benchmark_programs`: `BlockLen`, `KeyLen`, `StreamLen` and `ShortNonce` are 2 for 16, 16,
  64 and 8, and `NonceLen` 3 for 12: what the code compares is whether a length
  is below, at or above these, and whether there is a tail. Inputs of 0, 1, 2, 4
  and 5 bytes are empty, a tail only, whole blocks, and blocks with a tail; keys
  are missing, empty, short, 16 bytes, one more (an end of line), 32 and one
  more; nonces are missing, short, 8 bytes, 12 and one more. Two values of
  unwritten memory are enough for it to change between two loads.
* `campaign`: three inputs, so that a row can be lost at the beginning, in
  between and at the end; three starts, so that a script is repeated while
  another is run; two faults, since one in each of two tables makes their
  lengths equal again. There are as many lines of statistics as inputs, 6 and 6
  in the scripts: `StatisticsAssumption`, that there are not fewer, keeps a
  table with statistics from being as long as a C table.

Properties beyond one type invariant per module:

* `StreamInv`: cursor, counter and buffered block are what the position in the
  session says; `FullPeriod`: block inputs differ until the counter has gone
  round; `RefinesKeystream`: `Keystream!Spec`; `CallReturns` (liveness).
* `CryptInv`: up to the frontier each byte has been xored once and rightly, and
  behind it none; `RoundTrip`.
* `RoundInProgress`: the quarter rounds of a round do not disturb each other;
  `ScalarRefines`, `VectorRefines`: both implement `ChaChaRounds`.
* `EncryptTraced`, `DecryptRetraces`, `RoundTrip` of `AesManual`: states run
  through the rounds of the key's schedule and back, at the block's place.
* `RijndaelScheduled`, `AesniScheduled`: at each moment the words finished so
  far satisfy the recurrence; `InverseSchedules`, `SameSchedules`.
* `EncryptRefines`, `DecryptRetraces`, `RoundTrip` of `AesCipher`.
* `KeyStripped`: the key ends where the line ends begin; `PassesRepeat`: no
  pass builds on the one before; `Verified`: lengths that fit an int give a
  passed verification, and none is come to with an empty key, unless the message
  is empty too; `FilesAgree`: however the two programs and the parts of their
  writes interleave, the output files end up with the common ciphertext and the
  message. After a write of the C program that is cut short they may hold the
  beginning of the text only, or all of it but for one hole of zeros: the OCaml
  program writes the first part, C opens and empties the file, OCaml writes the
  rest at its own offset, and C does not fill the gap, and both exit with 0.
* `UninitialisedBytes`: unwritten memory gets into a ciphertext in three ways
  only, each of them a known lack of a check: behind the part of the key that
  was read, in a tail that is left out, and behind files that are too short; `SameCiphertext`: the programs of
  a cipher that come to a report have made the cipher of the files;
  `FailuresExplained`: a message that does not come back has a reason in the
  cipher or in a short file; `RefinesDriverRun`: verdicts are true, a program
  without a true verdict to give exits with a status that is not 0 and prints
  no times, and every program ends.
* `TablesTrue`: rows of the last run only, each with its own input's values and
  in order, lines of text only where a program prints them, and all of them when
  nothing has failed; `OneFault`: one fault since the scripts were last started never
  puts a value at another size; `Recovers` (liveness): a script that is run
  again without a fault leaves a whole table, with the statistics if its program
  prints them; `GraphsFollow`: without a fault the graphs can be drawn, unless the
  script with the statistics has run, and then they cannot.

What the exceptions in these properties mean for a user is worth saying:
`rijndael/c` encrypts with a key completed by the stack if `key.txt` is short,
and verification passes; the plain OCaml program of `rijndael/` leaves the tail
of its output unwritten; a key file of 33 bytes is a 16-byte key to the OCaml
program of `chacha20/`, 32 bytes to the C program and an assertion failure to
the C SIMD program; and two faults in two tables, or drawing while a script
runs, can shift points of a graph. The runs show that there are no others.

Every one of them is violated by a mutant of the code that a plausible bug
would be; the mutants stand beside the definitions they replace and are listed
in `PROJECT.json`.

**Fairness.** `CallReturns` needs weak fairness of the steps inside a
call (`FreshByte`, `BufferedByte`, `Return`). A call of a sequential program
that can take a step does so until it returns; nothing is assumed about whether
or when a caller calls. `RefinesDriverRun` needs weak fairness of the whole
program, for the same reason: reading a file, allocating and encrypting return,
and nothing in it waits for anybody. `Recovers` needs weak fairness of the steps
of a script that runs: its program ends, which is what `DriverRun` says of it.
Starting, interrupting and drawing have no fairness. All other properties are
safety properties.

**Deadlock** is not checked (`CHECK_DEADLOCK FALSE`) where the program ends: a
block, a key setup, a driver, a campaign whose starts are used up. It is checked for `ChaCha20Stream` and
`ChaCha20Crypt`, where a caller can always go on.

### Findings

* `aes_layout`: `aes-128/` is documented as AES-128, but puts the bytes of a block
  and of a round key into its state by rows, where AES puts them in by columns.
  On the example of FIPS-197 it yields `e1d227ab...` instead of `69c4e0d8...`
  (the compiled C code yields the same as the model). It is a permutation with
  a right inverse, so that the verification of its drivers passes.
* `xor_outputs`: `xor/BENCHMARK.md` says that both programs use the same key and
  produce the same outputs. With a key file that ends with an end of line they
  do not: the C program strips it. With the generated key file they do.
* `failure_exits`: `aes-ni/README.md` says that all benchmarks exit with an error
  if verification fails. The C program prints `FAILED` and returns 0; the
  script makes a row of its times like of any other. The run needs a wrong
  block function to show it, and none is known.

Three more disagreements were met that no violated property is about.
`rijndael/BENCHMARK.md:111` says that the graphs are generated from the tables,
and `rijndael/README.md:152` has the reader run the scripts of `scripts_opt` and
then `graphs.py`. After `run_rijndael_ocaml_opt.sh`, without any fault, they
cannot be drawn (`GraphsFollow`): the program prints `GC Statistics` and five
more lines behind its row, the script appends them all to the table, and
`plt.plot` gets columns of different lengths. The committed table has none of
these lines, so it was not made by these two files as they are.
`rijndael/BENCHMARK.md:14`
has the programs use identical keys, but the plain OCaml program encrypts with
zeros (`OwnKey`). `aes-ni`'s scripts for `ocaml_results.csv` and
`oxcaml_simd_results.csv` run the same program, while the graphs draw them as
two implementations.

## 4. Proofs

Every safety invariant and every refinement or action property of the passing
runs is also proved with TLAPS, for every value of the constants that satisfies
the assumptions of the modules; of `RefinesDriverRun` it is the safety part.

* `ChaCha20Stream_proofs`: `TypeCorrect`, `StreamCorrect`, `PeriodCorrect`,
  `Refinement`. The inductive invariant is `TypeOK /\ StreamInv`: the
  conjuncts `BufferInSync`, `CounterInSync` and `Blocks` relate
  cursor, counter and history to the position. None is inductive alone, since
  a refill makes the next buffer from the counter, and the counter is only right
  because the number of blocks made so far is. `FullPeriod` follows, since the
  block inputs are the counters of consecutive indices; the refinement follows
  since the byte that is produced is the abstract one by `BufferInSync`.
  Assumed: `W` and `BlockLen` positive, the bounds natural numbers.
* `ChaCha20Crypt_proofs`: `CryptTypeCorrect`, `CryptCorrect`,
  `RoundTripCorrect`. The invariant `CryptInv` is inductive with the types: it
  says how far the call has come and what the bytes before and behind are.
* `ChaCha20Block_proofs`: `BlockTypeCorrect`, `RoundCorrect`, `ScalarCorrect`,
  `VectorCorrect`. The strengthening is `RoundInProgress`: the state in the
  middle of a round is the round's begin where quarter rounds are still to
  come, and its result where they are done. Both implement the same abstract
  rounds, hence compute the same block, for every word size, every number of
  rounds and every operation in the place of xor.
* `AesManual_proofs`: `AesTypeCorrect`, `EncryptionCorrect`,
  `DecryptionCorrect`, `RoundTripCorrect`, for every S-box that is a
  permutation, every key and every message. Lemmas show that each inverse
  transformation undoes its transformation (for the column mix this is the
  algebra of `xtime` on bits). The invariant that carries the decryption is
  `DecryptRetraces` with `EncryptTraced`: the state between two inverse
  transformations is the one of the encryption's trace.
* `KeySchedules_proofs`: `TypeCorrect`, `TableSchedule`, `AssistSchedule`,
  `InverseOrder`, `Interchangeable`, for every S-box with an inverse, all round
  constants, keys and junk. `IInv == KeyInv /\ RInv /\ AInv /\ AgreeInv`.
  `RInv` says of each place in the loop of `rijndaelKeySetupEnc` where the
  pointer is and which words are written, and of the two loops behind it which
  keys are swapped and mixed; `AInv` says that the registers of the assists are
  the last words of the part of the schedule that is complete. An assist makes
  four words by three shifted xors (lemma `Cascade`); those of a 192-bit key
  make six out of two registers, of which one is half junk, and the words that
  are stored never take the junk half in. That two schedules with the same
  recurrence and the same key are equal would be an induction; `AgreeInv`
  carries it along the steps instead: as far as both setups have come, their
  words are the same.
* `AesCipher_proofs`: `TypeCorrect`, `EncryptionRefines`, `DecryptionRetraces`,
  `DecryptionUndoes`, for every schedule, block and number of rounds, from the
  laws of `AesWords` that TLC evaluates on its instance. `IInv` is the
  conjunction of `CallInv` (who calls what), `LoopInv` (at each place of each
  implementation: round-key pointer, loop counter and number of rounds done),
  `TraceInv` (the trace is that of the rounds of AES), `LocalsInv` and
  `HeldInv` (which of the two sets of locals holds the state, and that it is the
  last of the trace), `OutputInv` and `RoundTrip`. The lemmas of the algebra: a
  round by table is a full round, and an inverse round commutes with the inverse
  mix, so that the equivalent inverse cipher meets the states of the encryption
  with their columns not yet mixed.
* `XorBenchmark_proofs`: `TypeCorrect`, `OnlyEolStripped`, `EveryPassRepeats`,
  `VerificationPasses`, `FilesHoldTheTexts`, for all files and every width of an
  int. `IInv == FileInv /\ CInv /\ OInv /\ CiphertextInv /\ DecryptedInv`:
  the buffers of each program hold the text up to its loop variable, and each
  part is kept by the other program's steps as well. Of a shared file the
  invariant says where its bytes come from (`Stretches`): since the file was
  last emptied each program has written one stretch, from the offset it had then
  to the one it has now. The program that emptied the file began at the
  beginning, the other one went on where it was. A program that comes to its end
  has written all of its text from that place on, unless it is the C program and
  its write was cut short: only then is there a gap, and a single one. The lemmas `Shared...` say what opening,
  writing and closing make of the two stretches. Lengths that do not
  fit an int are covered: the loop ends at once or early, and a key whose length
  is 0 as an int lets no byte through.
* `Benchmarks_proofs`, on the programs: `TypeCorrect`, `CiphertextsAgree`,
  `JunkHasThreeWays`, `FailuresHaveReasons`, for files of all lengths and every
  size of block, key and nonce. `IInv == StatusInv /\ BlockInv /\ StreamInv`
  says what a program has read by the time it is at a place of `main`, which
  checks it has passed, and of what the bytes done so far were made: AES of
  message blocks, or a byte together with the keystream of some session.
  Sessions are the difficulty: what an unchecked load finds behind a short file
  is some junk, and another one in the second session, so the invariant only has
  that there is one; the lemmas on sessions (`SessionLaw`) show that nothing
  depends on it if the files are long enough. `ProgramsAreRuns` is the
  refinement's safety, step by step: every action goes on, gives up with a
  status that is not 0, or reports what is true.
* `Benchmarks_proofs`, on the scripts: `CampaignTyped`, `TablesCorrect`,
  `GraphsAfterScripts`, `OneFaultHarmless`, for every number of inputs, starts and faults. In
  `CampaignInv` a table is made of the outputs of programs, each with the same
  number of lines of text behind its row (`Held`), and `Filled` says of these
  outputs that one is at most as far behind its place as outputs are missing; it
  is what makes `TablesTrue` inductive, and with it a table that is as long as a
  whole one has every row in place. The bound on `Total(lost)` then leaves a
  whole table to compare with; the table with statistics is not as long as a C
  table unless both are empty (`StatisticsAssumption`).

Assumed of constants beyond their types: S-boxes are permutations with the given
inverse, xor is commutative, associative and its own inverse, the columns of the
tables and the inverse mix obey the laws stated at their assumptions, and the
values `Missing` and `NoFault` are no numbers; and there are at least as many
lines of statistics as inputs. TLC evaluates all of these on the
instances.

Only model-checked: `CallReturns`, `Recovers`, and that every program ends
(`RefinesDriverRun` without its safety), since liveness under fairness is out of
the prover's reach; and the three findings, which are counterexamples.
Not proved at all: anything by induction over data, which the installed provers
cannot do; no module here needs it, since every loop is a sequence of steps.

## 5. Not modelled

* Key lengths other than 128, 192 and 256 bits in the key setups: rijndael's
  returns 0 rounds, the others abort, and no program asks for them.
* The content of the AES tables and of the RFC's test vectors: constant data,
  hence also `chacha20_simd_tests.ml`.
* Alignment and calling convention of the stubs of `aes-ni/`, and those stubs
  that cook keys or process whole blocks: `aesni.ml` calls only the ones for
  single instructions.
* Timing, formatting of results, usage messages, and what statistics say.
* Scripts of `xor/` and `aes-128/`, which write no table, and the Python that
  creates inputs or draws numbers written into it. The one thing of interest,
  the order in which `xor/`'s programs share files, is covered by `XorBenchmark`,
  which allows every order.
* Two runs of the same script at the same time, which would mix rows of two
  runs in one file.
* In the drivers' model: reading errors in the middle of `really_input` or
  `fread` count as a failure like any other; `chacha20_transform` runs block by
  block, since `ChaCha20Stream` shows that cutting a message makes no difference.

## 6. Plan

Done, in this order: the ChaCha20 context (the only component with state across
calls), the one-shot variant, the blocks under both, AES by hand, the key
setups, the block functions, xor, the drivers of the other ciphers, their
scripts and graphs; and the proofs of their safety in about the same order.

To come:

1. That the word recurrences of `KeyWords` determine a schedule from its key is
   proved along the steps of the two setups only; it could be stated for any two
   schedules, with a bounded case analysis per key size in place of an induction.
2. An abstract specification of the two xor programs together (a store of two
   texts), of which `FilesAgree` would be the safety part.
3. The key setups and the block functions composed: a block encrypted with the
   schedule one family made and decrypted with that of the other.
