------------------------- MODULE Benchmarks_proofs --------------------------
(***************************************************************************)
(* The benchmark programs and the campaigns that run them.  A program: its *)
(* buffers hold at every step what its cipher makes of the bytes read so   *)
(* far, so its report tells whether the file came back, and it fails for   *)
(* the three known reasons only.  A campaign: an output in a table is at   *)
(* most as far behind its place as outputs are missing, so a table that has *)
(* all its outputs has each at its place.                                  *)
(***************************************************************************)
EXTENDS Campaign, BenchmarkPrograms, SequenceTheorems, TLAPS

-----------------------------------------------------------------------------
(* Quotient and remainder by a positive modulus.                           *)
LEMMA DivMod ==
  ASSUME NEW a \in Int, NEW m \in Nat \ {0}
  PROVE  /\ a \div m \in Int
         /\ a % m \in 0 .. m-1
         /\ a = (a \div m) * m + (a % m)
OBVIOUS

(* Quotient and remainder are determined by the equation they satisfy.     *)
LEMMA DivModUnique ==
  ASSUME NEW m \in Nat \ {0}, NEW q \in Int, NEW r \in 0 .. m-1
  PROVE  /\ (q * m + r) \div m = q
         /\ (q * m + r) % m = r
<1> DEFINE a == q * m + r
<1> DEFINE d == a \div m
<1>1. a \in Int
  OBVIOUS
<1>2. /\ d \in Int /\ a % m \in 0 .. m-1
      /\ a = d * m + (a % m)
  BY <1>1, DivMod
<1> HIDE DEF d
<1>3. ASSUME d >= q + 1 PROVE FALSE
  <2>1. m * d >= m * (q + 1)
    BY <1>2, <1>3
  <2> QED BY <2>1, <1>2
<1>4. ASSUME q >= d + 1 PROVE FALSE
  <2>1. m * q >= m * (d + 1)
    BY <1>2, <1>4
  <2> QED BY <2>1, <1>2
<1>5. d = q
  BY <1>2, <1>3, <1>4
<1> QED BY <1>5, <1>2 DEF d

(* The parts of a natural number.                                          *)
LEMMA DivNat ==
  ASSUME NEW m \in Nat \ {0}, NEW a \in Nat
  PROVE  a \div m \in Nat
<1> DEFINE q == a \div m
<1>1. q \in Int /\ a % m \in 0 .. m-1 /\ a = q * m + (a % m)
  BY DivMod
<1> HIDE DEF q
<1>2. CASE q < 0
  <2>1. q * m <= (-1) * m
    BY <1>1, <1>2
  <2> QED BY <1>1, <2>1
<1>3. q \in Nat
  BY <1>1, <1>2
<1> QED BY <1>3 DEF q

LEMMA DivModParts ==
  ASSUME NEW m \in Nat \ {0}, NEW a \in Nat
  PROVE  \E q \in Nat, r \in 0 .. m-1 : a = q * m + r /\ a \div m = q /\ a % m = r
BY DivMod, DivNat

-----------------------------------------------------------------------------
(* The benchmark programs: how far a program has come.                     *)
Early == {"start", "arguments", "cpu", "input", "key", "nonce", "allocate"}

(* The program has verified, and ended with a report or with status 1.     *)
Reported == pc = "exit" /\ (status = "0" \/ (status = "1" /\ decrypted # <<>>))

(* The program has come past these places, and not failed on the way.      *)
Beyond(places) == pc \notin places /\ (pc = "exit" => Reported)
InputRead == Beyond({"start", "arguments", "cpu", "input"})
KeyRead == InputRead /\ pc # "key"
NonceRead == KeyRead /\ pc # "nonce"
Allocated == NonceRead /\ pc # "allocate"

IsBuffer(buf, n) == buf = [p \in 1 .. n |-> buf[p]]

StatusInv ==
  /\ prog \in BlockPrograms \cup StreamPrograms
  /\ pc \in PcStates /\ (pc = "exit" <=> status # "running")
  /\ status \in {"running", "0", "1", "2", "killed"}
  /\ printed \in {"nothing", "times", "PASSED", "FAILED"}
  /\ status = "running" => printed = "nothing"
  /\ printed = "FAILED" => status = "0"
  /\ pc \in Early => encrypted = <<>> /\ decrypted = <<>> /\ pos = 0
  /\ {inputLen, keyLen, nonceLen} \subseteq Nat \cup {Missing}
  /\ InputRead => inputLen \in Nat

-----------------------------------------------------------------------------
(* Blocks encrypted, and blocks decrypted.                                 *)
Enciphered == IF pc = "encrypt" THEN pos ELSE Blocks
Deciphered ==
  CASE pc = "encrypt" -> 0 [] pc = "decrypt" -> pos [] OTHER -> Blocks

CipherByte(n, j) == <<"aes", key, BlockAt(message, n), j>>
PlainByte(p) == IF p = fault THEN <<"wrong">> ELSE message[p]

MessageInv ==
  \/ message = <<>>
  \/ /\ inputLen \in Nat /\ IsBuffer(message, BufferLen)
     /\ \A p \in 1 .. BufferLen : message[p][1] \in {"file", "zero"}
KeyInv ==
  /\ IsBuffer(key, KeyLen)
  /\ prog \notin KeyFromFile => key = OwnKey
  /\ IF prog = "rijndael C" THEN \E n \in 0 .. KeyLen : KeyUpTo(n)
     ELSE \A p \in 1 .. KeyLen : key[p][1] # "junk"
BlockContents ==
  /\ IsBuffer(encrypted, BufferLen) /\ IsBuffer(decrypted, BufferLen)
  /\ pos \in 0 .. Blocks
  /\ message = <<>> => Enciphered = 0
  /\ \A n \in 0 .. Enciphered - 1, j \in 1 .. BlockLen :
       encrypted[n * BlockLen + j] = CipherByte(n, j)
  /\ \A n \in 0 .. Deciphered - 1, j \in 1 .. BlockLen :
       decrypted[n * BlockLen + j] = PlainByte(n * BlockLen + j)
BlockInv ==
  prog \in BlockPrograms =>
    /\ pc \notin {"nonce", "init encrypt", "init decrypt"}
    /\ fault \in Nat \cup {NoFault}
    /\ MessageInv
    /\ KeyRead => KeyInv
    /\ Allocated => BlockContents

-----------------------------------------------------------------------------
(* Bytes encrypted, and bytes decrypted.                                   *)
EncryptedBytes ==
  CASE pc = "init encrypt" -> 0 [] pc = "encrypt" -> pos * StreamLen
    [] OTHER -> inputLen
DecryptedBytes ==
  CASE pc \in {"init encrypt", "encrypt", "init decrypt"} -> 0
    [] pc = "decrypt" -> pos * StreamLen
    [] OTHER -> inputLen

Once(p) ==
  \E y \in Junk : encrypted[p] = {FileByte(p), KeystreamByte(Session(y), p - 1)}
Twice(p) ==
  \E y \in Junk : decrypted[p] = Toggle(encrypted[p], KeystreamByte(Session(y), p - 1))

StreamMessage == message = [p \in 1 .. inputLen |-> {FileByte(p)}]
KeyChecked == keyLen \in Nat /\ (prog = "chacha20 C" => keyLen >= LongKey)
NonceChecked == nonceLen \in Nat /\ (prog = "chacha20 C" => nonceLen >= NonceLen)
Loads == prog = "chacha20 OxCaml" => nonceLen >= NonceLen
ContextInv ==
  /\ \E y \in Junk : ctx.session = Session(y)
  /\ DOMAIN ctx = {"session", "at"}
  /\ pos * StreamLen <= inputLen => ctx.at = pos * StreamLen
StreamContents ==
  /\ IsBuffer(encrypted, inputLen) /\ IsBuffer(decrypted, inputLen)
  /\ pos \in Nat /\ (pos - 1) * StreamLen < inputLen
  /\ pc \in {"init encrypt", "init decrypt"} => pos = 0
  /\ pc # "init encrypt" => Asserted
  /\ pc \in {"encrypt", "decrypt"} /\ prog # "chacha20 OxCaml" => ContextInv
  /\ EncryptedBytes > 0 => Loads
  /\ \A p \in 1 .. inputLen :
       (p <= EncryptedBytes => Once(p)) /\ (p <= DecryptedBytes => Twice(p))
StreamInv ==
  prog \in StreamPrograms =>
    /\ Beyond({"start"}) /\ prog \in SelfTesting => fault = NoFault
    /\ InputRead => StreamMessage
    /\ KeyRead => KeyChecked
    /\ NonceRead => NonceChecked
    /\ Allocated => StreamContents

IInv == StatusInv /\ BlockInv /\ StreamInv

-----------------------------------------------------------------------------
LEMMA Sizes ==
  /\ BlockLen \in Nat \ {0} /\ KeyLen \in Nat \ {0} /\ StreamLen \in Nat \ {0}
  /\ NonceLen \in Nat \ {0} /\ ShortNonce \in Nat \ {0} /\ ShortNonce < NonceLen
  /\ LongKey \in Nat /\ LongKey = KeyLen + KeyLen
BY DriversAssumption DEF LongKey

LEMMA Padding ==
  ASSUME inputLen \in Nat
  PROVE  /\ PaddedLen \in Nat /\ inputLen <= PaddedLen /\ PaddedLen < inputLen + BlockLen
         /\ PaddedLen % BlockLen = 0
         /\ \E q \in Nat : PaddedLen = q * BlockLen /\ PaddedLen \div BlockLen = q
<1> DEFINE a == inputLen + BlockLen - 1
<1>1. a \in Nat
  BY Sizes
<1>2. PICK q \in Nat, r \in 0 .. BlockLen - 1 : a = q * BlockLen + r /\ a \div BlockLen = q
  BY <1>1, Sizes, DivModParts
<1>3. PaddedLen = q * BlockLen
  BY <1>2 DEF PaddedLen
<1>4. q * BlockLen \in Nat
  BY Sizes
<1>5. inputLen <= q * BlockLen /\ q * BlockLen < inputLen + BlockLen
  BY <1>2, <1>4, Sizes
<1>6. (q * BlockLen + 0) % BlockLen = 0 /\ (q * BlockLen + 0) \div BlockLen = q
  <2>1. 0 \in 0 .. BlockLen - 1
    BY Sizes
  <2> QED BY <2>1, Sizes, DivModUnique
<1>7. q * BlockLen + 0 = q * BlockLen
  BY <1>4
<1> QED BY <1>3, <1>4, <1>5, <1>6, <1>7

(* Every block of a buffer is within it; only the program that does not    *)
(* pad leaves a tail.                                                      *)
LEMMA BufferSize ==
  ASSUME inputLen \in Nat
  PROVE  /\ BufferLen \in Nat /\ inputLen <= BufferLen /\ BufferLen < inputLen + BlockLen
         /\ BufferLen % BlockLen = 0 \/ BufferLen = inputLen
         /\ Blocks \in Nat /\ Blocks * BlockLen <= BufferLen
         /\ prog # "rijndael OCaml" => BufferLen = PaddedLen /\ Blocks * BlockLen = BufferLen
         /\ prog = "rijndael OCaml" => Blocks = inputLen \div BlockLen
<1>1. CASE prog = "rijndael OCaml"
  <2>1. BufferLen = inputLen
    BY <1>1 DEF BufferLen
  <2>2. PICK q \in Nat, r \in 0 .. BlockLen - 1 :
          inputLen = q * BlockLen + r /\ inputLen \div BlockLen = q
    BY Sizes, DivModParts
  <2>3. Blocks = q
    BY <2>1, <2>2 DEF Blocks
  <2>4. q * BlockLen \in Nat
    BY Sizes
  <2>5. q * BlockLen <= inputLen /\ inputLen < inputLen + BlockLen /\ inputLen <= inputLen
    BY <2>2, <2>4, Sizes
  <2>6. Blocks * BlockLen = q * BlockLen
    BY <2>3
  <2>7. Blocks * BlockLen <= BufferLen
    BY <2>1, <2>5, <2>6
  <2> QED BY <1>1, <2>1, <2>2, <2>3, <2>5, <2>7
<1>2. CASE prog # "rijndael OCaml"
  <2>1. BufferLen = PaddedLen
    BY <1>2 DEF BufferLen
  <2>2. PICK q \in Nat : PaddedLen = q * BlockLen /\ PaddedLen \div BlockLen = q
    BY Padding
  <2>3. Blocks = q
    BY <2>1, <2>2 DEF Blocks
  <2>4. Blocks * BlockLen = BufferLen
    BY <2>1, <2>2, <2>3
  <2>5. BufferLen \in Nat /\ Blocks * BlockLen <= BufferLen
    BY <2>1, <2>4, Padding
  <2>6. /\ inputLen <= BufferLen /\ BufferLen < inputLen + BlockLen
        /\ BufferLen % BlockLen = 0
    BY <2>1, Padding
  <2> QED BY <1>2, <2>1, <2>3, <2>4, <2>5, <2>6
<1> QED BY <1>1, <1>2

(* Byte j of block n.                                                      *)
LEMMA PlaceInBlock ==
  ASSUME NEW m \in Nat \ {0}, NEW n \in Nat, NEW j \in 1 .. m
  PROVE  /\ n * m + j \in Nat /\ n * m \in Nat
         /\ (n * m + j - 1) \div m = n
         /\ ((n * m + j - 1) % m) + 1 = j
<1>1. n * m \in Nat
  OBVIOUS
<1>2. j - 1 \in 0 .. m - 1 /\ n * m + j - 1 = n * m + (j - 1)
  BY <1>1
<1>3. (n * m + (j - 1)) \div m = n /\ (n * m + (j - 1)) % m = j - 1
  BY <1>2, DivModUnique
<1> QED BY <1>1, <1>2, <1>3

LEMMA BlockOfPlace ==
  ASSUME NEW m \in Nat \ {0}, NEW p \in Nat \ {0}
  PROVE  \E n \in Nat, j \in 1 .. m :
           p = n * m + j /\ (p - 1) \div m = n /\ ((p - 1) % m) + 1 = j
<1>1. PICK n \in Nat, r \in 0 .. m - 1 :
        p - 1 = n * m + r /\ (p - 1) \div m = n /\ (p - 1) % m = r
  <2>1. p - 1 \in Nat
    OBVIOUS
  <2> QED BY <2>1, DivModParts
<1>2. n * m \in Nat /\ r + 1 \in 1 .. m /\ p = n * m + (r + 1)
  BY <1>1
<1> QED BY <1>1, <1>2

(* The order of places is that of blocks.                                  *)
LEMMA PlaceOrder ==
  ASSUME NEW m \in Nat \ {0}, NEW n \in Nat, NEW j \in 1 .. m, NEW k \in Nat
  PROVE  n < k <=> n * m + j <= k * m
<1>1. n * m \in Nat /\ k * m \in Nat
  OBVIOUS
<1>2. ASSUME n < k PROVE n * m + j <= k * m
  <2>1. (n + 1) * m <= k * m /\ (n + 1) * m = n * m + m
    BY <1>2
  <2> QED BY <1>1, <2>1
<1>3. ASSUME k <= n PROVE k * m < n * m + j
  <2>1. k * m <= n * m
    BY <1>3
  <2> QED BY <1>1, <2>1
<1> QED BY <1>1, <1>2, <1>3

LEMMA BufferLaws ==
  ASSUME NEW n \in Nat, NEW buf, IsBuffer(buf, n)
  PROVE  Len(buf) = n /\ DOMAIN buf = 1 .. n
<1> DEFINE b == [p \in 1 .. n |-> buf[p]]
<1>1. Len(b) = n /\ DOMAIN b = 1 .. n
  OBVIOUS
<1> QED BY <1>1 DEF IsBuffer

LEMMA MinOfTwo ==
  ASSUME NEW a \in Int, NEW b \in Int
  PROVE  Min({a, b}) = IF a <= b THEN a ELSE b
<1> DEFINE m == IF a <= b THEN a ELSE b
<1>1. m \in {a, b} /\ \A y \in {a, b} : m <= y
  OBVIOUS
<1>2. \A x \in {a, b} : (\A y \in {a, b} : x <= y) => x = m
  OBVIOUS
<1> QED BY <1>1, <1>2 DEF Min

-----------------------------------------------------------------------------
(* What depends on the files only.                                         *)
LEMMA FilesKept ==
  ASSUME UNCHANGED files
  PROVE  /\ UNCHANGED <<prog, inputLen, keyLen, nonceLen, fault, PaddedLen, BufferLen,
                        Blocks, IsLong, IsWide, Asserted, Loads, KeyChecked, NonceChecked,
                        Verdict>>
         /\ \A y : Session(y)' = Session(y)
         /\ \A s, n : KeystreamByte(s, n)' = KeystreamByte(s, n)
<1>1. UNCHANGED <<prog, inputLen, keyLen, nonceLen, fault>>
  BY DEF files
<1>2. UNCHANGED <<PaddedLen, IsLong, IsWide, Loads, KeyChecked, NonceChecked, Verdict,
                  Asserted>>
  BY <1>1 DEF PaddedLen, IsLong, IsWide, Loads, KeyChecked, NonceChecked, Verdict, Asserted
<1>3. UNCHANGED BufferLen
  BY <1>1, <1>2 DEF BufferLen
<1>4. UNCHANGED Blocks
  BY <1>3 DEF Blocks
<1>5. \A y : Session(y)' = Session(y)
  BY <1>1, <1>2 DEF Session, KeyPlace, Loaded
<1>6. \A s, n : KeystreamByte(s, n)' = KeystreamByte(s, n)
  BY <1>1 DEF KeystreamByte
<1> QED BY <1>1, <1>2, <1>3, <1>4, <1>5, <1>6

LEMMA MessageKept ==
  ASSUME MessageInv, UNCHANGED files, message' = message
  PROVE  MessageInv'
<1>1. UNCHANGED <<inputLen, BufferLen>>
  BY FilesKept
<1> QED BY <1>1 DEF MessageInv, IsBuffer

(* Block programs and stream programs.                                     *)
LEMMA Kinds ==
  /\ BlockPrograms \cap StreamPrograms = {}
  /\ SelfTesting \subseteq StreamPrograms
  /\ "chacha20 C" \in StreamPrograms /\ "chacha20 OxCaml" \in StreamPrograms
  /\ "rijndael C" \in BlockPrograms
BY DEF BlockPrograms, StreamPrograms, SelfTesting

LEMMA InitInv == Init => IInv
<1> SUFFICES ASSUME Init PROVE IInv
  OBVIOUS
<1>1. /\ pc = "start" /\ status = "running" /\ printed = "nothing" /\ message = <<>>
      /\ encrypted = <<>> /\ decrypted = <<>> /\ pos = 0 /\ inputLen \in InputLens
  BY DEF Init, DriversInit
<1>2. /\ prog \in BlockPrograms \cup StreamPrograms
      /\ {inputLen, keyLen, nonceLen} \subseteq Nat \cup {Missing}
  BY <1>1, DriversAssumption DEF Init
<1>3. StatusInv
  BY <1>1, <1>2 DEF StatusInv, PcStates, Early, InputRead, Beyond
<1>4. ASSUME prog \in BlockPrograms PROVE fault \in Nat \cup {NoFault}
  <2>1. fault \in {NoFault} \cup IF inputLen = Missing THEN {} ELSE 1 .. PaddedLen
    BY <1>4, Kinds DEF Init
  <2>2. CASE inputLen = Missing
    BY <2>1, <2>2
  <2>3. CASE inputLen # Missing
    <3>1. PaddedLen \in Nat
      BY <1>2, <2>3, Padding
    <3> QED BY <2>1, <2>3, <3>1
  <2> QED BY <2>2, <2>3
<1>5. BlockInv
  BY <1>1, <1>4 DEF BlockInv, MessageInv, InputRead, KeyRead, NonceRead, Allocated, Beyond
<1>6. StreamInv
  BY <1>1 DEF StreamInv, InputRead, KeyRead, NonceRead, Allocated, Beyond
<1> QED BY <1>3, <1>5, <1>6 DEF IInv

(* A program that ends without having verified.                            *)
LEMMA GaveUp ==
  ASSUME IInv, UNCHANGED <<files, buffers>>, pc' = "exit", printed' = "nothing",
         status' \in {"1", "2", "killed"}, status' = "1" => decrypted = <<>>
  PROVE  IInv'
<1>1. UNCHANGED <<prog, inputLen, keyLen, nonceLen, fault, message, encrypted, decrypted>>
  BY DEF files, buffers
<1>2. ~Reported'
  BY <1>1 DEF Reported
<1>3. ~InputRead' /\ ~KeyRead' /\ ~NonceRead' /\ ~Allocated' /\ ~Beyond({"start"})'
  BY <1>2 DEF InputRead, KeyRead, NonceRead, Allocated, Beyond
<1>4. StatusInv'
  BY <1>1, <1>3 DEF IInv, StatusInv, PcStates, Early
<1>5. BlockInv'
  <2>1. prog \in BlockPrograms => MessageInv'
    BY <1>1, MessageKept DEF IInv, BlockInv
  <2> QED BY <1>1, <1>3, <2>1 DEF IInv, BlockInv
<1>6. StreamInv'
  BY <1>3 DEF StreamInv
<1> QED BY <1>4, <1>5, <1>6 DEF IInv

LEMMA GivesUpInv ==
  ASSUME IInv, Usage \/ Fails
  PROVE  IInv'
<1>1. UNCHANGED <<files, buffers>> /\ pc' = "exit" /\ printed' = "nothing"
  BY DEF Usage, Fails, Exit
<1>2. CASE Usage
  <2>1. status' = "1" /\ decrypted = <<>>
    BY <1>2 DEF Usage, Exit, IInv, StatusInv, Early
  <2> QED BY <1>1, <2>1, GaveUp
<1>3. CASE Fails
  <2>1. status' \in {"1", "2"}
    BY <1>3 DEF Fails, Exit, FailStatus
  <2>2. CASE pc # "decrypt"
    <3>1. decrypted = <<>>
      BY <1>3, <2>2 DEF Fails, IInv, StatusInv, Early
    <3> QED BY <1>1, <2>1, <3>1, GaveUp
  <2>3. CASE pc = "decrypt"
    <3>1. prog \in AllocatesLate
      BY <1>3, <2>3 DEF Fails
    <3>2. status' = "2"
      BY <1>3, <3>1 DEF Fails, Exit, FailStatus, AllocatesLate, CPrograms
    <3> QED BY <1>1, <3>2, GaveUp
  <2> QED BY <2>2, <2>3
<1> QED BY <1>2, <1>3

(* A step before the buffers are there that leaves all of them alone.      *)
LEMMA WentOn ==
  ASSUME IInv, UNCHANGED <<files, buffers, status, printed>>, pc \in Early, pc' \in Early,
         pc' = "start" => pc = "start",
         InputRead' => InputRead \/ (inputLen \in Nat /\ prog = "rijndael C"),
         KeyRead' => KeyRead \/ (prog \in StreamPrograms /\ KeyChecked),
         NonceRead' => NonceRead \/ NonceChecked,
         pc' = "nonce" => prog \in StreamPrograms,
         prog \in SelfTesting /\ pc = "start" /\ pc' # "start" => fault = NoFault
  PROVE  IInv'
<1>1. UNCHANGED <<prog, inputLen, keyLen, nonceLen, fault, message, encrypted, decrypted,
                  key, pos, status, printed>>
  BY DEF files, buffers
<1>2. ~Allocated' /\ ~Allocated
  BY DEF Allocated, NonceRead, KeyRead, InputRead, Beyond, Early
<1>3. UNCHANGED <<KeyChecked, NonceChecked>>
  BY FilesKept
<1>4. StatusInv'
  BY <1>1 DEF IInv, StatusInv, PcStates, Early
<1>5. BlockInv'
  <2>1. prog \in BlockPrograms => MessageInv'
    BY <1>1, MessageKept DEF IInv, BlockInv
  <2>2. KeyRead' /\ prog \in BlockPrograms => KeyInv'
    BY <1>1, Kinds DEF IInv, BlockInv, KeyInv, KeyUpTo, IsBuffer, OwnKey
  <2>3. pc' \notin {"init encrypt", "init decrypt"}
    BY DEF Early
  <2> QED BY <1>1, <1>2, <2>1, <2>2, <2>3, Kinds DEF IInv, BlockInv
<1>6. StreamInv'
  <2>1. prog \in StreamPrograms /\ InputRead' => StreamMessage'
    BY <1>1, Kinds DEF IInv, StreamInv, StreamMessage
  <2>2. pc' # "exit" /\ pc # "exit"
    BY DEF Early
  <2> QED BY <1>1, <1>2, <1>3, <2>1, <2>2 DEF IInv, StreamInv, Beyond
<1> QED BY <1>4, <1>5, <1>6 DEF IInv

LEMMA PlacesRead ==
  /\ pc \in Early => ~Allocated
  /\ pc \in {"start", "arguments", "cpu", "input"} => ~InputRead
  /\ pc = "key" => InputRead /\ ~KeyRead
  /\ pc = "nonce" => KeyRead /\ ~NonceRead
  /\ pc = "allocate" => NonceRead /\ KeyRead
BY DEF Allocated, NonceRead, KeyRead, InputRead, Beyond, Early

LEMMA WaysOnInv ==
  ASSUME IInv,
         \/ SelfTest \/ Arguments \/ CheckCpu \/ ReadNowhere \/ ReadStreamKey \/ ReadNonce
  PROVE  IInv'
<1>1. UNCHANGED <<files, buffers>>
  BY DEF SelfTest, Arguments, CheckCpu, ReadNowhere, ReadStreamKey, ReadNonce
<1>2. CASE SelfTest
  <2>1. pc = "start" /\ decrypted = <<>> /\ pc \in Early
    BY <1>2 DEF SelfTest, IInv, StatusInv, Early
  <2>2. CASE prog \in SelfTesting /\ fault # NoFault
    <3>1. pc' = "exit" /\ status' = "1" /\ printed' = "nothing"
      BY <1>2, <2>2 DEF SelfTest, Exit
    <3> QED BY <1>1, <2>1, <3>1, GaveUp
  <2>3. CASE ~(prog \in SelfTesting /\ fault # NoFault)
    <3>1. pc' = "arguments" /\ UNCHANGED <<status, printed>>
      BY <1>2, <2>3 DEF SelfTest, Goto
    <3>2. pc' \in Early /\ ~InputRead' /\ ~KeyRead' /\ ~NonceRead'
      BY <3>1 DEF Early, InputRead, KeyRead, NonceRead, Beyond
    <3> QED BY <1>1, <2>1, <2>3, <3>1, <3>2, WentOn
  <2> QED BY <2>2, <2>3
<1>3. CASE Arguments
  <2>1. pc = "arguments" /\ pc' \in {"cpu", "input"} /\ UNCHANGED <<status, printed>>
    BY <1>3 DEF Arguments, Goto
  <2>2. pc \in Early /\ pc' \in Early /\ ~InputRead' /\ ~KeyRead' /\ ~NonceRead'
    BY <2>1 DEF Early, InputRead, KeyRead, NonceRead, Beyond
  <2> QED BY <1>1, <2>1, <2>2, WentOn
<1>4. CASE CheckCpu
  <2>1. pc = "cpu" /\ pc \in Early /\ decrypted = <<>>
    BY <1>4 DEF CheckCpu, IInv, StatusInv, Early
  <2>2. CASE Goto("input")
    <3>1. pc' = "input" /\ UNCHANGED <<status, printed>>
      BY <2>2 DEF Goto
    <3>2. pc' \in Early /\ ~InputRead' /\ ~KeyRead' /\ ~NonceRead'
      BY <3>1 DEF Early, InputRead, KeyRead, NonceRead, Beyond
    <3> QED BY <1>1, <2>1, <3>1, <3>2, WentOn
  <2>3. CASE Exit("1", "nothing")
    BY <1>1, <2>1, <2>3, GaveUp DEF Exit
  <2> QED BY <1>4, <2>2, <2>3 DEF CheckCpu
<1>5. CASE ReadNowhere
  <2>1. pc = "input" /\ pc \in Early /\ prog = "rijndael C" /\ inputLen \in Nat
    BY <1>5 DEF ReadNowhere, IInv, StatusInv, Early
  <2>2. CASE Goto("key")
    <3>1. pc' = "key" /\ UNCHANGED <<status, printed>>
      BY <2>2 DEF Goto
    <3>2. pc' \in Early /\ ~KeyRead' /\ ~NonceRead'
      BY <3>1 DEF Early, InputRead, KeyRead, NonceRead, Beyond
    <3> QED BY <1>1, <2>1, <3>1, <3>2, WentOn
  <2>3. CASE Exit("killed", "nothing")
    BY <1>1, <2>3, GaveUp DEF Exit
  <2> QED BY <1>5, <2>2, <2>3 DEF ReadNowhere
<1>6. CASE ReadStreamKey
  <2>1. /\ pc = "key" /\ pc' = "nonce" /\ UNCHANGED <<status, printed>>
        /\ prog \in StreamPrograms /\ KeyChecked
    BY <1>6 DEF ReadStreamKey, Goto, KeyChecked, IInv, StatusInv
  <2>2. pc \in Early /\ pc' \in Early /\ InputRead /\ ~NonceRead'
    BY <2>1 DEF Early, InputRead, KeyRead, NonceRead, Beyond
  <2> QED BY <1>1, <2>1, <2>2, WentOn
<1>7. CASE ReadNonce
  <2>1. pc = "nonce" /\ pc' = "allocate" /\ UNCHANGED <<status, printed>> /\ NonceChecked
    BY <1>7 DEF ReadNonce, Goto, NonceChecked, IInv, StatusInv
  <2>2. pc \in Early /\ pc' \in Early /\ InputRead /\ KeyRead
    BY <2>1 DEF Early, InputRead, KeyRead, Beyond
  <2> QED BY <1>1, <2>1, <2>2, WentOn
<1> QED BY <1>2, <1>3, <1>4, <1>5, <1>6, <1>7

-----------------------------------------------------------------------------
(* Reading the input and the key.                                          *)
LEMMA ReadBlocksInv ==
  ASSUME IInv, ReadBlocks
  PROVE  IInv'
<1>1. /\ pc = "input" /\ pc' = "key" /\ prog \in BlockPrograms /\ inputLen \in Nat
      /\ UNCHANGED <<files, status, printed, encrypted, decrypted, pos>>
  BY DEF ReadBlocks, Goto, IInv, StatusInv
<1>2. UNCHANGED <<prog, inputLen, keyLen, nonceLen, fault, BufferLen>>
  BY <1>1, FilesKept DEF files
<1>3. PICK n \in 0 .. inputLen :
        message' = [p \in 1 .. BufferLen |-> IF p <= n THEN FileByte(p) ELSE <<"zero">>]
  BY DEF ReadBlocks
<1>4. MessageInv'
  <2>1. \A p \in 1 .. BufferLen : message'[p][1] \in {"file", "zero"}
    <3>1. ASSUME NEW p \in 1 .. BufferLen PROVE message'[p][1] \in {"file", "zero"}
      <4>1. message'[p] \in {<<"file", p>>, <<"zero">>}
        BY <1>3 DEF FileByte
      <4> QED BY <4>1
    <3> QED BY <3>1
  <2>2. IsBuffer(message', BufferLen)
    BY <1>3 DEF IsBuffer
  <2> QED BY <1>1, <1>2, <2>1, <2>2 DEF MessageInv, IsBuffer
<1>5. ~KeyRead' /\ ~NonceRead' /\ ~Allocated' /\ pc' \in Early /\ pc \in Early
  BY <1>1 DEF KeyRead, NonceRead, Allocated, Early
<1>6. StatusInv'
  BY <1>1, <1>2, <1>5 DEF IInv, StatusInv, PcStates
<1>7. BlockInv'
  BY <1>1, <1>2, <1>4, <1>5 DEF IInv, BlockInv
<1>8. StreamInv'
  BY <1>1, <1>2, Kinds DEF StreamInv
<1> QED BY <1>6, <1>7, <1>8 DEF IInv

LEMMA ReadStreamInv ==
  ASSUME IInv, ReadStream
  PROVE  IInv'
<1>1. /\ pc = "input" /\ pc' = "key" /\ prog \in StreamPrograms /\ inputLen \in Nat
      /\ UNCHANGED <<files, status, printed, encrypted, decrypted, pos>>
      /\ message' = [p \in 1 .. inputLen |-> {FileByte(p)}]
  BY DEF ReadStream, Goto, IInv, StatusInv
<1>2. UNCHANGED <<prog, inputLen, keyLen, nonceLen, fault>>
  BY <1>1 DEF files
<1>3. ~KeyRead' /\ ~NonceRead' /\ ~Allocated' /\ pc' \in Early /\ pc \in Early
  BY <1>1 DEF KeyRead, NonceRead, Allocated, Early
<1>4. StatusInv'
  BY <1>1, <1>2, <1>3 DEF IInv, StatusInv, PcStates
<1>5. BlockInv'
  BY <1>1, <1>2, Kinds DEF BlockInv
<1>6. StreamInv'
  BY <1>1, <1>2, <1>3 DEF IInv, StreamInv, StreamMessage, Beyond
<1> QED BY <1>4, <1>5, <1>6 DEF IInv

LEMMA KeyTaken ==
  ASSUME IInv, pc = "key", prog \in BlockPrograms, pc' = "allocate",
         UNCHANGED <<files, status, printed, message, encrypted, decrypted, pos>>,
         KeyInv'
  PROVE  IInv'
<1>1. UNCHANGED <<prog, inputLen, keyLen, nonceLen, fault>>
  BY DEF files
<1>2. ~Allocated' /\ pc' \in Early /\ pc \in Early /\ InputRead
  BY DEF Allocated, Early, InputRead, Beyond
<1>3. StatusInv'
  BY <1>1, <1>2 DEF IInv, StatusInv, PcStates
<1>4. BlockInv'
  <2>1. MessageInv'
    BY MessageKept DEF IInv, BlockInv
  <2> QED BY <1>1, <1>2, <2>1 DEF IInv, BlockInv
<1>5. StreamInv'
  BY <1>1, Kinds DEF StreamInv
<1> QED BY <1>3, <1>4, <1>5 DEF IInv

LEMMA KeysInv ==
  ASSUME IInv, ReadKey \/ SetKey
  PROVE  IInv'
<1>1. /\ pc = "key" /\ pc' = "allocate" /\ prog \in BlockPrograms
      /\ UNCHANGED <<files, status, printed, message, encrypted, decrypted, pos>>
  BY DEF ReadKey, SetKey, Goto
<1>2. prog' = prog
  BY <1>1 DEF files
<1>3. CASE ReadKey
  <2>1. PICK n \in 0 .. Min({keyLen, KeyLen}), y \in Junk :
          /\ n < KeyLen => prog \in UncheckedKey
          /\ key' = [p \in 1 .. KeyLen |-> IF p <= n THEN KeyByte(p) ELSE JunkByte(y)]
    BY <1>3 DEF ReadKey
  <2>2. IsBuffer(key', KeyLen)
    BY <2>1 DEF IsBuffer
  <2>3. ASSUME prog # "rijndael C", NEW p \in 1 .. KeyLen
        PROVE  key'[p][1] # "junk"
    <3>1. keyLen \in Nat
      BY <1>3 DEF ReadKey, IInv, StatusInv
    <3>2. n \in Nat
      BY <3>1, Sizes, MinOfTwo
    <3>3. p <= n
      <4>1. ~(n < KeyLen)
        BY <2>1, <2>3 DEF UncheckedKey
      <4> QED BY <3>2, <4>1, Sizes
    <3>4. key'[p] = <<"key", p>>
      BY <2>1, <3>3 DEF KeyByte
    <3> QED BY <3>4
  <2>4. prog \in KeyFromFile
    BY <1>3 DEF ReadKey
  <2>5. n \in 0 .. KeyLen
    <3>1. keyLen \in Nat
      BY <1>3 DEF ReadKey, IInv, StatusInv
    <3> QED BY <3>1, Sizes, MinOfTwo
  <2>6. KeyUpTo(n)'
    <3>1. JunkByte(y)[1] = "junk"
      BY DEF JunkByte
    <3>2. \A i \in 1 .. KeyLen :
            key'[i] = IF i <= n THEN KeyByte(i) ELSE JunkByte(y)
      BY <2>1
    <3> QED BY <3>1, <3>2 DEF KeyUpTo
  <2>7. KeyInv'
    BY <1>2, <2>2, <2>3, <2>4, <2>5, <2>6 DEF KeyInv
  <2> QED BY <1>1, <2>7, KeyTaken
<1>4. CASE SetKey
  <2>1. key' = OwnKey
    BY <1>4 DEF SetKey
  <2>2. IsBuffer(key', KeyLen)
    BY <2>1 DEF OwnKey, IsBuffer
  <2>3. ASSUME NEW p \in 1 .. KeyLen
        PROVE  key'[p][1] # "junk"
    <3>1. key'[p] \in {<<"zero">>, <<"fixed", p>>}
      BY <2>1 DEF OwnKey
    <3> QED BY <3>1
  <2>4. prog' \notin KeyFromFile => key' = OwnKey'
    BY <1>2, <2>1 DEF OwnKey
  <2>5. KeyInv'
    <3>1. prog # "rijndael C" /\ prog' = prog
      BY <1>2, <1>4 DEF SetKey, KeyFromFile
    <3> QED BY <2>2, <2>3, <2>4, <3>1 DEF KeyInv
  <2> QED BY <1>1, <2>5, KeyTaken
<1> QED BY <1>3, <1>4

-----------------------------------------------------------------------------
(* Blocks taken from buffers and put into them.                            *)
LEMMA BlockAtLaw ==
  ASSUME NEW buf, NEW n \in Nat
  PROVE  BlockAt(buf, n) = [j \in 1 .. BlockLen |-> buf[n * BlockLen + j]]
<1> DEFINE T == {buf[n * BlockLen + j] : j \in 1 .. BlockLen}
           lo == n * BlockLen + 1
           hi == (n + 1) * BlockLen
           b == SubSeq(buf, lo, hi)
<1>1. n * BlockLen \in Nat /\ hi = n * BlockLen + BlockLen /\ BlockLen \in Nat
  BY Sizes
<1>2. lo \in Int /\ hi \in Int /\ hi - lo + 1 = BlockLen /\ lo <= hi
  BY <1>1, Sizes
<1>3. \A i \in lo .. hi : buf[i] \in T
  <2>1. ASSUME NEW i \in lo .. hi PROVE buf[i] \in T
    <3>1. i - n * BlockLen \in 1 .. BlockLen /\ n * BlockLen + (i - n * BlockLen) = i
      BY <1>1
    <3> QED BY <3>1
  <2> QED BY <2>1
<1> HIDE DEF T
<1>4. /\ b \in Seq(T) /\ Len(b) = BlockLen
      /\ \A i \in 1 .. BlockLen : b[i] = buf[lo + i - 1]
  <2> HIDE DEF lo, hi
  <2> QED BY <1>2, <1>3, SubSeqProperties
<1>5. \A i \in 1 .. BlockLen : lo + i - 1 = n * BlockLen + i
  BY <1>1
<1>6. b = [j \in 1 .. BlockLen |-> b[j]]
  <2> HIDE DEF b
  <2> QED BY <1>4
<1> HIDE DEF b
<1>7. b = [j \in 1 .. BlockLen |-> buf[n * BlockLen + j]]
  <2>1. \A j \in 1 .. BlockLen : b[j] = buf[n * BlockLen + j]
    BY <1>4, <1>5
  <2> QED BY <1>6, <2>1
<1> QED BY <1>7 DEF b, BlockAt

LEMMA PutBlockLaw ==
  ASSUME NEW len \in Nat, NEW buf, IsBuffer(buf, len), NEW n \in Nat, NEW block
  PROVE  /\ IsBuffer(PutBlock(buf, n, block), len)
         /\ \A m \in Nat, j \in 1 .. BlockLen :
              m * BlockLen + j <= len =>
                PutBlock(buf, n, block)[m * BlockLen + j] =
                  IF m = n THEN block[j] ELSE buf[m * BlockLen + j]
<1>1. DOMAIN buf = 1 .. len
  BY BufferLaws
<1>2. PutBlock(buf, n, block) =
        [p \in 1 .. len |->
           IF (p - 1) \div BlockLen = n THEN block[((p - 1) % BlockLen) + 1] ELSE buf[p]]
  BY <1>1 DEF PutBlock
<1>3. IsBuffer(PutBlock(buf, n, block), len)
  BY <1>2 DEF IsBuffer
<1>4. ASSUME NEW m \in Nat, NEW j \in 1 .. BlockLen, m * BlockLen + j <= len
      PROVE  PutBlock(buf, n, block)[m * BlockLen + j] =
               IF m = n THEN block[j] ELSE buf[m * BlockLen + j]
  <2> DEFINE p == m * BlockLen + j
  <2>1. p \in Nat /\ (p - 1) \div BlockLen = m /\ ((p - 1) % BlockLen) + 1 = j
    BY Sizes, PlaceInBlock
  <2>2. p \in 1 .. len
    <3>1. m * BlockLen \in Nat
      BY Sizes
    <3> QED BY <1>4, <2>1, <3>1
  <2> HIDE DEF p
  <2>3. PutBlock(buf, n, block)[p] = IF m = n THEN block[j] ELSE buf[p]
    BY <1>2, <2>1, <2>2
  <2> QED BY <2>3 DEF p
<1> QED BY <1>3, <1>4

LEMMA AllocateBlocksInv ==
  ASSUME IInv, AllocateBlocks
  PROVE  IInv'
<1>1. /\ pc = "allocate" /\ pc' = "encrypt" /\ prog \in BlockPrograms
      /\ encrypted' = [p \in 1 .. BufferLen |-> Unset]
      /\ decrypted' = [p \in 1 .. BufferLen |-> Unset]
      /\ UNCHANGED <<files, status, printed, message, key, pos>>
  BY DEF AllocateBlocks, Allocate, Goto
<1>2. UNCHANGED <<prog, inputLen, keyLen, nonceLen, fault, BufferLen, Blocks>>
  BY <1>1, FilesKept DEF files
<1>3. /\ InputRead /\ KeyRead /\ inputLen \in Nat /\ pos = 0 /\ KeyInv
      /\ status = "running"
  BY <1>1, PlacesRead, Kinds
     DEF IInv, StatusInv, BlockInv, Early, KeyRead
<1>4. StatusInv'
  BY <1>1, <1>2, <1>3 DEF IInv, StatusInv, PcStates, Early
<1>5. BlockContents'
  <2>1. IsBuffer(encrypted', BufferLen) /\ IsBuffer(decrypted', BufferLen)
    BY <1>1 DEF IsBuffer
  <2>2. Enciphered' = 0 /\ Deciphered' = 0 /\ pos' = 0 /\ 0 \in 0 .. Blocks
    <3>1. Blocks \in Nat
      BY <1>3, BufferSize
    <3> QED BY <1>1, <1>3, <3>1 DEF Enciphered, Deciphered
  <2> QED BY <1>2, <2>1, <2>2 DEF BlockContents, IsBuffer
<1>6. BlockInv'
  <2>1. MessageInv'
    BY <1>1, MessageKept DEF IInv, BlockInv
  <2>2. KeyInv'
    BY <1>1, <1>2, <1>3 DEF KeyInv, KeyUpTo, IsBuffer, OwnKey
  <2> QED BY <1>1, <1>2, <1>5, <2>1, <2>2 DEF IInv, BlockInv
<1>7. StreamInv'
  BY <1>1, <1>2, Kinds DEF StreamInv
<1> QED BY <1>4, <1>6, <1>7 DEF IInv

(* A step of the loops, which leaves message and key alone.                *)
LEMMA LoopStep ==
  ASSUME IInv, prog \in BlockPrograms, pc \in {"encrypt", "decrypt"},
         pc' \in {"encrypt", "decrypt", "verify"},
         UNCHANGED <<files, status, printed, message, key>>, BlockContents'
  PROVE  IInv'
<1>1. UNCHANGED <<prog, inputLen, keyLen, nonceLen, fault>>
  BY DEF files
<1>2. InputRead /\ KeyRead /\ status = "running"
  BY DEF InputRead, KeyRead, Beyond, IInv, StatusInv
<1>3. StatusInv'
  BY <1>1, <1>2 DEF IInv, StatusInv, PcStates, Early
<1>4. BlockInv'
  <2>1. MessageInv'
    BY MessageKept DEF IInv, BlockInv
  <2>2. KeyInv'
    BY <1>1, <1>2 DEF IInv, BlockInv, KeyInv, KeyUpTo, IsBuffer, OwnKey
  <2> QED BY <1>1, <2>1, <2>2 DEF IInv, BlockInv
<1>5. StreamInv'
  BY <1>1, Kinds DEF StreamInv
<1> QED BY <1>3, <1>4, <1>5 DEF IInv

LEMMA InLoop ==
  ASSUME IInv, prog \in BlockPrograms, pc \in {"encrypt", "decrypt", "verify"}
  PROVE  BlockContents /\ inputLen \in Nat /\ KeyInv /\ MessageInv
<1>1. Allocated /\ InputRead /\ KeyRead
  BY DEF Allocated, NonceRead, KeyRead, InputRead, Beyond
<1> QED BY <1>1 DEF IInv, BlockInv, StatusInv

LEMMA EncryptBlockInv ==
  ASSUME IInv, EncryptBlock
  PROVE  IInv'
<1>1. /\ pc = "encrypt" /\ prog \in BlockPrograms /\ pos < Blocks
      /\ UNCHANGED <<files, message, decrypted, key, ctx>>
  BY DEF EncryptBlock
<1>2. CASE message = <<>>
  <2>1. UNCHANGED <<files, buffers>> /\ pc' = "exit" /\ status' = "killed"
        /\ printed' = "nothing"
    BY <1>1, <1>2 DEF EncryptBlock, Exit, buffers
  <2> QED BY <2>1, GaveUp
<1>3. CASE message # <<>>
  <2>1. /\ encrypted' = PutBlock(encrypted, pos, Encrypt(key, BlockAt(message, pos)))
        /\ pos' = pos + 1 /\ UNCHANGED <<pc, status, printed>>
    BY <1>3 DEF EncryptBlock
  <2>2. UNCHANGED <<prog, inputLen, keyLen, nonceLen, fault, BufferLen, Blocks>>
    BY <1>1, FilesKept DEF files
  <2>3. BlockContents /\ inputLen \in Nat
    BY <1>1, InLoop
  <2>4. /\ BufferLen \in Nat /\ Blocks \in Nat /\ Blocks * BlockLen <= BufferLen
        /\ pos \in Nat /\ pos + 1 \in 0 .. Blocks
    <3>1. BufferLen \in Nat /\ Blocks \in Nat /\ Blocks * BlockLen <= BufferLen
      BY <2>3, BufferSize
    <3>2. pos \in 0 .. Blocks
      BY <2>3 DEF BlockContents
    <3> QED BY <1>1, <3>1, <3>2
  <2>5. Enciphered = pos /\ Deciphered = 0 /\ Enciphered' = pos + 1 /\ Deciphered' = 0
    BY <1>1, <2>1 DEF Enciphered, Deciphered
  <2>6. IsBuffer(encrypted, BufferLen) /\ IsBuffer(decrypted, BufferLen)
    BY <2>3 DEF BlockContents
  <2>7. IsBuffer(encrypted', BufferLen)
    BY <2>1, <2>4, <2>6, PutBlockLaw
  <2>8. ASSUME NEW n \in 0 .. pos, NEW j \in 1 .. BlockLen
        PROVE  encrypted'[n * BlockLen + j] = CipherByte(n, j)
    <3>1. n \in Nat /\ n * BlockLen + j <= BufferLen
      <4>1. n * BlockLen + j <= Blocks * BlockLen /\ n * BlockLen + j \in Nat
        BY <1>1, <2>4, Sizes, PlaceOrder, PlaceInBlock
      <4>2. Blocks * BlockLen \in Nat
        BY <2>4, Sizes
      <4> QED BY <2>4, <4>1, <4>2
    <3>2. encrypted'[n * BlockLen + j] =
            IF n = pos THEN Encrypt(key, BlockAt(message, pos))[j]
            ELSE encrypted[n * BlockLen + j]
      BY <2>1, <2>4, <2>6, <3>1, PutBlockLaw
    <3>3. CASE n = pos
      BY <3>2, <3>3 DEF Encrypt, CipherByte
    <3>4. CASE n # pos
      <4>1. n \in 0 .. Enciphered - 1
        BY <2>4, <2>5, <3>4
      <4> QED BY <2>3, <3>2, <3>4, <4>1 DEF BlockContents
    <3> QED BY <3>3, <3>4
  <2>9. \A n, j : CipherByte(n, j)' = CipherByte(n, j)
    BY <1>1 DEF CipherByte, BlockAt
  <2>10. BlockContents'
    <3>1. \A n \in 0 .. Enciphered' - 1, j \in 1 .. BlockLen :
            encrypted'[n * BlockLen + j] = CipherByte(n, j)'
      BY <2>4, <2>5, <2>8, <2>9
    <3>2. \A n \in 0 .. Deciphered' - 1 : FALSE
      BY <2>5
    <3> QED BY <1>1, <1>3, <2>1, <2>2, <2>4, <2>6, <2>7, <3>1, <3>2
            DEF BlockContents, IsBuffer
  <2> QED BY <1>1, <2>1, <2>10, LoopStep
<1> QED BY <1>2, <1>3

(* A block of the ciphertext decrypts to the block of the message, but for *)
(* the byte of the fault.                                                  *)
LEMMA DecryptLaw ==
  ASSUME NEW n \in Nat, NEW j \in 1 .. BlockLen,
         \A i \in 1 .. BlockLen : encrypted[n * BlockLen + i] = CipherByte(n, i)
  PROVE  Decrypt(key, BlockAt(encrypted, n), n)[j] = PlainByte(n * BlockLen + j)
<1> DEFINE block == BlockAt(encrypted, n)
           plain == BlockAt(message, n)
<1>1. 1 \in 1 .. BlockLen
  BY Sizes
<1>2. block = [i \in 1 .. BlockLen |-> CipherByte(n, i)]
  BY BlockAtLaw
<1>3. block = Encrypt(key, plain)
  BY <1>2 DEF Encrypt, CipherByte
<1>4. block[1] = <<"aes", key, plain, 1>>
  BY <1>1, <1>2 DEF CipherByte
<1>5. block[1][1] = "aes" /\ block[1][3] = plain
  BY <1>4
<1>6. plain[j] = message[n * BlockLen + j]
  <2>1. plain = [i \in 1 .. BlockLen |-> message[n * BlockLen + i]]
    BY BlockAtLaw
  <2> HIDE DEF plain
  <2> QED BY <2>1
<1> HIDE DEF block, plain
<1>7. Decrypt(key, block, n)[j] = IF n * BlockLen + j = fault THEN <<"wrong">> ELSE plain[j]
  BY <1>3, <1>5 DEF Decrypt
<1>8. Decrypt(key, block, n)[j] = PlainByte(n * BlockLen + j)
  BY <1>6, <1>7 DEF PlainByte
<1> QED BY <1>8 DEF block

LEMMA DecryptBlockInv ==
  ASSUME IInv, DecryptBlock
  PROVE  IInv'
<1>1. /\ pc = "decrypt" /\ prog \in BlockPrograms /\ pos < Blocks
      /\ decrypted' = PutBlock(decrypted, pos, Decrypt(key, BlockAt(encrypted, pos), pos))
      /\ pos' = pos + 1
      /\ UNCHANGED <<files, pc, status, printed, message, encrypted, key, ctx>>
  BY DEF DecryptBlock
<1>2. UNCHANGED <<prog, inputLen, keyLen, nonceLen, fault, BufferLen, Blocks>>
  BY <1>1, FilesKept DEF files
<1>3. BlockContents /\ inputLen \in Nat
  BY <1>1, InLoop
<1>4. /\ BufferLen \in Nat /\ Blocks \in Nat /\ Blocks * BlockLen <= BufferLen
      /\ pos \in Nat /\ pos + 1 \in 0 .. Blocks
  <2>1. BufferLen \in Nat /\ Blocks \in Nat /\ Blocks * BlockLen <= BufferLen
    BY <1>3, BufferSize
  <2>2. pos \in 0 .. Blocks
    BY <1>3 DEF BlockContents
  <2> QED BY <1>1, <2>1, <2>2
<1>5. /\ Enciphered = Blocks /\ Deciphered = pos
      /\ Enciphered' = Blocks /\ Deciphered' = pos + 1
  BY <1>1, <1>2 DEF Enciphered, Deciphered
<1>6. IsBuffer(encrypted, BufferLen) /\ IsBuffer(decrypted, BufferLen)
  BY <1>3 DEF BlockContents
<1>7. IsBuffer(decrypted', BufferLen)
  BY <1>1, <1>4, <1>6, PutBlockLaw
<1>8. ASSUME NEW n \in 0 .. pos, NEW j \in 1 .. BlockLen
      PROVE  decrypted'[n * BlockLen + j] = PlainByte(n * BlockLen + j)
  <2>1. n \in Nat /\ n * BlockLen + j <= BufferLen
    <3>1. n * BlockLen + j <= Blocks * BlockLen /\ n * BlockLen + j \in Nat
      BY <1>1, <1>4, Sizes, PlaceOrder, PlaceInBlock
    <3>2. Blocks * BlockLen \in Nat
      BY <1>4, Sizes
    <3> QED BY <1>4, <3>1, <3>2
  <2>2. decrypted'[n * BlockLen + j] =
          IF n = pos THEN Decrypt(key, BlockAt(encrypted, pos), pos)[j]
          ELSE decrypted[n * BlockLen + j]
    BY <1>1, <1>4, <1>6, <2>1, PutBlockLaw
  <2>3. CASE n = pos
    <3>1. pos \in 0 .. Enciphered - 1
      BY <1>1, <1>4, <1>5
    <3>2. \A i \in 1 .. BlockLen : encrypted[pos * BlockLen + i] = CipherByte(pos, i)
      BY <1>3, <3>1 DEF BlockContents
    <3> QED BY <1>4, <2>2, <2>3, <3>2, DecryptLaw
  <2>4. CASE n # pos
    <3>1. n \in 0 .. Deciphered - 1
      BY <1>4, <1>5, <2>4
    <3> QED BY <1>3, <2>2, <2>4, <3>1 DEF BlockContents
  <2> QED BY <2>3, <2>4
<1>9. /\ \A n, j : CipherByte(n, j)' = CipherByte(n, j)
      /\ \A p : PlainByte(p)' = PlainByte(p)
  BY <1>1, <1>2 DEF CipherByte, BlockAt, PlainByte
<1>10. BlockContents'
  <2>1. \A n \in 0 .. Deciphered' - 1, j \in 1 .. BlockLen :
          decrypted'[n * BlockLen + j] = PlainByte(n * BlockLen + j)'
    BY <1>4, <1>5, <1>8, <1>9
  <2>2. \A n \in 0 .. Enciphered' - 1, j \in 1 .. BlockLen :
          encrypted'[n * BlockLen + j] = CipherByte(n, j)'
    BY <1>1, <1>3, <1>5, <1>9 DEF BlockContents
  <2>3. message' = <<>> => Enciphered' = 0
    BY <1>1, <1>3, <1>5 DEF BlockContents
  <2> QED BY <1>1, <1>2, <1>4, <1>6, <1>7, <2>1, <2>2, <2>3 DEF BlockContents, IsBuffer
<1> QED BY <1>1, <1>10, LoopStep

LEMMA EndBlocksInv ==
  ASSUME IInv, EndBlocks
  PROVE  IInv'
<1>1. /\ pc \in {"encrypt", "decrypt"} /\ prog \in BlockPrograms /\ pos = Blocks
      /\ pos' = 0 /\ pc' = (IF pc = "encrypt" THEN "decrypt" ELSE "verify")
      /\ UNCHANGED <<files, status, printed, message, encrypted, decrypted, key, ctx>>
  BY DEF EndBlocks, Goto
<1>2. UNCHANGED <<prog, inputLen, keyLen, nonceLen, fault, BufferLen, Blocks>>
  BY <1>1, FilesKept DEF files
<1>3. BlockContents /\ inputLen \in Nat
  BY <1>1, InLoop
<1>4. Blocks \in Nat
  BY <1>3, BufferSize
<1>5. /\ Enciphered = Blocks /\ Enciphered' = Blocks
      /\ Deciphered' = IF pc = "encrypt" THEN 0 ELSE Deciphered
  BY <1>1, <1>2 DEF Enciphered, Deciphered
<1>6. /\ \A n, j : CipherByte(n, j)' = CipherByte(n, j)
      /\ \A p : PlainByte(p)' = PlainByte(p)
  BY <1>1, <1>2 DEF CipherByte, BlockAt, PlainByte
<1>7. \A n \in 0 .. Enciphered' - 1, j \in 1 .. BlockLen :
        encrypted'[n * BlockLen + j] = CipherByte(n, j)'
  BY <1>1, <1>3, <1>5, <1>6 DEF BlockContents
<1>8. \A n \in 0 .. Deciphered' - 1, j \in 1 .. BlockLen :
        decrypted'[n * BlockLen + j] = PlainByte(n * BlockLen + j)'
  BY <1>1, <1>3, <1>5, <1>6 DEF BlockContents
<1>9. BlockContents'
  <2>1. IsBuffer(encrypted, BufferLen)' /\ IsBuffer(decrypted, BufferLen)'
    BY <1>1, <1>2, <1>3 DEF BlockContents, IsBuffer
  <2>2. pos' \in 0 .. Blocks'
    BY <1>1, <1>2, <1>4
  <2>3. message' = <<>> => Enciphered' = 0
    <3>1. message = <<>> => Enciphered = 0
      BY <1>3 DEF BlockContents
    <3> QED BY <1>1, <1>5, <3>1
  <2> QED BY <1>2, <1>7, <1>8, <2>1, <2>2, <2>3 DEF BlockContents
<1>10. pc' \in {"decrypt", "verify"}
  BY <1>1
<1> QED BY <1>1, <1>9, <1>10, LoopStep

-----------------------------------------------------------------------------
(* The transformations.                                                    *)
Loops == {"init encrypt", "encrypt", "init decrypt", "decrypt"}

LEMMA BeforeFirst ==
  ASSUME NEW n \in Nat
  PROVE  0 * StreamLen = 0 /\ (0 - 1) * StreamLen < n
<1>1. StreamLen \in Nat \ {0}
  BY Sizes
<1>2. \A s \in Nat \ {0} : 0 * s = 0 /\ (0 - 1) * s < n
  OBVIOUS
<1> QED BY <1>1, <1>2

LEMMA InStream ==
  ASSUME IInv, prog \in StreamPrograms, pc \in Loops \cup {"verify"}
  PROVE  /\ StreamContents /\ inputLen \in Nat /\ StreamMessage /\ KeyChecked /\ NonceChecked
         /\ prog \in SelfTesting => fault = NoFault
         /\ status = "running"
<1>1. Allocated /\ InputRead /\ KeyRead /\ NonceRead /\ Beyond({"start"})
  BY DEF Allocated, NonceRead, KeyRead, InputRead, Beyond, Loops
<1> QED BY <1>1 DEF IInv, StreamInv, StatusInv, Loops

LEMMA StreamStep ==
  ASSUME IInv, prog \in StreamPrograms, pc \in Loops \cup {"allocate"},
         pc' \in Loops \cup {"verify"},
         UNCHANGED <<files, status, printed, message>>, StreamContents'
  PROVE  IInv'
<1>1. UNCHANGED <<prog, inputLen, keyLen, nonceLen, fault, KeyChecked, NonceChecked>>
  BY FilesKept DEF files
<1>2. /\ InputRead /\ KeyRead /\ NonceRead /\ Beyond({"start"}) /\ status = "running"
      /\ pc' # "start"
  BY DEF InputRead, KeyRead, NonceRead, Beyond, Loops, IInv, StatusInv
<1>3. StatusInv'
  BY <1>1, <1>2 DEF IInv, StatusInv, PcStates, Early, Loops
<1>4. BlockInv'
  BY <1>1, Kinds DEF BlockInv
<1>5. StreamInv'
  <2>1. StreamMessage'
    BY <1>1, <1>2 DEF IInv, StreamInv, StreamMessage
  <2> QED BY <1>1, <1>2, <2>1 DEF IInv, StreamInv
<1> QED BY <1>3, <1>4, <1>5 DEF IInv

LEMMA AllocateStreamInv ==
  ASSUME IInv, AllocateStream
  PROVE  IInv'
<1>1. /\ pc = "allocate" /\ pc' = "init encrypt" /\ prog \in StreamPrograms
      /\ encrypted' = [p \in 1 .. inputLen |-> {Unset}]
      /\ decrypted' = [p \in 1 .. inputLen |-> {Unset}]
      /\ UNCHANGED <<files, status, printed, message, key, pos>>
  BY DEF AllocateStream, Allocate, Goto
<1>2. UNCHANGED <<prog, inputLen>>
  BY <1>1 DEF files
<1>3. inputLen \in Nat /\ pos = 0
  BY <1>1, PlacesRead DEF IInv, StatusInv, Early, NonceRead, KeyRead
<1>4. IsBuffer(encrypted', inputLen) /\ IsBuffer(decrypted', inputLen)
  BY <1>1 DEF IsBuffer
<1>5. EncryptedBytes' = 0 /\ DecryptedBytes' = 0
  BY <1>1 DEF EncryptedBytes, DecryptedBytes
<1>6. pos' = 0 /\ (0 - 1) * StreamLen < inputLen
  BY <1>1, <1>3, BeforeFirst
<1>7. StreamContents'
  <2>1. \A p \in 1 .. inputLen : ~(p <= 0)
    BY <1>3
  <2>2. IsBuffer(encrypted, inputLen)' /\ IsBuffer(decrypted, inputLen)'
    BY <1>2, <1>4 DEF IsBuffer
  <2>3. pos' \in Nat /\ (pos' - 1) * StreamLen < inputLen'
    BY <1>2, <1>6
  <2>4. ~(EncryptedBytes' > 0)
    BY <1>5
  <2>5. \A p \in 1 .. inputLen' : ~(p <= EncryptedBytes') /\ ~(p <= DecryptedBytes')
    BY <1>2, <1>5, <2>1
  <2>6. pc' = "init encrypt" /\ pos' = 0
    BY <1>1, <1>6
  <2> QED BY <2>2, <2>3, <2>4, <2>5, <2>6 DEF StreamContents
<1> QED BY <1>1, <1>7, StreamStep DEF Loops

(* What the bytes are does not depend on where the program is.             *)
LEMMA BytesKept ==
  ASSUME UNCHANGED <<files, encrypted, decrypted>>
  PROVE  \A p : Once(p)' = Once(p) /\ Twice(p)' = Twice(p)
<1>1. /\ \A y : Session(y)' = Session(y)
      /\ \A s, n : KeystreamByte(s, n)' = KeystreamByte(s, n)
  BY FilesKept
<1>2. \A p, y : KeystreamByte(Session(y), p - 1)' = KeystreamByte(Session(y), p - 1)
  BY <1>1
<1> QED BY <1>2 DEF Once, Twice

LEMMA InitContextInv ==
  ASSUME IInv, InitContext
  PROVE  IInv'
<1>1. /\ pc \in {"init encrypt", "init decrypt"}
      /\ UNCHANGED <<files, message, encrypted, decrypted, key, pos>>
  BY DEF InitContext
<1>2. prog \in StreamPrograms
  BY <1>1 DEF IInv, StatusInv, BlockInv
<1>3. StreamContents /\ inputLen \in Nat
  BY <1>1, <1>2, InStream DEF Loops
<1>4. CASE ~Asserted
  <2>1. UNCHANGED <<files, buffers>> /\ pc' = "exit" /\ status' = "killed"
        /\ printed' = "nothing"
    BY <1>1, <1>4 DEF InitContext, Exit, buffers
  <2> QED BY <2>1, GaveUp
<1>5. CASE Asserted
  <2>1. /\ pc' = (IF pc = "init encrypt" THEN "encrypt" ELSE "decrypt")
        /\ UNCHANGED <<status, printed>>
    BY <1>5 DEF InitContext, Goto
  <2>2. UNCHANGED <<prog, inputLen, keyLen, nonceLen, fault, Asserted, Loads>>
    BY <1>1, FilesKept DEF files
  <2>3. pos = 0 /\ pos' = 0 /\ 0 * StreamLen = 0 /\ (0 - 1) * StreamLen < inputLen
    <3>1. pos = 0
      BY <1>1, <1>3 DEF StreamContents
    <3> QED BY <1>1, <1>3, <3>1, BeforeFirst
  <2>4. /\ EncryptedBytes' = EncryptedBytes /\ EncryptedBytes \in {0, inputLen}
        /\ DecryptedBytes' = 0
    BY <1>1, <2>1, <2>2, <2>3 DEF EncryptedBytes, DecryptedBytes
  <2>5. prog # "chacha20 OxCaml" => ContextInv'
    <3> SUFFICES ASSUME prog # "chacha20 OxCaml" PROVE ContextInv'
      OBVIOUS
    <3>1. PICK y \in Junk : ctx' = [session |-> Session(y), at |-> 0]
      BY <1>5 DEF InitContext, StartsAt
    <3>2. Session(y)' = Session(y)
      BY <1>1, FilesKept
    <3>3. ctx'.session = Session(y) /\ ctx'.at = 0 /\ DOMAIN ctx' = {"session", "at"}
      BY <3>1
    <3> QED BY <2>3, <3>2, <3>3 DEF ContextInv
  <2>6. \A p \in 1 .. inputLen : (p <= EncryptedBytes => Once(p))' /\ ~(p <= 0)
    <3>1. \A p : Once(p)' = Once(p)
      BY <1>1, BytesKept
    <3>2. \A p \in 1 .. inputLen : p <= EncryptedBytes => Once(p)
      BY <1>3 DEF StreamContents
    <3>3. \A p \in 1 .. inputLen : ~(p <= 0)
      BY <1>3
    <3> QED BY <2>4, <3>1, <3>2, <3>3
  <2>7. StreamContents'
    <3>1. IsBuffer(encrypted, inputLen)' /\ IsBuffer(decrypted, inputLen)'
      BY <1>1, <1>3, <2>2 DEF StreamContents, IsBuffer
    <3>2. (EncryptedBytes > 0 => Loads)'
      BY <1>3, <2>2, <2>4 DEF StreamContents
    <3>3. pc' \in {"encrypt", "decrypt"}
      BY <2>1
    <3> QED BY <1>5, <2>2, <2>3, <2>4, <2>5, <2>6, <3>1, <3>2, <3>3 DEF StreamContents
  <2> QED BY <1>1, <1>2, <2>1, <2>7, StreamStep DEF Loops
<1> QED BY <1>4, <1>5

LEMMA EndTransformInv ==
  ASSUME IInv, EndTransform
  PROVE  IInv'
<1>1. /\ pc \in {"encrypt", "decrypt"} /\ prog \in StreamPrograms
      /\ pos * StreamLen >= inputLen /\ pos' = 0
      /\ pc' = (IF pc = "encrypt" THEN "init decrypt" ELSE "verify")
      /\ UNCHANGED <<files, status, printed, message, encrypted, decrypted, key, ctx>>
  BY DEF EndTransform, Goto
<1>2. UNCHANGED <<prog, inputLen, keyLen, nonceLen, fault, Asserted, Loads>>
  BY <1>1, FilesKept DEF files
<1>3. StreamContents /\ inputLen \in Nat
  BY <1>1, InStream DEF Loops
<1>4. pos \in Nat /\ pos * StreamLen \in Nat /\ 0 * StreamLen = 0
      /\ (0 - 1) * StreamLen < inputLen
  <2>1. pos \in Nat
    BY <1>3 DEF StreamContents
  <2>2. pos * StreamLen \in Nat
    BY <2>1, Sizes
  <2> QED BY <1>3, <2>1, <2>2, BeforeFirst
<1>5. /\ EncryptedBytes' = inputLen
      /\ EncryptedBytes = IF pc = "encrypt" THEN pos * StreamLen ELSE inputLen
      /\ DecryptedBytes' = IF pc = "encrypt" THEN 0 ELSE inputLen
      /\ pc = "decrypt" => DecryptedBytes = pos * StreamLen
  BY <1>1, <1>2 DEF EncryptedBytes, DecryptedBytes
<1>6. ASSUME NEW p \in 1 .. inputLen
      PROVE  Once(p)' /\ (p <= DecryptedBytes => Twice(p))'
  <2>1. Once(p)' = Once(p) /\ Twice(p)' = Twice(p)
    BY <1>1, BytesKept
  <2>2. p <= inputLen /\ p <= pos * StreamLen /\ ~(p <= 0)
    <3> DEFINE done == pos * StreamLen
    <3>1. done \in Nat /\ done >= inputLen /\ inputLen \in Nat
      BY <1>1, <1>3, <1>4
    <3> HIDE DEF done
    <3>2. p <= inputLen /\ p <= done /\ ~(p <= 0)
      BY <3>1
    <3> QED BY <3>2 DEF done
  <2>3. Once(p)
    BY <1>3, <1>5, <2>2 DEF StreamContents
  <2>4. pc = "decrypt" => Twice(p)
    BY <1>3, <1>5, <2>2 DEF StreamContents
  <2> QED BY <1>1, <1>5, <2>1, <2>2, <2>3, <2>4
<1>7. (EncryptedBytes > 0 => Loads)'
  <2>1. inputLen > 0 => EncryptedBytes > 0
    <3> DEFINE done == pos * StreamLen
    <3>1. done \in Nat /\ done >= inputLen /\ inputLen \in Nat
      BY <1>1, <1>3, <1>4
    <3>2. EncryptedBytes \in {done, inputLen}
      BY <1>5
    <3> HIDE DEF done
    <3> QED BY <3>1, <3>2
  <2> QED BY <1>2, <1>3, <1>5, <2>1 DEF StreamContents
<1>8. StreamContents'
  <2>1. IsBuffer(encrypted, inputLen)' /\ IsBuffer(decrypted, inputLen)'
    BY <1>1, <1>2, <1>3 DEF StreamContents, IsBuffer
  <2>2. Asserted /\ pc' \in {"init decrypt", "verify"}
    BY <1>1, <1>3 DEF StreamContents
  <2> QED BY <1>1, <1>2, <1>4, <1>6, <1>7, <2>1, <2>2 DEF StreamContents
<1> QED BY <1>1, <1>8, StreamStep DEF Loops

(* The bytes before block pos, and block pos.                              *)
LEMMA StreamPlace ==
  ASSUME pos \in Nat, NEW p \in Nat \ {0}
  PROVE  /\ p <= pos * StreamLen => (p - 1) \div StreamLen # pos
         /\ p <= (pos + 1) * StreamLen =>
              p <= pos * StreamLen \/ (p - 1) \div StreamLen = pos
<1>1. PICK n \in Nat, j \in 1 .. StreamLen :
        p = n * StreamLen + j /\ (p - 1) \div StreamLen = n
  BY Sizes, BlockOfPlace
<1>2. n < pos <=> p <= pos * StreamLen
  BY <1>1, Sizes, PlaceOrder
<1>3. n < pos + 1 <=> p <= (pos + 1) * StreamLen
  <2>1. pos + 1 \in Nat
    OBVIOUS
  <2> QED BY <1>1, <2>1, Sizes, PlaceOrder
<1>4. (n < pos => n # pos) /\ (n < pos + 1 => n < pos \/ n = pos)
  OBVIOUS
<1> QED BY <1>1, <1>2, <1>3, <1>4

LEMMA XoredLaw ==
  ASSUME NEW n \in Nat, NEW dst, IsBuffer(dst, n), NEW src, NEW session,
         pos * StreamLen \in Nat
  PROVE  /\ IsBuffer(Xored(dst, src, session, pos * StreamLen), n)
         /\ \A p \in 1 .. n :
              Xored(dst, src, session, pos * StreamLen)[p] =
                IF (p - 1) \div StreamLen = pos
                THEN Toggle(src[p], KeystreamByte(session, p - 1)) ELSE dst[p]
<1>1. DOMAIN dst = 1 .. n
  BY BufferLaws
<1> DEFINE offset == pos * StreamLen
<1>2. Xored(dst, src, session, offset) =
        [p \in 1 .. n |->
           IF (p - 1) \div StreamLen = pos
           THEN Toggle(src[p], KeystreamByte(session, offset + p - 1 - offset)) ELSE dst[p]]
  BY <1>1 DEF Xored
<1>3. \A p \in 1 .. n : offset + p - 1 - offset = p - 1
  <2>1. offset \in Nat
    OBVIOUS
  <2> HIDE DEF offset
  <2> QED BY <2>1
<1> HIDE DEF offset
<1>4. IsBuffer(Xored(dst, src, session, offset), n)
  BY <1>2 DEF IsBuffer
<1>5. \A p \in 1 .. n :
        Xored(dst, src, session, offset)[p] =
          IF (p - 1) \div StreamLen = pos
          THEN Toggle(src[p], KeystreamByte(session, p - 1)) ELSE dst[p]
  BY <1>2, <1>3
<1> QED BY <1>4, <1>5 DEF offset

(* A byte of the message and a byte of the keystream are never the same,   *)
(* so the one does not take the other away.                                *)
LEMMA ToggleLaw ==
  ASSUME NEW p, NEW s, NEW n
  PROVE  Toggle({FileByte(p)}, KeystreamByte(s, n)) = {FileByte(p), KeystreamByte(s, n)}
<1>1. FileByte(p)[1] = "file" /\ KeystreamByte(s, n)[1] \in {"chacha", "wrong"}
  BY DEF FileByte, KeystreamByte
<1>2. FileByte(p) # KeystreamByte(s, n)
  BY <1>1
<1> QED BY <1>2 DEF Toggle

(* A block of one of the transformations, with the bytes behind the files  *)
(* as they are this time.                                                  *)
LEMMA XorBlockLaw ==
  ASSUME IInv, prog \in StreamPrograms, pc \in {"encrypt", "decrypt"},
         NEW y \in Junk, XorBlock(Session(y), pos * StreamLen),
         pos' = pos + 1, UNCHANGED <<files, pc, message>>
  PROVE  /\ IsBuffer(encrypted, inputLen)' /\ IsBuffer(decrypted, inputLen)'
         /\ \A p \in 1 .. inputLen :
              (p <= EncryptedBytes' => Once(p)') /\ (p <= DecryptedBytes' => Twice(p)')
<1>1. /\ StreamContents /\ inputLen \in Nat /\ StreamMessage
      /\ UNCHANGED <<prog, inputLen>>
  BY InStream DEF Loops, files
<1>2. pos \in Nat /\ IsBuffer(encrypted, inputLen) /\ IsBuffer(decrypted, inputLen)
  BY <1>1 DEF StreamContents
<1>3. pos * StreamLen \in Nat
  BY <1>2, Sizes
<1>4. \A p \in 1 .. inputLen :
        (p <= EncryptedBytes => Once(p)) /\ (p <= DecryptedBytes => Twice(p))
  BY <1>1 DEF StreamContents
<1>5. \A p, x : KeystreamByte(Session(x), p - 1)' = KeystreamByte(Session(x), p - 1)
  BY FilesKept
<1>6. \A p \in 1 .. inputLen : p \in Nat \ {0}
  BY <1>1
<1>7. CASE pc = "encrypt"
  <2>1. /\ encrypted' = Xored(encrypted, message, Session(y), pos * StreamLen)
        /\ decrypted' = decrypted
    BY <1>7 DEF XorBlock
  <2>2. /\ EncryptedBytes = pos * StreamLen /\ EncryptedBytes' = (pos + 1) * StreamLen
        /\ DecryptedBytes' = 0
    BY <1>7 DEF EncryptedBytes, DecryptedBytes
  <2>3. IsBuffer(encrypted', inputLen)
    BY <1>1, <1>2, <1>3, <2>1, XoredLaw
  <2>4. ASSUME NEW p \in 1 .. inputLen, p <= EncryptedBytes'
        PROVE  Once(p)'
    <3>1. encrypted'[p] = IF (p - 1) \div StreamLen = pos
                          THEN Toggle(message[p], KeystreamByte(Session(y), p - 1))
                          ELSE encrypted[p]
      BY <1>1, <1>2, <1>3, <2>1, XoredLaw
    <3>2. /\ p <= pos * StreamLen => (p - 1) \div StreamLen # pos
          /\ p <= pos * StreamLen \/ (p - 1) \div StreamLen = pos
      BY <1>2, <1>6, <2>2, <2>4, StreamPlace
    <3>3. CASE p <= pos * StreamLen
      <4>1. encrypted'[p] = encrypted[p] /\ Once(p)
        BY <1>4, <2>2, <3>1, <3>2, <3>3
      <4> QED BY <1>5, <4>1 DEF Once
    <3>4. CASE (p - 1) \div StreamLen = pos
      <4>1. message[p] = {FileByte(p)}
        BY <1>1 DEF StreamMessage
      <4>2. encrypted'[p] = {FileByte(p), KeystreamByte(Session(y), p - 1)}
        BY <3>1, <3>4, <4>1, ToggleLaw
      <4> QED BY <1>5, <4>2 DEF Once
    <3> QED BY <3>2, <3>3, <3>4
  <2>5. \A p \in 1 .. inputLen : ~(p <= DecryptedBytes')
    BY <1>6, <2>2
  <2> QED BY <1>1, <1>2, <2>1, <2>3, <2>4, <2>5 DEF IsBuffer
<1>8. CASE pc = "decrypt"
  <2>1. /\ decrypted' = Xored(decrypted, encrypted, Session(y), pos * StreamLen)
        /\ encrypted' = encrypted
    BY <1>8 DEF XorBlock
  <2>2. /\ EncryptedBytes = inputLen /\ EncryptedBytes' = inputLen
        /\ DecryptedBytes = pos * StreamLen /\ DecryptedBytes' = (pos + 1) * StreamLen
    BY <1>1, <1>8 DEF EncryptedBytes, DecryptedBytes
  <2>3. IsBuffer(decrypted', inputLen)
    BY <1>1, <1>2, <1>3, <2>1, XoredLaw
  <2>4. ASSUME NEW p \in 1 .. inputLen, p <= DecryptedBytes'
        PROVE  Twice(p)'
    <3>1. decrypted'[p] = IF (p - 1) \div StreamLen = pos
                          THEN Toggle(encrypted[p], KeystreamByte(Session(y), p - 1))
                          ELSE decrypted[p]
      BY <1>1, <1>2, <1>3, <2>1, XoredLaw
    <3>2. /\ p <= pos * StreamLen => (p - 1) \div StreamLen # pos
          /\ p <= pos * StreamLen \/ (p - 1) \div StreamLen = pos
      BY <1>2, <1>6, <2>2, <2>4, StreamPlace
    <3>3. CASE p <= pos * StreamLen
      <4>1. decrypted'[p] = decrypted[p] /\ Twice(p)
        BY <1>4, <2>2, <3>1, <3>2, <3>3
      <4> QED BY <1>5, <2>1, <4>1 DEF Twice
    <3>4. CASE (p - 1) \div StreamLen = pos
      <4>1. decrypted'[p] = Toggle(encrypted'[p], KeystreamByte(Session(y), p - 1))
        BY <2>1, <3>1, <3>4
      <4>2. \A a, b : Toggle(a, b)' = Toggle(a, b)
        BY DEF Toggle
      <4> QED BY <1>5, <4>1 DEF Twice, Toggle
    <3> QED BY <3>2, <3>3, <3>4
  <2>5. ASSUME NEW p \in 1 .. inputLen PROVE Once(p)'
    <3>1. Once(p)
      BY <1>4, <2>2
    <3> QED BY <1>5, <2>1, <3>1 DEF Once
  <2> QED BY <1>1, <1>2, <2>1, <2>3, <2>4, <2>5 DEF IsBuffer
<1> QED BY <1>7, <1>8

(* A block more.                                                           *)
LEMMA BlockMoreInv ==
  ASSUME IInv, prog \in StreamPrograms, pc \in {"encrypt", "decrypt"},
         pos * StreamLen < inputLen,
         NEW y \in Junk, XorBlock(Session(y), pos * StreamLen),
         pos' = pos + 1, UNCHANGED <<files, pc, status, printed, message>>,
         prog # "chacha20 OxCaml" => ContextInv',
         Loads
  PROVE  IInv'
<1>1. /\ StreamContents /\ inputLen \in Nat
      /\ UNCHANGED <<prog, inputLen, Asserted, Loads>>
  BY InStream, FilesKept DEF Loops
<1>2. pos \in Nat /\ Asserted
  BY <1>1 DEF StreamContents
<1>3. pos' \in Nat /\ (pos' - 1) * StreamLen < inputLen'
  <2>1. pos \in Nat /\ pos' = pos + 1
    BY <1>2
  <2>2. pos' \in Nat /\ pos' - 1 = pos
    BY ONLY <2>1
  <2> QED BY <1>1, <2>2
<1>4. /\ IsBuffer(encrypted, inputLen)' /\ IsBuffer(decrypted, inputLen)'
      /\ \A p \in 1 .. inputLen :
           (p <= EncryptedBytes' => Once(p)') /\ (p <= DecryptedBytes' => Twice(p)')
  BY XorBlockLaw
<1>5. StreamContents'
  <2>1. pc' \notin {"init encrypt", "init decrypt"} /\ Asserted' /\ Loads'
    BY <1>1, <1>2
  <2>2. pc' \in {"encrypt", "decrypt"} /\ prog' # "chacha20 OxCaml" => ContextInv'
    BY <1>1
  <2>3. \A p \in 1 .. inputLen' :
          (p <= EncryptedBytes' => Once(p)') /\ (p <= DecryptedBytes' => Twice(p)')
    BY <1>1, <1>4
  <2>4. IsBuffer(encrypted, inputLen)' /\ IsBuffer(decrypted, inputLen)'
    BY <1>4
  <2> QED BY <1>3, <2>1, <2>2, <2>3, <2>4 DEF StreamContents
<1> QED BY <1>5, StreamStep DEF Loops

LEMMA TransformBlockInv ==
  ASSUME IInv, TransformBlock
  PROVE  IInv'
<1>1. /\ pc \in {"encrypt", "decrypt"} /\ prog \in StreamPrograms
      /\ prog # "chacha20 OxCaml" /\ pos * StreamLen < inputLen
      /\ XorBlock(ctx.session, ctx.at)
      /\ ctx' = [ctx EXCEPT !.at = @ + Min({StreamLen, inputLen - pos * StreamLen})]
      /\ pos' = pos + 1
      /\ UNCHANGED <<files, pc, status, printed, message>>
  BY DEF TransformBlock
<1>2. StreamContents /\ inputLen \in Nat /\ inputLen' = inputLen
  BY <1>1, InStream DEF Loops, files
<1>3. pos \in Nat /\ ContextInv
  BY <1>1, <1>2 DEF StreamContents
<1>4. pos * StreamLen \in Nat /\ (pos + 1) * StreamLen = pos * StreamLen + StreamLen
  BY <1>3, Sizes
<1>5. PICK y \in Junk : ctx.session = Session(y)
  BY <1>3 DEF ContextInv
<1>6. ctx.at = pos * StreamLen /\ DOMAIN ctx = {"session", "at"}
  <2>1. pos * StreamLen <= inputLen
    <3> DEFINE done == pos * StreamLen
    <3>1. done \in Nat /\ done < inputLen /\ inputLen \in Nat
      BY <1>1, <1>2, <1>4
    <3> HIDE DEF done
    <3>2. done <= inputLen
      BY <3>1
    <3> QED BY <3>2 DEF done
  <2> QED BY <1>3, <2>1 DEF ContextInv
<1>7. ContextInv'
  <2> DEFINE done == pos * StreamLen
             step == Min({StreamLen, inputLen - done})
  <2>1. ctx'.session = ctx.session /\ ctx'.at = ctx.at + step
        /\ DOMAIN ctx' = {"session", "at"}
    <3> HIDE DEF step
    <3> QED BY <1>1, <1>6 DEF step
  <2>2. done + StreamLen <= inputLen => step = StreamLen
    <3>1. done \in Nat /\ StreamLen \in Nat
      BY <1>4, Sizes
    <3> HIDE DEF done
    <3>2. step = IF StreamLen <= inputLen - done THEN StreamLen ELSE inputLen - done
      BY <1>2, <3>1, MinOfTwo
    <3> HIDE DEF step
    <3> QED BY <1>2, <3>1, <3>2
  <2>3. pos' * StreamLen = done + StreamLen
    BY <1>1, <1>4
  <2>4. Session(y)' = Session(y)
    BY <1>1, FilesKept
  <2>5. pos' * StreamLen <= inputLen => ctx'.at = pos' * StreamLen
    <3> HIDE DEF step
    <3>1. ctx'.at = done + step
      BY <1>6, <2>1
    <3> HIDE DEF done
    <3> QED BY <2>2, <2>3, <3>1
  <2>6. StreamLen' = StreamLen
    OBVIOUS
  <2> HIDE DEF step
  <2> QED BY <1>2, <1>5, <2>1, <2>4, <2>5 DEF ContextInv
<1>8. XorBlock(Session(y), pos * StreamLen)
  BY <1>1, <1>5, <1>6
<1>9. Loads
  BY <1>1 DEF Loads
<1> QED BY <1>1, <1>7, <1>8, <1>9, BlockMoreInv

LEMMA CryptBlockInv ==
  ASSUME IInv, CryptBlock
  PROVE  IInv'
<1>1. /\ pc \in {"encrypt", "decrypt"} /\ prog = "chacha20 OxCaml"
      /\ prog \in StreamPrograms /\ pos * StreamLen < inputLen
      /\ UNCHANGED <<files, message, key, ctx>>
  BY Kinds DEF CryptBlock
<1>2. CASE nonceLen < NonceLen
  <2>1. UNCHANGED <<files, buffers>> /\ pc' = "exit" /\ status' = "2"
        /\ printed' = "nothing"
    BY <1>2 DEF CryptBlock, Exit, buffers
  <2> QED BY <2>1, GaveUp
<1>3. CASE ~(nonceLen < NonceLen)
  <2>1. PICK y \in Junk : XorBlock(Session(y), pos * StreamLen)
    BY <1>3 DEF CryptBlock
  <2>2. pos' = pos + 1 /\ UNCHANGED <<pc, status, printed>>
    BY <1>3 DEF CryptBlock
  <2>3. Loads
    <3>1. nonceLen \in Nat
      BY <1>1, InStream DEF Loops, NonceChecked
    <3>2. nonceLen >= NonceLen
      BY <1>3, <3>1, Sizes
    <3> QED BY <3>2 DEF Loads
  <2> QED BY <1>1, <2>1, <2>2, <2>3, BlockMoreInv
<1> QED BY <1>2, <1>3

LEMMA VerifyInv ==
  ASSUME IInv, Verify
  PROVE  IInv'
<1>1. /\ pc = "verify" /\ pc' = "exit" /\ status' \in {"0", "1"}
      /\ printed' \in {"nothing", "times", "PASSED", "FAILED"}
      /\ printed' = "FAILED" => status' = "0"
      /\ UNCHANGED <<files, buffers>>
  BY DEF Verify, Exit
<1>2. UNCHANGED <<prog, inputLen, keyLen, nonceLen, fault, message, encrypted, decrypted,
                  key, ctx, pos, BufferLen, Blocks, Asserted, Loads, KeyChecked,
                  NonceChecked>>
  BY <1>1, FilesKept DEF files, buffers
<1>3. InputRead /\ KeyRead /\ NonceRead /\ Allocated /\ Beyond({"start"})
  BY <1>1 DEF InputRead, KeyRead, NonceRead, Allocated, Beyond
<1>4. StatusInv'
  BY <1>1, <1>2, <1>3 DEF IInv, StatusInv, PcStates, Early
<1>5. BlockInv'
  <2> SUFFICES ASSUME prog \in BlockPrograms PROVE BlockInv'
    BY <1>2 DEF BlockInv
  <2>1. BlockContents /\ KeyInv
    BY <1>1, InLoop
  <2>2. MessageInv'
    BY <1>1, <1>2, MessageKept DEF IInv, BlockInv
  <2>3. KeyInv'
    BY <1>2, <2>1 DEF KeyInv, KeyUpTo, IsBuffer, OwnKey
  <2>4. Enciphered' = Enciphered /\ Deciphered' = Deciphered
    BY <1>1, <1>2 DEF Enciphered, Deciphered
  <2>5. /\ \A n, j : CipherByte(n, j)' = CipherByte(n, j)
        /\ \A p : PlainByte(p)' = PlainByte(p)
    BY <1>2 DEF CipherByte, BlockAt, PlainByte
  <2>6. BlockContents'
    BY <1>2, <2>1, <2>4, <2>5 DEF BlockContents, IsBuffer
  <2> QED BY <1>1, <1>2, <2>2, <2>3, <2>6 DEF IInv, BlockInv
<1>6. StreamInv'
  <2> SUFFICES ASSUME prog \in StreamPrograms PROVE StreamInv'
    BY <1>2 DEF StreamInv
  <2>1. /\ StreamContents /\ StreamMessage /\ KeyChecked /\ NonceChecked
        /\ prog \in SelfTesting => fault = NoFault
    BY <1>1, InStream
  <2>2. EncryptedBytes' = EncryptedBytes /\ DecryptedBytes' = DecryptedBytes
    BY <1>1, <1>2 DEF EncryptedBytes, DecryptedBytes
  <2>3. \A p : Once(p)' = Once(p) /\ Twice(p)' = Twice(p)
    BY <1>1, <1>2, BytesKept
  <2>4. IsBuffer(encrypted, inputLen)' /\ IsBuffer(decrypted, inputLen)'
    BY <1>2, <2>1 DEF StreamContents, IsBuffer
  <2>5. \A p \in 1 .. inputLen' :
          (p <= EncryptedBytes' => Once(p)') /\ (p <= DecryptedBytes' => Twice(p)')
    BY <1>2, <2>1, <2>2, <2>3 DEF StreamContents
  <2>6. StreamContents'
    BY <1>1, <1>2, <2>1, <2>2, <2>4, <2>5 DEF StreamContents
  <2>7. StreamMessage'
    BY <1>2, <2>1 DEF StreamMessage
  <2> QED BY <1>2, <2>1, <2>6, <2>7 DEF StreamInv
<1> QED BY <1>4, <1>5, <1>6 DEF IInv

LEMMA StutterInv ==
  ASSUME IInv, UNCHANGED vars
  PROVE  IInv'
<1>1. UNCHANGED <<prog, inputLen, keyLen, nonceLen, fault, pc, status, printed, message,
                  encrypted, decrypted, key, ctx, pos>>
  BY DEF vars, files, buffers
<1>2. UNCHANGED <<BufferLen, Blocks, Asserted, Loads, KeyChecked, NonceChecked>>
  BY FilesKept DEF vars
<1>3. UNCHANGED <<InputRead, KeyRead, NonceRead, Allocated, Beyond({"start"})>>
  BY <1>1 DEF InputRead, KeyRead, NonceRead, Allocated, Beyond, Reported
<1>4. StatusInv'
  BY <1>1, <1>3 DEF IInv, StatusInv, PcStates, Early
<1>5. BlockInv'
  <2>1. MessageInv => MessageInv'
    BY <1>1, MessageKept DEF vars
  <2>2. KeyInv => KeyInv'
    BY <1>1 DEF KeyInv, KeyUpTo, IsBuffer, OwnKey
  <2>3. BlockContents => BlockContents'
    BY <1>1, <1>2 DEF BlockContents, IsBuffer, Enciphered, Deciphered, CipherByte,
                      PlainByte, BlockAt
  <2> QED BY <1>1, <1>3, <2>1, <2>2, <2>3 DEF IInv, BlockInv
<1>6. StreamInv'
  <2>1. StreamContents => StreamContents'
    <3> SUFFICES ASSUME StreamContents PROVE StreamContents'
      OBVIOUS
    <3>1. EncryptedBytes' = EncryptedBytes /\ DecryptedBytes' = DecryptedBytes
      BY <1>1 DEF EncryptedBytes, DecryptedBytes
    <3>2. \A p : Once(p)' = Once(p) /\ Twice(p)' = Twice(p)
      BY <1>1, BytesKept DEF vars
    <3>3. ContextInv => ContextInv'
      <4>1. \A y : Session(y)' = Session(y)
        BY FilesKept DEF vars
      <4> QED BY <1>1, <4>1 DEF ContextInv
    <3>4. IsBuffer(encrypted, inputLen)' /\ IsBuffer(decrypted, inputLen)'
      BY <1>1 DEF StreamContents, IsBuffer
    <3> QED BY <1>1, <1>2, <3>1, <3>2, <3>3, <3>4 DEF StreamContents
  <2>2. StreamMessage => StreamMessage'
    BY <1>1 DEF StreamMessage
  <2> QED BY <1>1, <1>2, <1>3, <2>1, <2>2 DEF IInv, StreamInv
<1> QED BY <1>4, <1>5, <1>6 DEF IInv

LEMMA NextInv == IInv /\ [Next]_vars => IInv'
<1> SUFFICES ASSUME IInv, [Next]_vars PROVE IInv'
  OBVIOUS
<1>1. CASE DriversNext
  BY <1>1, WaysOnInv, GivesUpInv, VerifyInv DEF DriversNext
<1>2. CASE BlockNext
  BY <1>2, WaysOnInv, ReadBlocksInv, KeysInv, AllocateBlocksInv, EncryptBlockInv,
     DecryptBlockInv, EndBlocksInv DEF BlockNext
<1>3. CASE StreamNext
  BY <1>3, WaysOnInv, ReadStreamInv, AllocateStreamInv, InitContextInv,
     TransformBlockInv, CryptBlockInv, EndTransformInv DEF StreamNext
<1> QED BY <1>1, <1>2, <1>3, StutterInv DEF Next

(* What every program keeps while it works: what it has read, and of what  *)
(* the bytes done so far were made.                                        *)
THEOREM Inductive == Spec => []IInv
<1>1. Init => IInv
  BY InitInv
<1>2. IInv /\ [Next]_vars => IInv'
  BY NextInv
<1> QED BY <1>1, <1>2, PTL DEF Spec

-----------------------------------------------------------------------------
(* What the loops have done, when they are over.                           *)
LEMMA BlocksDone ==
  ASSUME IInv, prog \in BlockPrograms, pc \in {"verify", "exit"}, pc = "exit" => Reported
  PROVE  /\ inputLen \in Nat /\ KeyInv /\ MessageInv /\ BlockContents
         /\ Enciphered = Blocks /\ Deciphered = Blocks
         /\ fault \in Nat \cup {NoFault}
<1>1. InputRead /\ KeyRead /\ Allocated
  BY DEF InputRead, KeyRead, NonceRead, Allocated, Beyond
<1>2. Enciphered = Blocks /\ Deciphered = Blocks
  BY DEF Enciphered, Deciphered
<1> QED BY <1>1, <1>2 DEF IInv, StatusInv, BlockInv

LEMMA StreamDone ==
  ASSUME IInv, prog \in StreamPrograms, pc \in {"verify", "exit"}, pc = "exit" => Reported
  PROVE  /\ inputLen \in Nat /\ keyLen \in Nat /\ nonceLen \in Nat
         /\ prog = "chacha20 C" => keyLen >= LongKey /\ nonceLen >= NonceLen
         /\ prog \in SelfTesting => fault = NoFault
         /\ Asserted /\ (inputLen > 0 => Loads)
         /\ IsBuffer(encrypted, inputLen) /\ IsBuffer(decrypted, inputLen)
         /\ message = [p \in 1 .. inputLen |-> {FileByte(p)}]
         /\ \A p \in 1 .. inputLen : Once(p) /\ Twice(p)
<1>1. InputRead /\ KeyRead /\ NonceRead /\ Allocated /\ Beyond({"start"})
  BY DEF InputRead, KeyRead, NonceRead, Allocated, Beyond
<1>2. /\ StreamContents /\ StreamMessage /\ KeyChecked /\ NonceChecked
      /\ prog \in SelfTesting => fault = NoFault /\ inputLen \in Nat
  BY <1>1 DEF IInv, StatusInv, StreamInv
<1>3. inputLen \in Nat
  BY <1>1 DEF IInv, StatusInv
<1>4. EncryptedBytes = inputLen /\ DecryptedBytes = inputLen
  BY DEF EncryptedBytes, DecryptedBytes
<1>5. \A p \in 1 .. inputLen : Once(p) /\ Twice(p)
  <2>1. \A p \in 1 .. inputLen : p <= inputLen
    BY <1>3
  <2> QED BY <1>2, <1>4, <2>1 DEF StreamContents
<1>6. /\ IsBuffer(encrypted, inputLen) /\ IsBuffer(decrypted, inputLen)
      /\ Asserted /\ (inputLen > 0 => Loads)
  BY <1>2, <1>4 DEF StreamContents
<1> QED BY <1>2, <1>3, <1>5, <1>6 DEF StreamMessage, KeyChecked, NonceChecked

LEMMA TypesHold == IInv => TypeOK
<1> SUFFICES ASSUME IInv PROVE TypeOK
  OBVIOUS
<1>1. ASSUME InLoops, prog \in BlockPrograms
      PROVE  /\ Len(encrypted) = Len(decrypted)
             /\ message # <<>> => Len(message) = Len(encrypted)
             /\ inputLen <= Len(encrypted)
             /\ Len(key) = KeyLen
             /\ Len(encrypted) < inputLen + BlockLen
             /\ Len(encrypted) % BlockLen = 0 \/ Len(encrypted) = inputLen
             /\ pos * BlockLen <= Len(encrypted)
  <2>1. BlockContents /\ inputLen \in Nat /\ KeyInv /\ MessageInv
    BY <1>1, InLoop DEF InLoops
  <2>2. /\ BufferLen \in Nat /\ inputLen <= BufferLen /\ BufferLen < inputLen + BlockLen
        /\ BufferLen % BlockLen = 0 \/ BufferLen = inputLen
        /\ Blocks \in Nat /\ Blocks * BlockLen <= BufferLen
    BY <2>1, BufferSize
  <2>3. Len(encrypted) = BufferLen /\ Len(decrypted) = BufferLen
    BY <2>1, <2>2, BufferLaws DEF BlockContents
  <2>4. message # <<>> => Len(message) = BufferLen
    BY <2>1, <2>2, BufferLaws DEF MessageInv
  <2>5. Len(key) = KeyLen
    BY <2>1, Sizes, BufferLaws DEF KeyInv
  <2>6. pos * BlockLen <= BufferLen
    <3>1. pos \in Nat /\ pos <= Blocks
      BY <2>1, <2>2 DEF BlockContents
    <3>2. pos * BlockLen <= Blocks * BlockLen
      BY <2>2, <3>1, Sizes
    <3>3. pos * BlockLen \in Nat /\ Blocks * BlockLen \in Nat
      BY <2>2, <3>1, Sizes
    <3> QED BY ONLY <2>2, <3>2, <3>3
  <2> QED BY <2>2, <2>3, <2>4, <2>5, <2>6
<1>2. ASSUME InLoops, prog \in StreamPrograms
      PROVE  /\ Len(encrypted) = Len(decrypted)
             /\ Len(message) = Len(encrypted)
             /\ inputLen <= Len(encrypted)
             /\ Len(encrypted) = inputLen
             /\ (pos - 1) * StreamLen < inputLen
  <2>1. StreamContents /\ inputLen \in Nat /\ StreamMessage
    BY <1>2, InStream DEF InLoops, Loops
  <2>2. /\ IsBuffer(encrypted, inputLen) /\ IsBuffer(decrypted, inputLen)
        /\ (pos - 1) * StreamLen < inputLen
    BY <2>1 DEF StreamContents
  <2>3. Len(encrypted) = inputLen /\ Len(decrypted) = inputLen
    BY <2>1, <2>2, BufferLaws
  <2>4. Len(message) = inputLen
    BY <2>1 DEF StreamMessage
  <2>5. inputLen <= inputLen
    BY <2>1
  <2> QED BY <2>2, <2>3, <2>4, <2>5
<1>3. /\ prog \in BlockPrograms \cup StreamPrograms
      /\ pc \in PcStates /\ (pc = "exit" <=> status # "running")
      /\ status \in {"running", "0", "1", "2", "killed"}
      /\ printed \in {"nothing", "times", "PASSED", "FAILED"}
  BY DEF IInv, StatusInv
<1>4. prog \in BlockPrograms => prog \notin StreamPrograms
  BY Kinds
<1> QED BY <1>1, <1>2, <1>3, <1>4 DEF TypeOK

(* The buffers of a program always have the length of its message, whole   *)
(* blocks of it in the block programs that pad, and no loop of it leaves   *)
(* them.                                                                   *)
THEOREM TypeCorrect == Spec => []TypeOK
BY Inductive, TypesHold, PTL

-----------------------------------------------------------------------------
(* Every byte of the blocks encrypted has a key and a block in it.         *)
LEMMA EncryptedByte ==
  ASSUME IInv, prog \in BlockPrograms, pc \in {"verify", "exit"}, pc = "exit" => Reported,
         NEW p \in 1 .. BufferLen, p <= Blocks * BlockLen
  PROVE  \E n \in Nat, j \in 1 .. BlockLen :
           /\ p = n * BlockLen + j /\ n = (p - 1) \div BlockLen
           /\ \A i \in 1 .. BlockLen : n * BlockLen + i \in 1 .. BufferLen
           /\ message # <<>>
           /\ encrypted[p] =
                <<"aes", key, [i \in 1 .. BlockLen |-> message[n * BlockLen + i]], j>>
           /\ decrypted[p] = PlainByte(p)
<1>1. /\ inputLen \in Nat /\ BlockContents
      /\ Enciphered = Blocks /\ Deciphered = Blocks
  BY BlocksDone
<1>2. BufferLen \in Nat /\ Blocks \in Nat /\ Blocks * BlockLen <= BufferLen
  BY <1>1, BufferSize
<1>3. PICK n \in Nat, j \in 1 .. BlockLen :
        p = n * BlockLen + j /\ (p - 1) \div BlockLen = n
  <2>1. p \in Nat \ {0}
    BY <1>2
  <2> QED BY <2>1, Sizes, BlockOfPlace
<1>4. n < Blocks
  BY <1>2, <1>3, Sizes, PlaceOrder
<1>5. ASSUME NEW i \in 1 .. BlockLen PROVE n * BlockLen + i \in 1 .. BufferLen
  <2>1. n * BlockLen + i <= Blocks * BlockLen
    BY <1>2, <1>4, Sizes, PlaceOrder
  <2>2. n * BlockLen \in Nat /\ Blocks * BlockLen \in Nat
    BY <1>2, Sizes
  <2> QED BY <1>2, <2>1, <2>2
<1>6. n \in 0 .. Blocks - 1
  BY <1>2, <1>4
<1>7. message # <<>>
  <2>1. message = <<>> => Enciphered = 0
    BY <1>1 DEF BlockContents
  <2> QED BY <1>1, <1>2, <1>4, <2>1
<1>8. encrypted[p] = CipherByte(n, j) /\ decrypted[p] = PlainByte(p)
  <2>1. /\ \A m \in 0 .. Blocks - 1, i \in 1 .. BlockLen :
             encrypted[m * BlockLen + i] = CipherByte(m, i)
        /\ \A m \in 0 .. Blocks - 1, i \in 1 .. BlockLen :
             decrypted[m * BlockLen + i] = PlainByte(m * BlockLen + i)
    BY <1>1 DEF BlockContents
  <2> QED BY <1>3, <1>6, <2>1
<1>9. CipherByte(n, j) =
        <<"aes", key, [i \in 1 .. BlockLen |-> message[n * BlockLen + i]], j>>
  BY BlockAtLaw DEF CipherByte
<1> QED BY <1>3, <1>5, <1>7, <1>8, <1>9

LEMMA WithinBlock ==
  ASSUME NEW n \in Nat, NEW j \in 1 .. BlockLen, NEW p, p = n * BlockLen + j
  PROVE  p - n * BlockLen = j
<1>1. n * BlockLen \in Nat /\ j \in Nat
  BY Sizes
<1> QED BY <1>1

(* Where the blocks fill the buffer.                                       *)
LEMMA InBlocks ==
  ASSUME NEW len \in Nat, NEW p \in 1 .. len, BufferLen \in Nat, len <= BufferLen,
         Blocks * BlockLen = BufferLen
  PROVE  p \in 1 .. BufferLen /\ p <= Blocks * BlockLen
<1>1. p \in 1 .. BufferLen /\ p <= BufferLen
  OBVIOUS
<1> QED BY <1>1

(* A program with a key and a message that it has read whole has AES of    *)
(* both.                                                                   *)
LEMMA BlocksSame ==
  ASSUME IInv, status = "0", prog \in BlockPrograms, prog # "rijndael OCaml", ReadWhole
  PROVE  encrypted = AesOf(key)
<1>1. pc = "exit" /\ Reported
  BY DEF IInv, StatusInv, Reported
<1>2. inputLen \in Nat /\ MessageInv /\ BlockContents
  BY <1>1, BlocksDone
<1>3. BufferLen = PaddedLen /\ Blocks * BlockLen = BufferLen /\ BufferLen \in Nat
  BY <1>2, BufferSize
<1>4. IsBuffer(encrypted, PaddedLen)
  BY <1>2, <1>3 DEF BlockContents
<1>5. ASSUME NEW p \in 1 .. PaddedLen
      PROVE  encrypted[p] =
               LET n == (p - 1) \div BlockLen
               IN <<"aes", key, [j \in 1 .. BlockLen |-> Padded(n * BlockLen + j)],
                    p - n * BlockLen>>
  <2>1. p \in 1 .. BufferLen /\ p <= Blocks * BlockLen
    <3>1. BufferLen <= BufferLen
      BY ONLY <1>3
    <3> QED BY <1>3, <3>1, InBlocks
  <2>2. PICK n \in Nat, j \in 1 .. BlockLen :
          /\ p = n * BlockLen + j /\ n = (p - 1) \div BlockLen
          /\ \A i \in 1 .. BlockLen : n * BlockLen + i \in 1 .. BufferLen
          /\ message # <<>>
          /\ encrypted[p] =
               <<"aes", key, [i \in 1 .. BlockLen |-> message[n * BlockLen + i]], j>>
    BY <1>1, <2>1, EncryptedByte
  <2>3. Len(message) = BufferLen
    BY <1>2, <1>3, <2>2, BufferLaws DEF MessageInv
  <2>4. \A q \in 1 .. BufferLen : message[q] = Padded(q)
    BY <2>3 DEF ReadWhole
  <2>5. [i \in 1 .. BlockLen |-> message[n * BlockLen + i]] =
          [i \in 1 .. BlockLen |-> Padded(n * BlockLen + i)]
    BY <2>2, <2>4
  <2>6. p - n * BlockLen = j
    <3>1. p = n * BlockLen + j
      BY <2>2
    <3> QED BY <3>1, WithinBlock, Zenon
  <2> QED BY <2>2, <2>5, <2>6
<1>6. AesOf(key) = [p \in 1 .. PaddedLen |-> encrypted[p]]
  BY <1>5 DEF AesOf
<1> QED BY <1>4, <1>6 DEF IsBuffer

(* Verification succeeds if no byte of the message is wrong.               *)
LEMMA BlocksIntact ==
  ASSUME IInv, prog \in BlockPrograms, prog # "rijndael OCaml",
         pc \in {"verify", "exit"}, pc = "exit" => Reported,
         ~(fault # NoFault /\ fault <= inputLen)
  PROVE  Intact
<1>1. /\ inputLen \in Nat /\ MessageInv /\ BlockContents
      /\ fault \in Nat \cup {NoFault} /\ Enciphered = Blocks
  BY BlocksDone
<1>2. /\ BufferLen \in Nat /\ inputLen <= BufferLen /\ Blocks * BlockLen = BufferLen
      /\ Blocks \in Nat
  BY <1>1, BufferSize
<1>3. Len(decrypted) = BufferLen
  BY <1>1, <1>2, BufferLaws DEF BlockContents
<1>4. inputLen # Missing
  BY <1>1, DriversAssumption
<1>5. CASE message = <<>>
  <2>1. Blocks = 0
    BY <1>1, <1>5 DEF BlockContents
  <2>2. 0 * BlockLen = 0 /\ Blocks * BlockLen = 0 * BlockLen
    BY ONLY <2>1, Sizes
  <2>3. BufferLen = 0
    BY <1>2, <2>2
  <2>4. inputLen = 0
    BY ONLY <1>1, <1>2, <2>3
  <2>5. Len(message) = 0
    BY <1>5
  <2>6. 1 .. 0 = {} /\ 0 >= 0
    BY ONLY SMT
  <2> QED BY <1>3, <1>4, <2>3, <2>4, <2>5, <2>6 DEF Intact
<1>6. CASE message # <<>>
  <2>1. Len(message) = BufferLen
    BY <1>1, <1>2, <1>6, BufferLaws DEF MessageInv
  <2>2. ASSUME NEW p \in 1 .. inputLen PROVE decrypted[p] = message[p]
    <3>1. p \in 1 .. BufferLen /\ p <= Blocks * BlockLen
      BY <1>1, <1>2, InBlocks
    <3>2. decrypted[p] = PlainByte(p)
      BY <3>1, EncryptedByte
    <3>3. p # fault
      <4>1. p \in Nat /\ p <= inputLen
        <5>1. p \in 1 .. inputLen /\ inputLen \in Nat
          BY <1>1
        <5> QED BY ONLY <5>1
      <4>2. fault = NoFault \/ ~(fault <= inputLen)
        OBVIOUS
      <4> QED BY <4>1, <4>2, DriversAssumption
    <3> QED BY <3>2, <3>3 DEF PlainByte
  <2> QED BY <1>1, <1>2, <1>3, <1>4, <2>1, <2>2 DEF Intact
<1> QED BY <1>5, <1>6

-----------------------------------------------------------------------------
(* Key and nonce files with all the bytes that the program loads of them.  *)
WholeFiles ==
  /\ keyLen >= (IF IsLong THEN LongKey ELSE KeyLen)
  /\ nonceLen >= (IF IsWide THEN ShortNonce ELSE NonceLen)

CleanSession ==
  [key   |-> [p \in 1 .. LongKey |-> KeyByte(KeyPlace(p))],
   long  |-> IsLong,
   nonce |-> [p \in 1 .. (IF IsWide THEN ShortNonce ELSE NonceLen) |-> NonceByte(p)],
   wide  |-> IsWide]

LEMMA KeyPlaces ==
  ASSUME NEW p \in 1 .. LongKey
  PROVE  KeyPlace(p) \in Nat /\ KeyPlace(p) <= (IF IsLong THEN LongKey ELSE KeyLen)
<1>1. p \in Nat \ {0} /\ p <= LongKey
  BY Sizes
<1>2. CASE IsLong
  BY <1>1, <1>2 DEF KeyPlace
<1>3. CASE ~IsLong
  <2>1. PICK n \in Nat, j \in 1 .. KeyLen : ((p - 1) % KeyLen) + 1 = j
    BY <1>1, Sizes, BlockOfPlace
  <2>2. KeyPlace(p) = j
    BY <1>3, <2>1 DEF KeyPlace
  <2>3. j \in Nat /\ j <= KeyLen
    BY Sizes
  <2> QED BY <1>3, <2>2, <2>3
<1> QED BY <1>2, <1>3

(* A session of them does not depend on the memory behind them.            *)
LEMMA SessionLaw ==
  ASSUME keyLen \in Nat, nonceLen \in Nat, WholeFiles, NEW y
  PROVE  Session(y) = CleanSession
<1>1. ASSUME NEW p \in 1 .. LongKey PROVE KeyPlace(p) <= keyLen
  <2> DEFINE top == IF IsLong THEN LongKey ELSE KeyLen
  <2>1. KeyPlace(p) \in Nat /\ KeyPlace(p) <= top /\ keyLen >= top /\ top \in Nat
    BY Sizes, KeyPlaces DEF WholeFiles
  <2> HIDE DEF top
  <2>2. keyLen \in Nat
    OBVIOUS
  <2> QED BY ONLY <2>1, <2>2
<1>2. ASSUME NEW p \in 1 .. (IF IsWide THEN ShortNonce ELSE NonceLen)
      PROVE  p <= nonceLen
  <2> DEFINE top == IF IsWide THEN ShortNonce ELSE NonceLen
  <2>1. p \in 1 .. top /\ nonceLen >= top /\ top \in Nat /\ nonceLen \in Nat
    BY Sizes DEF WholeFiles
  <2> HIDE DEF top
  <2> QED BY ONLY <2>1
<1>3. [p \in 1 .. LongKey |-> Loaded(KeyPlace(p), keyLen, KeyByte(KeyPlace(p)), y)] =
        [p \in 1 .. LongKey |-> KeyByte(KeyPlace(p))]
  BY <1>1 DEF Loaded
<1>4. [p \in 1 .. (IF IsWide THEN ShortNonce ELSE NonceLen) |->
         Loaded(p, nonceLen, NonceByte(p), y)] =
        [p \in 1 .. (IF IsWide THEN ShortNonce ELSE NonceLen) |-> NonceByte(p)]
  BY <1>2 DEF Loaded
<1> QED BY <1>3, <1>4, Zenon DEF Session, CleanSession

LEMMA Compared ==
  ASSUME NEW a \in Int, NEW b \in Int
  PROVE  (~(a < b) => a >= b) /\ a >= a
OBVIOUS

(* Every program that comes to a report has them, but for the two that do  *)
(* not check what they load.                                               *)
Unchecked ==
  \/ prog = "chacha20 OCaml" /\ (KeyShort \/ NonceShort)
  \/ prog = "chacha20 OxCaml" /\ KeyShort

LEMMA FilesChecked ==
  ASSUME IInv, prog \in StreamPrograms, pc \in {"verify", "exit"},
         pc = "exit" => Reported, inputLen > 0, ~Unchecked
  PROVE  keyLen \in Nat /\ nonceLen \in Nat /\ WholeFiles
<1>1. /\ keyLen \in Nat /\ nonceLen \in Nat /\ keyLen \in Int /\ nonceLen \in Int
      /\ KeyLen \in Int /\ LongKey \in Int
      /\ prog = "chacha20 C" => keyLen >= LongKey /\ nonceLen >= NonceLen
      /\ Asserted /\ Loads
  <2>1. KeyLen \in Int /\ LongKey \in Int /\ \A n \in Nat : n \in Int
    BY Sizes
  <2> QED BY <2>1, StreamDone
<1>2. prog \in {"chacha20 C", "chacha20 C SIMD", "chacha20 OCaml", "chacha20 OxCaml"}
  BY DEF StreamPrograms
<1>3. CASE prog = "chacha20 C"
  <2>1. IsLong /\ ~IsWide
    BY <1>3 DEF IsLong, IsWide
  <2> QED BY <1>1, <1>3, <2>1 DEF WholeFiles
<1>4. CASE prog = "chacha20 C SIMD"
  <2>1. keyLen \in {KeyLen, LongKey} /\ nonceLen \in {ShortNonce, NonceLen}
    BY <1>1, <1>4 DEF Asserted
  <2>2. IsLong <=> keyLen = LongKey
    BY <1>4 DEF IsLong
  <2>3. IsWide <=> nonceLen = ShortNonce
    BY <1>4 DEF IsWide
  <2>4. keyLen >= IF IsLong THEN LongKey ELSE KeyLen
    BY <1>1, <2>1, <2>2, Compared, Zenon
  <2>5. nonceLen >= IF IsWide THEN ShortNonce ELSE NonceLen
    BY <1>1, <2>1, <2>3, Compared, Zenon
  <2> QED BY <1>1, <2>4, <2>5 DEF WholeFiles
<1>5. CASE prog = "chacha20 OCaml"
  <2>1. ~KeyShort /\ ~NonceShort
    BY <1>5 DEF Unchecked
  <2>2. ~(keyLen < KeyLen) /\ ~(nonceLen < IF IsWide THEN ShortNonce ELSE NonceLen)
    BY <1>5, <2>1 DEF KeyShort, NonceShort
  <2>3. IsLong <=> keyLen = LongKey
    BY <1>5 DEF IsLong
  <2>4. keyLen >= KeyLen /\ keyLen >= keyLen
    BY <1>1, <2>2, Sizes, Compared, Zenon
  <2>5. nonceLen >= IF IsWide THEN ShortNonce ELSE NonceLen
    <3>1. ShortNonce \in Int /\ NonceLen \in Int
      BY ONLY Sizes
    <3> QED BY <1>1, <2>2, <3>1, Compared, Zenon
  <2> QED BY <1>1, <2>3, <2>4, <2>5 DEF WholeFiles
<1>6. CASE prog = "chacha20 OxCaml"
  <2>1. ~(keyLen < LongKey)
    BY <1>6 DEF Unchecked, KeyShort
  <2>2. nonceLen >= NonceLen
    BY <1>1, <1>6 DEF Loads
  <2>3. IsLong /\ ~IsWide
    BY <1>6 DEF IsLong, IsWide
  <2>4. keyLen >= LongKey
    BY <1>1, <2>1, Sizes, Compared, Zenon
  <2> QED BY <1>1, <2>2, <2>3, <2>4 DEF WholeFiles
<1> QED BY <1>2, <1>3, <1>4, <1>5, <1>6

(* Then there is one keystream, and decryption takes away what encryption  *)
(* has added.                                                              *)
LEMMA StreamBytes ==
  ASSUME IInv, prog \in StreamPrograms, pc \in {"verify", "exit"},
         pc = "exit" => Reported, ~Unchecked, NEW p \in 1 .. inputLen
  PROVE  /\ encrypted[p] = {FileByte(p), KeystreamByte(CleanSession, p - 1)}
         /\ decrypted[p] = message[p]
<1>1. inputLen \in Nat
  BY StreamDone
<1>2. inputLen > 0
  BY <1>1
<1>3. \A y : Session(y) = CleanSession
  BY <1>2, FilesChecked, SessionLaw
<1>4. Once(p) /\ Twice(p) /\ message[p] = {FileByte(p)}
  BY StreamDone
<1>5. encrypted[p] = {FileByte(p), KeystreamByte(CleanSession, p - 1)}
  BY <1>3, <1>4 DEF Once
<1>6. decrypted[p] = Toggle(encrypted[p], KeystreamByte(CleanSession, p - 1))
  BY <1>3, <1>4 DEF Twice
<1>7. FileByte(p) # KeystreamByte(CleanSession, p - 1)
  <2>1. /\ FileByte(p)[1] = "file"
        /\ KeystreamByte(CleanSession, p - 1)[1] \in {"chacha", "wrong"}
    BY DEF FileByte, KeystreamByte
  <2> QED BY <2>1
<1>8. decrypted[p] = {FileByte(p)}
  BY <1>5, <1>6, <1>7 DEF Toggle
<1> QED BY <1>4, <1>5, <1>8

LEMMA StreamIntact ==
  ASSUME IInv, prog \in StreamPrograms, pc \in {"verify", "exit"},
         pc = "exit" => Reported, ~Unchecked
  PROVE  Intact
<1>1. /\ inputLen \in Nat /\ IsBuffer(decrypted, inputLen)
      /\ message = [p \in 1 .. inputLen |-> {FileByte(p)}]
  BY StreamDone
<1>2. Len(decrypted) = inputLen /\ Len(message) = inputLen
  <2>1. Len(decrypted) = inputLen
    BY <1>1, BufferLaws
  <2>2. Len(message) = inputLen
    BY ONLY <1>1
  <2> QED BY <2>1, <2>2
<1>3. inputLen # Missing /\ inputLen >= inputLen
  BY <1>1, DriversAssumption, Compared
<1>4. \A p \in 1 .. inputLen : decrypted[p] = message[p]
  BY StreamBytes
<1> QED BY <1>2, <1>3, <1>4 DEF Intact

(* Files as RFC 8439 has them.                                             *)
LEMMA RfcFiles ==
  ASSUME IInv, OnRfcFiles, pc \in {"verify", "exit"}, pc = "exit" => Reported
  PROVE  ~Unchecked /\ (inputLen > 0 => CleanSession = RfcSession)
<1>1. /\ prog \in StreamPrograms /\ keyLen >= LongKey /\ nonceLen >= NonceLen
      /\ prog = "chacha20 OCaml" => keyLen = LongKey
  BY DEF OnRfcFiles
<1>2. keyLen \in Nat /\ nonceLen \in Nat /\ Asserted
  BY <1>1, StreamDone
<1>3. IsLong
  <2>1. prog \in {"chacha20 C", "chacha20 C SIMD", "chacha20 OCaml", "chacha20 OxCaml"}
    BY <1>1 DEF StreamPrograms
  <2>2. CASE prog = "chacha20 C SIMD"
    <3>1. keyLen \in {KeyLen, LongKey}
      BY <1>2, <2>2 DEF Asserted
    <3>2. ~(KeyLen >= LongKey)
      BY ONLY Sizes
    <3> QED BY <1>1, <3>1, <3>2 DEF IsLong
  <2> QED BY <1>1, <2>1, <2>2 DEF IsLong
<1>4. ~IsWide
  <2>1. ~(ShortNonce >= NonceLen)
    BY ONLY Sizes
  <2> QED BY <1>1, <2>1 DEF IsWide
<1>5. ~Unchecked
  <2>1. ~(keyLen < LongKey) /\ ~(keyLen < KeyLen) /\ ~(nonceLen < NonceLen)
    <3>1. keyLen \in Nat /\ nonceLen \in Nat /\ keyLen >= LongKey /\ nonceLen >= NonceLen
      BY <1>1, <1>2
    <3> QED BY ONLY <3>1, Sizes
  <2> QED BY <1>4, <2>1 DEF Unchecked, KeyShort, NonceShort
<1>6. \A p \in 1 .. LongKey : KeyPlace(p) = p
  BY <1>3 DEF KeyPlace
<1>7. CleanSession = RfcSession
  <2>1. [p \in 1 .. LongKey |-> KeyByte(KeyPlace(p))] = [p \in 1 .. LongKey |-> KeyByte(p)]
    BY <1>6
  <2>2. IsLong = TRUE /\ IsWide = FALSE
    BY <1>3, <1>4 DEF IsLong, IsWide
  <2>3. (IF IsWide THEN ShortNonce ELSE NonceLen) = NonceLen
    BY <1>4
  <2> QED BY <2>1, <2>2, <2>3, Zenon DEF CleanSession, RfcSession
<1> QED BY <1>5, <1>7

LEMMA StreamSame ==
  ASSUME IInv, status = "0", OnRfcFiles, fault = NoFault \/ prog \in SelfTesting
  PROVE  encrypted = ChaChaOf(RfcSession)
<1>1. pc = "exit" /\ Reported /\ prog \in StreamPrograms
  BY DEF IInv, StatusInv, Reported, OnRfcFiles
<1>2. /\ inputLen \in Nat /\ IsBuffer(encrypted, inputLen)
      /\ prog \in SelfTesting => fault = NoFault
  BY <1>1, StreamDone
<1>3. ASSUME NEW p \in 1 .. inputLen
      PROVE  encrypted[p] = {FileByte(p), <<"chacha", RfcSession, p - 1>>}
  <2>1. inputLen > 0
    BY <1>2
  <2>2. encrypted[p] = {FileByte(p), KeystreamByte(CleanSession, p - 1)}
    BY <1>1, RfcFiles, StreamBytes
  <2>3. CleanSession = RfcSession
    BY <1>1, <2>1, RfcFiles
  <2>4. KeystreamByte(RfcSession, p - 1) = <<"chacha", RfcSession, p - 1>>
    BY <1>2 DEF KeystreamByte
  <2> QED BY <2>2, <2>3, <2>4
<1> QED BY <1>2, <1>3 DEF ChaChaOf, IsBuffer

LEMMA SameHolds == IInv => SameCiphertext
<1> SUFFICES ASSUME IInv, status = "0" PROVE
      /\ prog \in KeyFromFile \cap BlockPrograms /\ ReadWhole /\ key = FileKey =>
           encrypted = AesOf(FileKey)
      /\ prog \in {"aes-ni C", "aes-ni OxCaml"} /\ ReadWhole =>
           encrypted = AesOf(FixedKey)
      /\ OnRfcFiles /\ (fault = NoFault \/ prog \in SelfTesting) =>
           encrypted = ChaChaOf(RfcSession)
  BY DEF SameCiphertext
<1>1. ASSUME prog \in KeyFromFile \cap BlockPrograms, ReadWhole, key = FileKey
      PROVE  encrypted = AesOf(FileKey)
  <2>1. prog # "rijndael OCaml"
    BY <1>1 DEF KeyFromFile, StreamPrograms
  <2> QED BY <1>1, <2>1, BlocksSame
<1>2. ASSUME prog \in {"aes-ni C", "aes-ni OxCaml"}, ReadWhole
      PROVE  encrypted = AesOf(FixedKey)
  <2>1. prog \in BlockPrograms /\ prog \notin KeyFromFile /\ prog # "rijndael OCaml"
    BY <1>2 DEF BlockPrograms, KeyFromFile, StreamPrograms
  <2>2. pc = "exit" /\ Reported
    BY DEF IInv, StatusInv, Reported
  <2>3. key = OwnKey
    BY <2>1, <2>2, BlocksDone DEF KeyInv
  <2>4. key = FixedKey
    BY <2>1, <2>3 DEF OwnKey, FixedKey
  <2> QED BY <1>2, <2>1, <2>4, BlocksSame
<1> QED BY <1>1, <1>2, StreamSame

(* A block program that ends with status 0, has the key of its file (or    *)
(* its own, in aes-ni/) and has padded the message as documented, holds    *)
(* AES of it, block by block.  On a key and a nonce long enough for RFC    *)
(* 8439 every ChaCha20 program holds the message xored with the keystream  *)
(* of that RFC, so all of them hold the same.                              *)
THEOREM CiphertextsAgree == Spec => []SameCiphertext
BY Inductive, SameHolds, PTL

-----------------------------------------------------------------------------
(* Bytes that are not of the memory that nobody has written.               *)
LEMMA PartsOfTerm ==
  ASSUME NEW k, NEW block, NEW j, NEW term, term = <<"aes", k, block, j>>
  PROVE  term[1] = "aes" /\ term[2] = k /\ term[3] = block
OBVIOUS

(* A key with unwritten memory in it was not read whole.                   *)
LEMMA UnreadKey ==
  ASSUME NEW m \in 0 .. KeyLen, KeyUpTo(m), NEW i \in 1 .. KeyLen, key[i][1] = "junk"
  PROVE  \E l \in 0 .. KeyLen - 1 : KeyUpTo(l)
<1>1. KeyLen \in Nat
  BY Sizes
<1>2. CASE i <= m
  <2>1. key[i] = <<"key", i>>
    BY <1>2 DEF KeyUpTo, KeyByte
  <2> QED BY <2>1
<1>3. CASE ~(i <= m)
  <2>1. m \in 0 .. KeyLen - 1
    BY <1>1, <1>3
  <2> QED BY <2>1
<1> QED BY <1>2, <1>3

LEMMA CleanBlocks ==
  ASSUME IInv, status = "0", prog \in BlockPrograms,
         NEW p \in 1 .. inputLen, ~(prog = "rijndael OCaml" /\ p > (inputLen \div BlockLen) * BlockLen),
         NEW byte \in Sources(p), byte[1] = "junk"
  PROVE  /\ prog = "rijndael C" /\ byte \in Range(key)
         /\ \E n \in 0 .. KeyLen - 1 : KeyUpTo(n)
<1>1. pc = "exit" /\ Reported
  BY DEF IInv, StatusInv, Reported
<1>2. inputLen \in Nat /\ KeyInv /\ MessageInv
  BY <1>1, BlocksDone
<1>3. /\ BufferLen \in Nat /\ inputLen <= BufferLen /\ Blocks \in Nat
      /\ prog # "rijndael OCaml" => Blocks * BlockLen = BufferLen
      /\ prog = "rijndael OCaml" => Blocks = inputLen \div BlockLen
  BY <1>2, BufferSize
<1>4. p \in 1 .. BufferLen /\ p \in Nat
  <2>1. p \in 1 .. inputLen /\ BufferLen \in Nat /\ inputLen <= BufferLen
    BY <1>3
  <2> QED BY ONLY <1>2, <2>1
<1>5. p <= Blocks * BlockLen
  <2>1. CASE prog = "rijndael OCaml"
    <3>1. ~(p > Blocks * BlockLen)
      BY <1>3, <2>1
    <3>2. Blocks * BlockLen \in Nat
      <4>1. Blocks \in Nat
        BY <1>3
      <4> QED BY ONLY <4>1, Sizes
    <3> QED BY ONLY <1>4, <3>1, <3>2
  <2>2. CASE prog # "rijndael OCaml"
    BY <1>2, <1>3, <2>2, InBlocks
  <2> QED BY <2>1, <2>2
<1>6. PICK n \in Nat, j \in 1 .. BlockLen :
        /\ \A i \in 1 .. BlockLen : n * BlockLen + i \in 1 .. BufferLen
        /\ message # <<>>
        /\ encrypted[p] =
             <<"aes", key, [i \in 1 .. BlockLen |-> message[n * BlockLen + i]], j>>
  BY <1>1, <1>4, <1>5, EncryptedByte
<1> DEFINE block == [i \in 1 .. BlockLen |-> message[n * BlockLen + i]]
<1>7. prog \notin StreamPrograms
  BY Kinds
<1>8. byte \in Range(key) \cup Range(block)
  <2> HIDE DEF block
  <2>1. encrypted[p] = <<"aes", key, block, j>>
    BY <1>6 DEF block
  <2>2. encrypted[p][1] = "aes" /\ encrypted[p][2] = key /\ encrypted[p][3] = block
    BY ONLY <2>1, PartsOfTerm
  <2> QED BY <1>7, <2>2 DEF Sources
<1>9. CASE byte \in Range(key)
  <2>1. DOMAIN key = 1 .. KeyLen
    BY <1>2, Sizes, BufferLaws DEF KeyInv
  <2>2. PICK i \in 1 .. KeyLen : byte = key[i]
    BY <1>9, <2>1 DEF Range
  <2>3. PICK m \in 0 .. KeyLen : prog = "rijndael C" /\ KeyUpTo(m)
    BY <1>2, <2>2 DEF KeyInv
  <2>4. \E l \in 0 .. KeyLen - 1 : KeyUpTo(l)
    BY <2>2, <2>3, UnreadKey
  <2> QED BY <1>9, <2>3, <2>4
<1>10. CASE byte \in Range(block)
  <2>1. PICK i \in 1 .. BlockLen : byte = message[n * BlockLen + i]
    BY <1>10 DEF Range
  <2>2. byte[1] \in {"file", "zero"}
    BY <1>2, <1>6, <2>1 DEF MessageInv
  <2> QED BY <2>2
<1> QED BY <1>8, <1>9, <1>10, Zenon

LEMMA CleanStream ==
  ASSUME IInv, status = "0", prog \in StreamPrograms, ~Unchecked,
         NEW p \in 1 .. inputLen, NEW byte \in Sources(p)
  PROVE  byte[1] # "junk"
<1> DEFINE term == KeystreamByte(CleanSession, p - 1)
<1>1. pc = "exit" /\ Reported
  BY DEF IInv, StatusInv, Reported
<1>2. encrypted[p] = {FileByte(p), term}
  BY <1>1, StreamBytes
<1>3. /\ Len(FileByte(p)) = 2 /\ Len(term) = 3
      /\ term[2] = CleanSession
  BY DEF FileByte, KeystreamByte
<1> HIDE DEF term
<1>4. byte \in {FileByte(p)} \cup Range(CleanSession.key) \cup Range(CleanSession.nonce)
  BY <1>2, <1>3 DEF Sources
<1>5. CASE byte = FileByte(p)
  BY <1>5 DEF FileByte
<1>6. CASE byte \in Range(CleanSession.key)
  <2>1. PICK i \in 1 .. LongKey : byte = KeyByte(KeyPlace(i))
    BY <1>6 DEF Range, CleanSession
  <2> QED BY <2>1 DEF KeyByte
<1>7. CASE byte \in Range(CleanSession.nonce)
  <2>1. PICK i \in 1 .. (IF IsWide THEN ShortNonce ELSE NonceLen) : byte = NonceByte(i)
    BY <1>7 DEF Range, CleanSession
  <2> QED BY <2>1 DEF NonceByte
<1> QED BY <1>4, <1>5, <1>6, <1>7

LEMMA CleanHolds == IInv => UninitialisedBytes
<1> SUFFICES ASSUME IInv, status = "0",
                    NEW p \in 1 .. inputLen, NEW byte \in Sources(p), byte[1] = "junk"
             PROVE  \/ /\ prog = "rijndael C" /\ byte \in Range(key)
                       /\ \E n \in 0 .. KeyLen - 1 : KeyUpTo(n)
                    \/ prog = "rijndael OCaml" /\ p > (inputLen \div BlockLen) * BlockLen
                    \/ Unchecked
  <2>1. \A p : p \notin 1 .. 0
    BY ONLY SMT
  <2> QED BY <2>1, Zenon DEF UninitialisedBytes, Unchecked
<1>1. prog \in BlockPrograms \cup StreamPrograms
  BY DEF IInv, StatusInv
<1> QED BY <1>1, CleanBlocks, CleanStream

(* Memory that nobody has written gets into a ciphertext that a program    *)
(* calls finished in three ways only: as the end of the key of rijndael's  *)
(* C program, as the tail of its plain OCaml program, and through the      *)
(* unchecked loads of the two ChaCha20 programs in OCaml.                  *)
THEOREM JunkHasThreeWays == Spec => []UninitialisedBytes
BY Inductive, CleanHolds, PTL

-----------------------------------------------------------------------------
(* A step leaves the files alone, and goes on, gives up or reports.        *)
GoesOn == UNCHANGED <<status, printed>>
GivesUp ==
  /\ UNCHANGED buffers /\ status' \in {"1", "2", "killed"} /\ printed' = "nothing"
  /\ status' = "1" => decrypted = <<>>

LEMMA Steps ==
  ASSUME IInv, Next
  PROVE  /\ UNCHANGED files /\ status = "running" /\ printed = "nothing"
         /\ GoesOn \/ GivesUp \/ Verify
<1>1. pc # "exit" => status = "running" /\ printed = "nothing"
  BY DEF IInv, StatusInv
<1>2. pc \in Early => decrypted = <<>>
  BY DEF IInv, StatusInv
<1>3. CASE Usage \/ SelfTest \/ CheckCpu
  <2>1. pc \in Early
    BY <1>3 DEF Usage, SelfTest, CheckCpu, Early
  <2>2. UNCHANGED <<files, buffers>>
    BY <1>3 DEF Usage, SelfTest, CheckCpu
  <2>3. GoesOn \/ GivesUp
    BY <1>2, <1>3, <2>1, <2>2
       DEF Usage, SelfTest, CheckCpu, Goto, Exit, GoesOn, GivesUp
  <2> QED BY <1>1, <2>1, <2>2, <2>3 DEF Early
<1>4. CASE Fails
  <2>1. UNCHANGED <<files, buffers>> /\ status' = FailStatus /\ printed' = "nothing"
    BY <1>4 DEF Fails, Exit
  <2>2. pc # "decrypt" => pc \in Early
    BY <1>4 DEF Fails, Early
  <2>3. pc = "decrypt" => FailStatus = "2"
    BY <1>4 DEF Fails, Early, FailStatus, AllocatesLate, CPrograms
  <2>4. pc # "exit"
    BY <1>4 DEF Fails
  <2>5. FailStatus \in {"1", "2"}
    BY DEF FailStatus
  <2> QED BY <1>1, <1>2, <2>1, <2>2, <2>3, <2>4, <2>5 DEF GivesUp
<1>5. CASE Arguments \/ ReadBlocks \/ ReadKey \/ SetKey \/ AllocateBlocks \/ DecryptBlock
           \/ EndBlocks
  BY <1>1, <1>5 DEF Arguments, ReadBlocks, ReadKey, SetKey, AllocateBlocks, Allocate,
                    DecryptBlock, EndBlocks, Goto, GoesOn
<1>6. CASE ReadStream \/ ReadStreamKey \/ ReadNonce \/ AllocateStream \/ TransformBlock
           \/ EndTransform
  BY <1>1, <1>6 DEF ReadStream, ReadStreamKey, ReadNonce, AllocateStream, Allocate,
                    TransformBlock, EndTransform, Goto, GoesOn
<1>7. CASE ReadNowhere
  BY <1>1, <1>7 DEF ReadNowhere, Goto, Exit, GoesOn, GivesUp
<1>8. CASE EncryptBlock
  <2>1. pc = "encrypt" /\ UNCHANGED files
    BY <1>8 DEF EncryptBlock
  <2>2. CASE message = <<>>
    BY <1>1, <1>8, <2>1, <2>2 DEF EncryptBlock, Exit, GivesUp, buffers
  <2>3. CASE message # <<>>
    BY <1>1, <1>8, <2>1, <2>3 DEF EncryptBlock, GoesOn
  <2> QED BY <2>2, <2>3
<1>9. CASE InitContext
  <2>1. pc # "exit" /\ UNCHANGED files
    BY <1>9 DEF InitContext
  <2>2. GoesOn \/ GivesUp
    BY <1>9 DEF InitContext, Goto, Exit, GoesOn, GivesUp, buffers
  <2> QED BY <1>1, <2>1, <2>2
<1>10. CASE CryptBlock
  <2>1. pc # "exit" /\ UNCHANGED files
    BY <1>10 DEF CryptBlock
  <2>2. GoesOn \/ GivesUp
    BY <1>10 DEF CryptBlock, Exit, GoesOn, GivesUp, buffers
  <2> QED BY <1>1, <2>1, <2>2
<1>11. CASE Verify
  BY <1>1, <1>11 DEF Verify
<1> QED BY <1>3, <1>4, <1>5, <1>6, <1>7, <1>8, <1>9, <1>10, <1>11
        DEF Next, DriversNext, BlockNext, StreamNext

(* What a report says of the buffers stays true.                           *)
ReportInv ==
  /\ printed = "FAILED" => ~Intact /\ Verdict = "printed"
  /\ status = "1" /\ decrypted # <<>> => Verdict = "status"

LEMMA IntactKept ==
  ASSUME UNCHANGED <<files, buffers>>
  PROVE  UNCHANGED <<Intact, Verdict, decrypted>>
BY DEF files, buffers, Intact, Verdict

LEMMA ReportStep == IInv /\ ReportInv /\ [Next]_vars => ReportInv'
<1> SUFFICES ASSUME IInv, ReportInv, [Next]_vars PROVE ReportInv'
  OBVIOUS
<1>1. CASE UNCHANGED vars
  <2>1. UNCHANGED <<Intact, Verdict, decrypted, status, printed>>
    BY <1>1, IntactKept DEF vars
  <2> QED BY <2>1 DEF ReportInv
<1>2. CASE Next
  <2>1. /\ UNCHANGED files /\ status = "running" /\ printed = "nothing"
        /\ GoesOn \/ GivesUp \/ Verify
    BY <1>2, Steps
  <2>2. CASE GoesOn
    BY <2>1, <2>2 DEF GoesOn, ReportInv
  <2>3. CASE GivesUp
    <3>1. decrypted' = decrypted
      BY <2>3 DEF GivesUp, buffers
    <3> QED BY <2>3, <3>1 DEF GivesUp, ReportInv
  <2>4. CASE Verify
    <3>1. UNCHANGED <<Intact, Verdict, decrypted>>
      BY <2>4, IntactKept DEF Verify
    <3>2. printed' = "FAILED" => ~Intact /\ Verdict = "printed"
      BY <2>4 DEF Verify, Exit
    <3>3. status' = "1" => Verdict = "status"
      BY <2>4 DEF Verify, Exit
    <3> QED BY <3>1, <3>2, <3>3 DEF ReportInv
  <2> QED BY <2>1, <2>2, <2>3, <2>4
<1> QED BY <1>1, <1>2

LEMMA FailuresHold == IInv /\ ReportInv => FailuresExplained
<1> SUFFICES ASSUME IInv, ReportInv,
                    \/ printed = "FAILED"
                    \/ pc = "exit" /\ status = "1" /\ decrypted # <<>> /\ ~Intact
             PROVE  \/ prog \in BlockPrograms /\ fault # NoFault /\ fault <= inputLen
                    \/ Unchecked
  BY DEF FailuresExplained, Unchecked
<1>1. pc = "exit" /\ Reported
  BY DEF IInv, StatusInv, Reported
<1>2. ~Intact /\ Verdict \in {"printed", "status"}
  BY DEF ReportInv
<1>3. prog # "rijndael OCaml"
  BY <1>2 DEF Verdict
<1>4. prog \in BlockPrograms \cup StreamPrograms
  BY DEF IInv, StatusInv
<1>5. CASE prog \in BlockPrograms
  BY <1>1, <1>2, <1>3, <1>5, BlocksIntact
<1>6. CASE prog \in StreamPrograms
  BY <1>1, <1>2, <1>6, StreamIntact
<1> QED BY <1>4, <1>5, <1>6

(* If a program says that the message did not come back, then a byte of    *)
(* the message was decrypted wrongly, or a key or nonce file was shorter   *)
(* than what was loaded of it.                                             *)
THEOREM FailuresHaveReasons == Spec => []FailuresExplained
<1>1. Init => ReportInv
  BY DEF Init, DriversInit, ReportInv
<1> QED BY <1>1, ReportStep, FailuresHold, Inductive, PTL DEF Spec

-----------------------------------------------------------------------------
(* The safety of RefinesDriverRun.                                         *)
SafeRun == Run!Init /\ [][Run!Next]_(Run!vars)

LEMMA VerdictKinds == Verdict \in {"printed", "status", "none"} /\ Intact \in BOOLEAN
BY DEF Verdict, Intact

(* A program is to its script one of the three ways to report: it works,   *)
(* with the exit status and the report untouched, until it reports what is *)
(* true of its buffers, or gives up without a word and with a status that  *)
(* is not 0.                                                               *)
THEOREM ProgramsAreRuns == Spec => SafeRun
<1>1. Init => Run!Init
  BY VerdictKinds DEF Init, DriversInit, Run!Init
<1>2. IInv /\ [Next]_vars => [Run!Next]_(Run!vars)
  <2> SUFFICES ASSUME IInv, [Next]_vars PROVE [Run!Next]_(Run!vars)
    OBVIOUS
  <2>1. CASE UNCHANGED vars
    <3>1. UNCHANGED <<Intact, Verdict, status, printed>>
      BY <2>1, IntactKept DEF vars
    <3> QED BY <3>1 DEF Run!vars
  <2>2. CASE Next
    <3>1. /\ UNCHANGED files /\ status = "running" /\ printed = "nothing"
          /\ GoesOn \/ GivesUp \/ Verify
      BY <2>2, Steps
    <3>2. Verdict' = Verdict /\ Intact' \in BOOLEAN
      BY <3>1, FilesKept DEF Intact
    <3>3. CASE GoesOn
      BY <3>1, <3>2, <3>3 DEF GoesOn, Run!Next, Run!Work
    <3>4. CASE GivesUp
      <4>1. Intact' = Intact
        BY <3>1, <3>4, IntactKept DEF GivesUp
      <4> QED BY <3>1, <3>2, <3>4, <4>1 DEF GivesUp, Run!Next, Run!Abort
    <3>5. CASE Verify
      <4>1. Intact' = Intact
        BY <3>5, IntactKept DEF Verify
      <4>2. CASE Verdict = "printed"
        BY <3>1, <3>2, <3>5, <4>1, <4>2 DEF Verify, Exit, Run!Next, Run!Report
      <4>3. CASE Verdict = "status" /\ Intact
        BY <3>1, <3>2, <3>5, <4>1, <4>3 DEF Verify, Exit, Run!Next, Run!Report
      <4>4. CASE Verdict = "status" /\ ~Intact
        BY <3>1, <3>2, <3>5, <4>1, <4>4 DEF Verify, Exit, Run!Next, Run!Report
      <4>5. CASE Verdict = "none"
        BY <3>1, <3>2, <3>5, <4>1, <4>5 DEF Verify, Exit, Run!Next, Run!Report
      <4> QED BY <4>2, <4>3, <4>4, <4>5, VerdictKinds
    <3> QED BY <3>1, <3>3, <3>4, <3>5
  <2> QED BY <2>1, <2>2
<1> QED BY <1>1, <1>2, Inductive, PTL DEF Spec, SafeRun

-----------------------------------------------------------------------------
(* The campaigns.                                                          *)
(* What is known of dir, with the names of all scripts.                    *)
Names == {"c", "c_simd", "ocaml", "ocaml_opt", "oxcaml"}
DirInv == dir \in DOMAIN Style

(* Every directory has a C and an OCaml program that print no statistics.  *)
LEMMA ScriptsOfDir ==
  ASSUME DirInv
  PROVE  /\ Scripts \subseteq Names
         /\ \A s \in {"c", "ocaml"} : s \in Scripts /\ Style[dir][s] # "verbose"
<1>1. CASE dir = "aes-ni"
  <2>1. Style[dir] =
          [c |-> "pipe", ocaml |-> "append", oxcaml |-> "strict"]
    BY <1>1 DEF Style
  <2> QED BY <2>1 DEF Scripts, Names
<1>2. CASE dir = "chacha20"
  <2>1. Style[dir] =
          [c |-> "pipe", c_simd |-> "pipe", ocaml |-> "pipe", oxcaml |-> "pipe"]
    BY <1>2 DEF Style
  <2> QED BY <2>1 DEF Scripts, Names
<1>3. CASE dir = "rijndael"
  <2>1. Style[dir] =
          [c |-> "fields", ocaml |-> "append"]
    BY <1>3 DEF Style
  <2> QED BY <2>1 DEF Scripts, Names
<1>4. CASE dir = "rijndael opt"
  <2>1. Style[dir] =
          [c |-> "fields", ocaml |-> "append", ocaml_opt |-> "verbose"]
    BY <1>4 DEF Style
  <2> QED BY <2>1 DEF Scripts, Names
<1>5. CASE dir = "rijndael final"
  <2>1. Style[dir] =
          [c |-> "pipe", ocaml |-> "pipe"]
    BY <1>5 DEF Style
  <2> QED BY <2>1 DEF Scripts, Names
<1> QED BY <1>1, <1>2, <1>3, <1>4, <1>5 DEF DirInv, Style

(* What one script does to a sum over all of them.                         *)
LEMMA TotalStep ==
  ASSUME DirInv, NEW f \in [Scripts -> Nat], NEW g \in [Scripts -> Nat],
         NEW s \in Scripts, \A q \in Scripts : q # s => g[q] = f[q]
  PROVE  Total(g) - g[s] = Total(f) - f[s]
<1>1. Scripts \subseteq Names
  BY ScriptsOfDir
<1> QED BY <1>1 DEF Total, Names

LEMMA TotalBounds ==
  ASSUME DirInv, NEW f \in [Scripts -> Nat]
  PROVE  /\ Total(f) \in Nat
         /\ \A s \in Scripts : f[s] <= Total(f)
         /\ \A s, q \in Scripts : s # q => f[s] + f[q] <= Total(f)
<1>1. Scripts \subseteq Names
  BY ScriptsOfDir
<1> QED BY <1>1 DEF Total, Names

-----------------------------------------------------------------------------
(* The rows that come from programs, also from one that has not reported.  *)
Measured == [size : 1 .. Inputs, of : 0 .. Inputs, run : 0 .. MaxStarts]

(* The outputs in a table in its run r after some inputs and faults: each  *)
(* is as far behind its own place as outputs are missing, at most.         *)
Filled(t, past, r, faults) ==
  /\ t \in Seq(Measured) /\ Len(t) <= past
  /\ \A i \in 1 .. Len(t) :
       /\ t[i].run = r
       /\ t[i].of \in {t[i].size, 0}
       /\ i <= t[i].size /\ t[i].size <= i + (past - Len(t))
       /\ \A j \in 1 .. i - 1 : t[j].size < t[i].size
  /\ faults = 0 =>
       Len(t) = past /\ \A i \in 1 .. Len(t) : t[i].of = t[i].size

LEMMA RowFields ==
  ASSUME NEW r \in Measured
  PROVE  r.size \in 1 .. Inputs /\ r.of \in 0 .. Inputs /\ r.run \in 0 .. MaxStarts
BY DEF Measured

LEMMA RowAdded ==
  ASSUME NEW a \in 1 .. Inputs, NEW r \in 0 .. MaxStarts, NEW of \in {a, 0},
         NEW f \in Nat, NEW g \in Nat, g = 0 => f = 0 /\ of = a,
         NEW t, Filled(t, a - 1, r, f)
  PROVE  Filled(Append(t, Row(a, of, r)), a, r, g)
<1> DEFINE row == Row(a, of, r)
           u == Append(t, row)
           k == Len(t)
<1>0. Inputs \in Nat
  BY CampaignAssumption
<1>1. /\ row \in Measured /\ row.size = a /\ row.of = of /\ row.run = r
  BY <1>0 DEF Measured, Row
<1>2. t \in Seq(Measured) /\ k \in Nat /\ k <= a - 1
  BY <1>0 DEF Filled
<1>3. /\ u \in Seq(Measured) /\ Len(u) = k + 1
      /\ \A i \in 1 .. k : u[i] = t[i]
      /\ u[k + 1] = row
  BY <1>1, <1>2
<1>4. ASSUME NEW i \in 1 .. k
      PROVE  t[i].size \in 1 .. Inputs
  BY <1>2, RowFields
<1>5. ASSUME NEW i \in 1 .. k
      PROVE  /\ t[i].run = r /\ t[i].of \in {t[i].size, 0}
             /\ i <= t[i].size /\ t[i].size <= i + ((a - 1) - k)
             /\ \A j \in 1 .. i - 1 : t[j].size < t[i].size
             /\ f = 0 => t[i].of = t[i].size
  BY DEF Filled
<1>6. f = 0 => k = a - 1
  BY DEF Filled
<1> HIDE DEF u, k, row
<1>7. ASSUME NEW i \in 1 .. k + 1
      PROVE  /\ u[i].run = r
             /\ u[i].of \in {u[i].size, 0}
             /\ i <= u[i].size /\ u[i].size <= i + (a - (k + 1))
             /\ \A j \in 1 .. i - 1 : u[j].size < u[i].size
             /\ g = 0 => u[i].of = u[i].size
  <2>1. CASE i = k + 1
    <3>1. ASSUME NEW j \in 1 .. i - 1 PROVE u[j].size < u[i].size
      <4>1. j \in 1 .. k /\ u[j] = t[j]
        BY <1>2, <1>3, <2>1, <3>1
      <4>2. t[j].size \in 1 .. Inputs /\ t[j].size <= j + ((a - 1) - k)
        BY <4>1, <1>4, <1>5
      <4>3. t[j].size < a
        BY <4>1, <4>2, <1>0, <1>2
      <4> QED BY <4>1, <4>3, <1>1, <1>3, <2>1
    <3>2. u[i] = row
      BY <1>3, <2>1
    <3>3. k + 1 <= a /\ a <= (k + 1) + (a - (k + 1))
      BY <1>0, <1>2
    <3> QED BY <3>1, <3>2, <3>3, <1>1, <2>1
  <2>2. CASE i # k + 1
    <3>1. i \in 1 .. k /\ u[i] = t[i]
      BY <1>2, <1>3, <2>2
    <3>2. \A j \in 1 .. i - 1 : u[j] = t[j]
      BY <1>2, <1>3, <3>1
    <3>3. (a - 1) - k = a - (k + 1)
      BY <1>0, <1>2
    <3>4. \A j \in 1 .. i - 1 : t[j].size < t[i].size
      BY <1>5, <3>1
    <3>5. \A j \in 1 .. i - 1 : u[j].size < u[i].size
      BY ONLY <3>1, <3>2, <3>4, Zenon
    <3> QED BY <1>5, <3>1, <3>3, <3>5
  <2> QED BY <2>1, <2>2
<1>8. Len(u) <= a /\ (g = 0 => Len(u) = a)
  BY <1>0, <1>2, <1>3, <1>6
<1>9. Filled(u, a, r, g)
  BY <1>3, <1>7, <1>8 DEF Filled
<1> QED BY <1>9 DEF u, row

LEMMA RowMissed ==
  ASSUME NEW a \in Nat, NEW b \in Nat, a <= b,
         NEW r, NEW f, NEW g \in Nat \ {0}, NEW t, Filled(t, a, r, f)
  PROVE  Filled(t, b, r, g)
<1>1. t \in Seq(Measured) /\ Len(t) \in Nat /\ Len(t) <= b
  BY DEF Filled
<1>2. ASSUME NEW i \in 1 .. Len(t)
      PROVE  /\ t[i].run = r /\ t[i].of \in {t[i].size, 0}
             /\ i <= t[i].size /\ t[i].size <= i + (b - Len(t))
             /\ \A j \in 1 .. i - 1 : t[j].size < t[i].size
  <2>1. /\ t[i].run = r /\ t[i].of \in {t[i].size, 0}
        /\ i <= t[i].size /\ t[i].size <= i + (a - Len(t))
        /\ \A j \in 1 .. i - 1 : t[j].size < t[i].size
    BY DEF Filled
  <2>2. t[i].size \in Int
    BY <1>1, RowFields
  <2> QED BY <1>1, <2>1, <2>2
<1> QED BY <1>1, <1>2 DEF Filled

(* Without an output missing every one is at its own place.                *)
LEMMA FilledWhole ==
  ASSUME NEW r, NEW f, NEW t, Filled(t, Inputs, r, f), Len(t) = Inputs
  PROVE  \A i \in 1 .. Inputs : t[i].size = i /\ t[i].of \in {i, 0}
<1> SUFFICES ASSUME NEW i \in 1 .. Inputs
             PROVE  t[i].size = i /\ t[i].of \in {i, 0}
  OBVIOUS
<1>1. /\ t[i].of \in {t[i].size, 0}
      /\ i <= t[i].size /\ t[i].size <= i + (Inputs - Inputs)
  BY DEF Filled
<1>2. t \in Seq(Measured) /\ Inputs \in Nat
  BY CampaignAssumption DEF Filled
<1>3. t[i].size \in Int
  BY <1>2, RowFields
<1> QED BY <1>1, <1>2, <1>3

-----------------------------------------------------------------------------
(* The lines of a table.  Line i is a row if i - 1 is a multiple of the    *)
(* lines that one output has.                                              *)
LEMMA LinePlace ==
  ASSUME NEW n \in Nat, NEW k \in Nat, NEW i \in 1 .. k * (n + 1)
  PROVE  /\ (i - 1) \div (n + 1) \in 0 .. k - 1
         /\ (i - 1) % (n + 1) \in 0 .. n
         /\ i - 1 = ((i - 1) \div (n + 1)) * (n + 1) + ((i - 1) % (n + 1))
<1> DEFINE m == n + 1
           b == i - 1
           q == b \div m
           e == b % m
<1>1. m \in Nat \ {0} /\ k * m \in Nat
  OBVIOUS
<1>2. b \in Nat /\ b < k * m
  BY <1>1
<1> HIDE DEF m, b
<1>3. q \in Nat /\ e \in 0 .. m - 1 /\ b = q * m + e
  <2>1. b \in Int
    BY <1>2
  <2> QED BY ONLY <1>1, <1>2, <2>1, DivMod, DivNat
<1> HIDE DEF q, e
<1>4. q < k
  <2>1. CASE q >= k
    <3>1. q * m >= k * m
      BY <1>1, <1>3, <2>1
    <3> QED BY <1>1, <1>2, <1>3, <3>1
  <2> QED BY <1>3, <2>1
<1>5. q \in 0 .. k - 1 /\ e \in 0 .. n
  BY <1>3, <1>4 DEF m
<1> QED BY <1>3, <1>5 DEF q, e, m, b

LEMMA LinesTyped ==
  ASSUME NEW n \in Nat, NEW r \in 0 .. MaxStarts, NEW rows \in Seq(Measured)
  PROVE  /\ Lines(rows, n, r) \in Seq(Rows)
         /\ Len(Lines(rows, n, r)) = Len(rows) * (n + 1)
         /\ \A i \in 1 .. Len(rows) * (n + 1) :
              Lines(rows, n, r)[i] =
                IF (i - 1) % (n + 1) = 0 THEN rows[(i - 1) \div (n + 1) + 1] ELSE Text(r)
<1> DEFINE k == Len(rows) * (n + 1)
           e(i) == IF (i - 1) % (n + 1) = 0 THEN rows[(i - 1) \div (n + 1) + 1] ELSE Text(r)
<1>0. Inputs \in Nat /\ MaxStarts \in Nat
  BY CampaignAssumption
<1>1. Text(r) \in Rows
  BY <1>0 DEF Text, Row, Rows
<1>2. k \in Nat
  OBVIOUS
<1>3. ASSUME NEW i \in 1 .. k PROVE e(i) \in Rows
  <2>1. (i - 1) \div (n + 1) + 1 \in 1 .. Len(rows)
    <3>1. Len(rows) \in Nat /\ i \in 1 .. Len(rows) * (n + 1)
      BY <1>3
    <3>2. (i - 1) \div (n + 1) \in 0 .. Len(rows) - 1
      BY <3>1, LinePlace
    <3> QED BY <3>1, <3>2
  <2>2. rows[(i - 1) \div (n + 1) + 1] \in Measured
    BY <2>1
  <2>3. Measured \subseteq Rows
    BY <1>0 DEF Measured, Rows
  <2> QED BY <1>1, <2>2, <2>3
<1>4. Lines(rows, n, r) = [i \in 1 .. k |-> e(i)]
  BY DEF Lines
<1> HIDE DEF k, e
<1>5. [i \in 1 .. k |-> e(i)] \in Seq(Rows) /\ Len([i \in 1 .. k |-> e(i)]) = k
  BY <1>2, <1>3, IsASeq
<1> QED BY <1>4, <1>5 DEF k, e

(* Without lines of text a table is its rows.                              *)
LEMMA LinesPlain ==
  ASSUME NEW r \in 0 .. MaxStarts, NEW rows \in Seq(Measured)
  PROVE  Lines(rows, 0, r) = rows
<1>1. ASSUME NEW i \in 1 .. Len(rows)
      PROVE  (i - 1) % 1 = 0 /\ (i - 1) \div 1 = i - 1
  OBVIOUS
<1>2. Lines(rows, 0, r) = [i \in 1 .. Len(rows) |-> rows[i]]
  BY <1>1 DEF Lines
<1> QED BY <1>2

(* What one more output adds to the lines of a table.                      *)
LEMMA LinesAdded ==
  ASSUME NEW n \in Nat, NEW r \in 0 .. MaxStarts, NEW rows \in Seq(Measured),
         NEW row \in Measured
  PROVE  Lines(Append(rows, row), n, r) = Lines(rows, n, r) \o Lines(<<row>>, n, r)
<1> DEFINE m == n + 1
           k == Len(rows)
           more == Append(rows, row)
           s == Lines(rows, n, r)
           t == Lines(<<row>>, n, r)
           u == Lines(more, n, r)
<1>1. /\ k \in Nat /\ m \in Nat \ {0} /\ more \in Seq(Measured) /\ Len(more) = k + 1
      /\ \A i \in 1 .. k : more[i] = rows[i]
      /\ more[k + 1] = row
      /\ <<row>> \in Seq(Measured) /\ Len(<<row>>) = 1 /\ <<row>>[1] = row
  OBVIOUS
<1>2. /\ k * m \in Nat /\ (k + 1) * m = k * m + m /\ 1 * m = m
      /\ Len(<<row>>) * m = m /\ Len(more) * m = k * m + m
  BY <1>1
<1>3. /\ s \in Seq(Rows) /\ Len(s) = k * m
      /\ \A i \in 1 .. k * m :
           s[i] = IF (i - 1) % m = 0 THEN rows[(i - 1) \div m + 1] ELSE Text(r)
  BY LinesTyped
<1>4. /\ t \in Seq(Rows) /\ Len(t) = m
      /\ \A i \in 1 .. m :
           t[i] = IF (i - 1) % m = 0 THEN <<row>>[(i - 1) \div m + 1] ELSE Text(r)
  <2>1. /\ t \in Seq(Rows) /\ Len(t) = Len(<<row>>) * m
        /\ \A i \in 1 .. Len(<<row>>) * m :
             t[i] = IF (i - 1) % m = 0 THEN <<row>>[(i - 1) \div m + 1] ELSE Text(r)
    BY <1>1, LinesTyped
  <2> HIDE DEF t, m, k
  <2> QED BY ONLY <1>2, <2>1
<1>5. /\ u \in Seq(Rows) /\ Len(u) = k * m + m
      /\ \A i \in 1 .. k * m + m :
           u[i] = IF (i - 1) % m = 0 THEN more[(i - 1) \div m + 1] ELSE Text(r)
  <2>1. /\ u \in Seq(Rows) /\ Len(u) = Len(more) * m
        /\ \A i \in 1 .. Len(more) * m :
             u[i] = IF (i - 1) % m = 0 THEN more[(i - 1) \div m + 1] ELSE Text(r)
    BY <1>1, LinesTyped
  <2> HIDE DEF u, m, k, more
  <2> QED BY ONLY <1>2, <2>1
<1>6. ASSUME NEW i \in 1 .. k * m
      PROVE  (i - 1) \div m + 1 \in 1 .. k
  <2> DEFINE d == (i - 1) \div m
  <2>1. n \in Nat /\ k \in Nat
    BY <1>1
  <2>2. d \in 0 .. k - 1
    <3>1. i \in 1 .. k * (n + 1)
      BY <1>6
    <3> HIDE DEF k
    <3> QED BY ONLY <2>1, <3>1, LinePlace
  <2> HIDE DEF d, k, m
  <2>3. d + 1 \in 1 .. k
    BY ONLY <2>1, <2>2
  <2> QED BY <2>3 DEF d
<1>7. /\ s \o t \in Seq(Rows) /\ Len(s \o t) = k * m + m
      /\ \A i \in 1 .. k * m + m :
           (s \o t)[i] = IF i <= k * m THEN s[i] ELSE t[i - k * m]
  <2>1. /\ s \o t \in Seq(Rows) /\ Len(s \o t) = Len(s) + Len(t)
        /\ \A i \in 1 .. Len(s) + Len(t) :
             (s \o t)[i] = IF i <= Len(s) THEN s[i] ELSE t[i - Len(s)]
    BY <1>3, <1>4, ConcatProperties
  <2>2. Len(s) = k * m /\ Len(t) = m
    BY <1>3, <1>4
  <2> HIDE DEF s, t, m, k
  <2> QED BY ONLY <2>1, <2>2
<1> HIDE DEF s, t, u, more, m, k
<1>8. ASSUME NEW i \in 1 .. k * m + m PROVE u[i] = (s \o t)[i]
  <2>1. CASE i <= k * m
    <3>1. i \in 1 .. k * m
      BY <1>2, <2>1
    <3>2. more[(i - 1) \div m + 1] = rows[(i - 1) \div m + 1]
      BY <1>1, <1>6, <3>1
    <3>3. u[i] = s[i]
      BY <1>3, <1>5, <3>1, <3>2
    <3> QED BY <1>7, <2>1, <3>3
  <2>2. CASE ~(i <= k * m)
    <3> DEFINE e == i - k * m
    <3>1. e \in 1 .. m /\ e - 1 \in 0 .. m - 1 /\ i - 1 = k * m + (e - 1)
          /\ e - 1 = 0 * m + (e - 1)
      BY <1>1, <1>2, <2>2
    <3> HIDE DEF e
    <3>2. (i - 1) \div m = k /\ (i - 1) % m = e - 1
      <4>1. k \in Int
        BY <1>1
      <4> QED BY ONLY <1>1, <3>1, <4>1, DivModUnique
    <3>3. (e - 1) \div m = 0 /\ (e - 1) % m = e - 1
      <4>1. (0 * m + (e - 1)) \div m = 0 /\ (0 * m + (e - 1)) % m = e - 1
        <5>1. 0 \in Int
          OBVIOUS
        <5> QED BY ONLY <1>1, <3>1, <5>1, DivModUnique
      <4> QED BY <3>1, <4>1
    <3>4. u[i] = IF e - 1 = 0 THEN more[k + 1] ELSE Text(r)
      BY <1>5, <3>2
    <3>5. t[e] = IF e - 1 = 0 THEN <<row>>[0 + 1] ELSE Text(r)
      BY <1>4, <3>1, <3>3
    <3>6. u[i] = t[e]
      BY <1>1, <3>4, <3>5
    <3>7. (s \o t)[i] = t[e]
      BY <1>7, <2>2 DEF e
    <3> QED BY <3>6, <3>7
  <2> QED BY <2>1, <2>2
<1>9. u = s \o t
  BY <1>5, <1>7, <1>8, SeqEqual
<1> QED BY <1>9 DEF s, t, u, more
-----------------------------------------------------------------------------
(* A table with n lines of text behind every output.                       *)
Held(t, past, r, faults, n) ==
  \E rows \in Seq(Measured) :
    Filled(rows, past, r, faults) /\ t = Lines(rows, n, r)

LEMMA HeldAdded ==
  ASSUME NEW a \in 1 .. Inputs, NEW r \in 0 .. MaxStarts, NEW of \in {a, 0},
         NEW f \in Nat, NEW g \in Nat, g = 0 => f = 0 /\ of = a, NEW n \in Nat,
         NEW t, Held(t, a - 1, r, f, n)
  PROVE  Held(t \o Lines(<<Row(a, of, r)>>, n, r), a, r, g, n)
<1>0. Inputs \in Nat
  BY CampaignAssumption
<1>1. PICK rows \in Seq(Measured) : Filled(rows, a - 1, r, f) /\ t = Lines(rows, n, r)
  BY DEF Held
<1> DEFINE row == Row(a, of, r)
<1>2. row \in Measured
  BY <1>0 DEF Measured, Row
<1>3. Filled(Append(rows, row), a, r, g)
  BY <1>1, RowAdded
<1> HIDE DEF row
<1>4. Append(rows, row) \in Seq(Measured)
  BY <1>2
<1>5. t \o Lines(<<row>>, n, r) = Lines(Append(rows, row), n, r)
  BY <1>1, <1>2, LinesAdded
<1>6. Held(t \o Lines(<<row>>, n, r), a, r, g, n)
  BY <1>3, <1>4, <1>5 DEF Held
<1> QED BY <1>6 DEF row

LEMMA HeldMissed ==
  ASSUME NEW a \in Nat, NEW b \in Nat, a <= b, NEW n,
         NEW r, NEW f, NEW g \in Nat \ {0}, NEW t, Held(t, a, r, f, n)
  PROVE  Held(t, b, r, g, n)
BY RowMissed DEF Held

LEMMA HeldTyped ==
  ASSUME NEW past \in Nat, NEW r \in 0 .. MaxStarts, NEW f, NEW n \in Nat,
         NEW t, Held(t, past, r, f, n)
  PROVE  t \in Seq(Rows) /\ Len(t) <= past * (n + 1)
<1>1. PICK rows \in Seq(Measured) : Filled(rows, past, r, f) /\ t = Lines(rows, n, r)
  BY DEF Held
<1>2. t \in Seq(Rows) /\ Len(t) = Len(rows) * (n + 1)
  BY <1>1, LinesTyped
<1>3. Len(rows) <= past /\ Len(rows) \in Nat
  BY <1>1 DEF Filled
<1> DEFINE k == Len(rows)
<1> HIDE DEF k
<1>4. k * (n + 1) <= past * (n + 1)
  BY <1>3 DEF k
<1> QED BY <1>2, <1>4 DEF k

(* The lines of text there are behind a row.                               *)
LEMMA BehindKinds ==
  ASSUME NEW s \in Scripts
  PROVE  /\ Behind(s) \in Nat
         /\ Style[dir][s] # "verbose" => Behind(s) = 0
         /\ run[s] = 0 => Behind(s) = 0
         /\ Behind(s) = 0 \/ Behind(s) >= Inputs
<1>1. Statistics \in Nat /\ Inputs \in Nat /\ Inputs <= Statistics
  BY CampaignAssumption, StatisticsAssumption
<1> QED BY <1>1 DEF Behind

-----------------------------------------------------------------------------
CounterInv ==
  /\ at \in [Scripts -> 0 .. Inputs]
  /\ run \in [Scripts -> Nat] /\ Total(run) <= MaxStarts
  /\ lost \in [Scripts -> Nat] /\ Total(lost) <= MaxFaults
TableInv ==
  /\ table \in [Scripts -> Seq(Rows)]
  /\ \A s \in Scripts : Held(table[s], Past(s), run[s], lost[s], Behind(s))
PictureInv ==
  /\ picture.placed \in [Scripts -> Seq(0 .. Inputs)]
  /\ picture.sizes \in Seq(0 .. Inputs)
  /\ \A s \in Scripts : Len(picture.placed[s]) = Len(picture.sizes)
CampaignInv == DirInv /\ CounterInv /\ TableInv /\ PictureInv

LEMMA RunBound ==
  ASSUME DirInv, CounterInv, NEW s \in Scripts
  PROVE  run[s] \in 0 .. MaxStarts /\ lost[s] \in 0 .. MaxFaults
<1>1. run[s] <= Total(run) /\ lost[s] <= Total(lost) /\ run[s] \in Nat /\ lost[s] \in Nat
      /\ Total(run) \in Nat /\ Total(lost) \in Nat
  BY TotalBounds DEF CounterInv
<1> QED BY <1>1, CampaignAssumption DEF CounterInv

(* A step of one script leaves the others what they were.                  *)
LEMMA ScriptStep ==
  ASSUME CampaignInv, UNCHANGED <<dir, picture>>, NEW s \in Scripts,
         NEW a \in 0 .. Inputs, NEW r \in Nat, NEW f \in Nat, NEW t \in Seq(Rows),
         NEW n,
         at' = [at EXCEPT ![s] = a], run' = [run EXCEPT ![s] = r],
         lost' = [lost EXCEPT ![s] = f], table' = [table EXCEPT ![s] = t],
         r = run[s] \/ (r = run[s] + 1 /\ Total(run) < MaxStarts),
         f \in {0, lost[s]} \/ (f = lost[s] + 1 /\ Total(lost) < MaxFaults),
         n = (IF Style[dir][s] = "verbose" /\ r > 0 THEN Statistics ELSE 0),
         Held(t, IF a = 0 THEN Inputs ELSE a - 1, r, f, n)
  PROVE  CampaignInv'
<1>0. Inputs \in Nat \ {0} /\ MaxStarts \in Nat /\ MaxFaults \in Nat
  BY CampaignAssumption
<1>1. Scripts' = Scripts /\ Rows' = Rows /\ DirInv /\ CounterInv /\ TableInv
  BY DEF Scripts, Rows, CampaignInv
<1>2. /\ at' \in [Scripts -> 0 .. Inputs] /\ run' \in [Scripts -> Nat]
      /\ lost' \in [Scripts -> Nat] /\ table' \in [Scripts -> Seq(Rows)]
  BY <1>1 DEF CounterInv, TableInv
<1>3. \A q \in Scripts : q # s =>
        at'[q] = at[q] /\ run'[q] = run[q] /\ lost'[q] = lost[q] /\ table'[q] = table[q]
  BY <1>1 DEF CounterInv, TableInv
<1>4. at'[s] = a /\ run'[s] = r /\ lost'[s] = f /\ table'[s] = t
  BY <1>1 DEF CounterInv, TableInv
<1>5. CounterInv'
  <2>1. Total(run') - run'[s] = Total(run) - run[s]
    BY <1>1, <1>2, <1>3, TotalStep DEF CounterInv
  <2>2. Total(lost') - lost'[s] = Total(lost) - lost[s]
    BY <1>1, <1>2, <1>3, TotalStep DEF CounterInv
  <2>3. Total(run)' = Total(run') /\ Total(lost)' = Total(lost')
    BY <1>1 DEF Total
  <2>4. /\ Total(run) \in Nat /\ Total(lost) \in Nat /\ run[s] \in Nat /\ lost[s] \in Nat
        /\ Total(run) <= MaxStarts /\ Total(lost) <= MaxFaults
    BY <1>1, TotalBounds DEF CounterInv
  <2>5. Total(run') \in Nat /\ Total(lost') \in Nat
    BY <1>1, <1>2, TotalBounds
  <2>6. Total(run') = Total(run) - run[s] + r /\ Total(lost') = Total(lost) - lost[s] + f
    <3>1. r \in Nat /\ f \in Nat
      OBVIOUS
    <3>2. Total(run') - r = Total(run) - run[s] /\ Total(lost') - f = Total(lost) - lost[s]
      BY <1>4, <2>1, <2>2
    <3> QED BY ONLY <3>1, <3>2, <2>4, <2>5
  <2>7. Total(run') <= MaxStarts
    <3>1. CASE r = run[s]
      BY <2>4, <2>6, <3>1
    <3>2. CASE r = run[s] + 1 /\ Total(run) < MaxStarts
      BY <1>0, <2>4, <2>6, <3>2
    <3> QED BY <3>1, <3>2
  <2>8. Total(lost') <= MaxFaults
    <3>1. CASE f \in {0, lost[s]}
      BY <1>0, <2>4, <2>6, <3>1
    <3>2. CASE f = lost[s] + 1 /\ Total(lost) < MaxFaults
      BY <1>0, <2>4, <2>6, <3>2
    <3> QED BY <3>1, <3>2
  <2> QED BY <1>1, <1>2, <2>3, <2>7, <2>8 DEF CounterInv
<1>6. ASSUME NEW q \in Scripts
      PROVE  Held(table'[q], Past(q)', run'[q], lost'[q], Behind(q)')
  <2>1. CASE q = s
    <3>1. Past(q)' = IF a = 0 THEN Inputs ELSE a - 1
      BY <1>4, <2>1 DEF Past
    <3>2. Behind(q)' = n
      BY <1>4, <2>1 DEF Behind
    <3> QED BY <1>4, <2>1, <3>1, <3>2
  <2>2. CASE q # s
    <3>1. Past(q)' = Past(q)
      BY <1>3, <2>2 DEF Past
    <3>2. Behind(q)' = Behind(q)
      BY <1>3, <2>2 DEF Behind
    <3> QED BY <1>1, <1>3, <2>2, <3>1, <3>2 DEF TableInv
  <2> QED BY <2>1, <2>2
<1>7. TableInv'
  <2>1. ASSUME NEW q \in Scripts'
        PROVE  Held(table[q], Past(q), run[q], lost[q], Behind(q))'
    BY <1>1, <1>6, <2>1 DEF Held, Filled, Lines, Text, Row, Measured
  <2> QED BY <1>1, <1>2, <2>1 DEF TableInv
<1> QED BY <1>1, <1>5, <1>7 DEF CampaignInv, PictureInv, DirInv

LEMMA TablesKept ==
  ASSUME TableInv, UNCHANGED <<dir, at, table, run, lost>>
  PROVE  TableInv'
BY DEF TableInv, Scripts, Past, Behind

LEMMA CampaignInitInv == CampaignInit => CampaignInv
<1> SUFFICES ASSUME CampaignInit PROVE CampaignInv
  OBVIOUS
<1>0. Inputs \in Nat /\ MaxStarts \in Nat /\ MaxFaults \in Nat
  BY CampaignAssumption
<1>1. DirInv
  BY DEF CampaignInit, DirInv
<1>2. Total(run) = 0 /\ Total(lost) = 0
  BY <1>1, ScriptsOfDir DEF CampaignInit, Total
<1>3. CounterInv
  BY <1>0, <1>2 DEF CampaignInit, CounterInv
<1>4. /\ Sized(0) \in Seq(Measured) /\ Len(Sized(0)) = Inputs
      /\ \A i \in 1 .. Inputs : Sized(0)[i] = Row(i, i, 0)
  <2>1. ASSUME NEW i \in 1 .. Inputs PROVE Row(i, i, 0) \in Measured
    BY <1>0 DEF Row, Measured
  <2> QED BY <1>0, <2>1 DEF Sized
<1>5. Filled(Sized(0), Inputs, 0, 0)
  <2>1. ASSUME NEW i \in 1 .. Inputs
        PROVE  Sized(0)[i].size = i /\ Sized(0)[i].of = i /\ Sized(0)[i].run = 0
    <3>1. Row(i, i, 0).size = i /\ Row(i, i, 0).of = i /\ Row(i, i, 0).run = 0
      BY DEF Row
    <3> QED BY <1>4, <3>1
  <2>2. ASSUME NEW i \in 1 .. Inputs, NEW j \in 1 .. i - 1
        PROVE  Sized(0)[j].size < Sized(0)[i].size
    <3>1. j \in 1 .. Inputs
      BY <1>0, <2>2
    <3> QED BY <1>0, <2>1, <3>1
  <2> QED BY <1>0, <1>4, <2>1, <2>2 DEF Filled
<1>6. TableInv
  <2>1. Sized(0) = Lines(Sized(0), 0, 0) /\ Sized(0) \in Seq(Rows)
    <3>1. 0 \in 0 .. MaxStarts /\ 0 \in Nat
      BY <1>0
    <3> QED BY <1>4, <3>1, LinesPlain, LinesTyped
  <2>2. Held(Sized(0), Inputs, 0, 0, 0)
    BY <1>4, <1>5, <2>1 DEF Held
  <2>3. ASSUME NEW s \in Scripts
        PROVE  /\ table[s] = Sized(0) /\ Past(s) = Inputs /\ run[s] = 0 /\ lost[s] = 0
               /\ Behind(s) = 0
    BY DEF CampaignInit, Past, Behind
  <2> QED BY <2>1, <2>2, <2>3 DEF TableInv, CampaignInit
<1>7. PictureInv
  BY DEF CampaignInit, PictureInv
<1> QED BY <1>1, <1>3, <1>6, <1>7 DEF CampaignInv

LEMMA StartInv ==
  ASSUME CampaignInv, NEW s \in Scripts, Start(s)
  PROVE  CampaignInv'
<1>0. Inputs \in Nat \ {0}
  BY CampaignAssumption
<1>1. /\ run[s] + 1 \in Nat /\ run[s] + 1 \in 0 .. MaxStarts /\ 1 \in 0 .. Inputs
  <2>1. run[s] <= Total(run) /\ run[s] \in Nat /\ Total(run) \in Nat
    BY TotalBounds DEF CampaignInv, CounterInv
  <2>2. Total(run) < MaxStarts /\ MaxStarts \in Nat
    BY CampaignAssumption DEF Start
  <2> QED BY <1>0, <2>1, <2>2
<1> DEFINE n == IF Style[dir][s] = "verbose" /\ run[s] + 1 > 0 THEN Statistics ELSE 0
<1>2. <<>> \in Seq(Rows) /\ Held(<<>>, 0, run[s] + 1, 0, n)
  <2>1. Filled(<<>>, 0, run[s] + 1, 0) /\ <<>> \in Seq(Measured)
    BY DEF Filled
  <2>2. n \in Nat
    BY StatisticsAssumption
  <2> HIDE DEF n
  <2>3. Lines(<<>>, n, run[s] + 1) = <<>>
    <3>1. Len(Lines(<<>>, n, run[s] + 1)) = Len(<<>>) * (n + 1)
          /\ Lines(<<>>, n, run[s] + 1) \in Seq(Rows)
      BY <1>1, <2>1, <2>2, LinesTyped
    <3>2. Len(<<>>) * (n + 1) = 0
      BY <2>2
    <3> QED BY <3>1, <3>2
  <2>4. <<>> \in Seq(Rows)
    OBVIOUS
  <2> QED BY <2>1, <2>3, <2>4, Zenon DEF Held
<1>3. /\ at' = [at EXCEPT ![s] = 1] /\ run' = [run EXCEPT ![s] = run[s] + 1]
      /\ lost' = [lost EXCEPT ![s] = 0] /\ table' = [table EXCEPT ![s] = <<>>]
      /\ Total(run) < MaxStarts /\ UNCHANGED <<dir, picture>>
  BY DEF Start, Emptied
<1>4. Held(<<>>, IF 1 = 0 THEN Inputs ELSE 1 - 1, run[s] + 1, 0, n)
  BY <1>2
<1>5. n = (IF Style[dir][s] = "verbose" /\ run[s] + 1 > 0 THEN Statistics ELSE 0)
  OBVIOUS
<1> HIDE DEF n
<1> QED BY <1>1, <1>2, <1>3, <1>4, <1>5, ScriptStep

LEMMA ReportsInv ==
  ASSUME CampaignInv, NEW s \in Scripts, Reports(s)
  PROVE  CampaignInv'
<1>0. Inputs \in Nat \ {0}
  BY CampaignAssumption
<1>1. /\ at[s] \in 1 .. Inputs /\ run[s] \in 0 .. MaxStarts /\ lost[s] \in Nat
      /\ run[s] \in Nat /\ run = [run EXCEPT ![s] = run[s]]
      /\ lost = [lost EXCEPT ![s] = lost[s]]
  BY <1>0, RunBound DEF Reports, CampaignInv, CounterInv
<1> DEFINE n == Behind(s)
<1>2. Held(table[s], at[s] - 1, run[s], lost[s], n) /\ n \in Nat
  BY <1>0, <1>1, BehindKinds DEF CampaignInv, TableInv, Past
<1> DEFINE t == table[s] \o Lines(<<Row(at[s], at[s], run[s])>>, n, run[s])
<1>3. Held(t, at[s], run[s], lost[s], n)
  <2> HIDE DEF n
  <2> QED BY <1>1, <1>2, HeldAdded
<1>4. t \in Seq(Rows)
  <2>1. at[s] \in Nat
    BY <1>1
  <2> HIDE DEF t, n
  <2> QED BY <1>1, <1>2, <1>3, <2>1, HeldTyped
<1>8. n = (IF Style[dir][s] = "verbose" /\ run[s] > 0 THEN Statistics ELSE 0)
  BY DEF Behind
<1>5. /\ After(at[s]) \in 0 .. Inputs
      /\ at[s] = IF After(at[s]) = 0 THEN Inputs ELSE After(at[s]) - 1
  BY <1>0, <1>1 DEF After
<1>6. at' = [at EXCEPT ![s] = After(at[s])] /\ table' = [table EXCEPT ![s] = t]
      /\ run' = [run EXCEPT ![s] = run[s]] /\ lost' = [lost EXCEPT ![s] = lost[s]]
      /\ UNCHANGED <<dir, picture>>
  BY <1>1 DEF Reports, Printed
<1> HIDE DEF t, n
<1>7. Held(t, IF After(at[s]) = 0 THEN Inputs ELSE After(at[s]) - 1, run[s], lost[s], n)
  BY <1>3, <1>5
<1> QED BY <1>1, <1>4, <1>8, <1>5, <1>6, <1>7, ScriptStep

LEMMA NoReportInv ==
  ASSUME CampaignInv, NEW s \in Scripts, NoReport(s)
  PROVE  CampaignInv'
<1>0. Inputs \in Nat \ {0}
  BY CampaignAssumption
<1>1. /\ at[s] \in 1 .. Inputs /\ run[s] \in 0 .. MaxStarts /\ lost[s] \in Nat
      /\ run[s] \in Nat /\ run = [run EXCEPT ![s] = run[s]]
      /\ table = [table EXCEPT ![s] = table[s]] /\ lost[s] + 1 \in Nat
  BY <1>0, RunBound DEF NoReport, CampaignInv, CounterInv, TableInv
<1> DEFINE n == Behind(s)
<1>2. Held(table[s], at[s] - 1, run[s], lost[s], n) /\ n \in Nat
  BY <1>0, <1>1, BehindKinds DEF CampaignInv, TableInv, Past
<1>8. n = (IF Style[dir][s] = "verbose" /\ run[s] > 0 THEN Statistics ELSE 0)
  BY DEF Behind
<1>3. /\ Total(lost) < MaxFaults /\ lost' = [lost EXCEPT ![s] = lost[s] + 1]
      /\ run' = [run EXCEPT ![s] = run[s]] /\ UNCHANGED <<dir, picture>>
  BY <1>1 DEF NoReport
<1> DEFINE a == IF Style[dir][s] = "strict" THEN 0 ELSE After(at[s])
           past == IF a = 0 THEN Inputs ELSE a - 1
<1>4. at' = [at EXCEPT ![s] = a]
  BY DEF NoReport
<1>5. a \in 0 .. Inputs /\ past \in Nat /\ at[s] <= past
  BY <1>0, <1>1 DEF After
<1>6. CASE Style[dir][s] = "fields"
  <2> DEFINE row == Row(at[s], 0, run[s])
             t == table[s] \o Lines(<<row>>, n, run[s])
  <2>1. Held(t, at[s], run[s], lost[s] + 1, n)
    <3>1. 0 \in {at[s], 0} /\ lost[s] + 1 \in Nat /\ lost[s] + 1 # 0
      BY <1>1
    <3> HIDE DEF a, n
    <3> QED BY <1>1, <1>2, <3>1, HeldAdded
  <2>2. Held(t, past, run[s], lost[s] + 1, n)
    <3> HIDE DEF t, a, n, past
    <3>1. at[s] \in Nat /\ lost[s] + 1 \in Nat \ {0}
      BY <1>1
    <3> QED BY <1>5, <2>1, <3>1, HeldMissed
  <2>3. n = 0
    BY <1>6, BehindKinds
  <2>4. t = Append(table[s], row)
    <3>1. row \in Measured
      BY <1>0, <1>1 DEF Measured, Row
    <3>2. Lines(<<row>>, 0, run[s]) = <<row>>
      <4> HIDE DEF row
      <4>1. <<row>> \in Seq(Measured)
        BY <3>1
      <4> QED BY <1>1, <4>1, LinesPlain
    <3>3. row \in Rows
      BY <1>0, <1>1 DEF Rows, Row
    <3>4. table[s] \in Seq(Rows)
      BY DEF CampaignInv, TableInv
    <3> HIDE DEF row
    <3>5. Append(table[s], row) = table[s] \o <<row>>
      BY <3>3, <3>4, AppendIsConcat
    <3> HIDE DEF n
    <3> QED BY <2>3, <3>2, <3>5
  <2>5. table' = [table EXCEPT ![s] = t]
    BY <1>6, <2>4 DEF NoReport, Unreported
  <2>6. t \in Seq(Rows)
    <3> HIDE DEF t, n, past
    <3> QED BY <1>1, <1>2, <1>5, <2>2, HeldTyped
  <2>7. Held(t, IF a = 0 THEN Inputs ELSE a - 1, run[s], lost[s] + 1, n)
    BY <2>2
  <2> HIDE DEF t, past, a, n
  <2> QED BY <1>1, <1>3, <1>4, <1>5, <1>8, <2>5, <2>6, <2>7, ScriptStep
<1>7. CASE Style[dir][s] # "fields"
  <2>1. Held(table[s], past, run[s], lost[s] + 1, n)
    <3>1. at[s] - 1 <= past /\ at[s] - 1 \in Nat /\ lost[s] + 1 \in Nat \ {0}
      BY <1>1, <1>5
    <3> HIDE DEF past, n
    <3> QED BY <1>2, <1>5, <3>1, HeldMissed
  <2>2. table' = [table EXCEPT ![s] = table[s]] /\ table[s] \in Seq(Rows)
    BY <1>1, <1>7 DEF NoReport, CampaignInv, TableInv
  <2>3. Held(table[s], IF a = 0 THEN Inputs ELSE a - 1, run[s], lost[s] + 1, n)
    BY <2>1
  <2> HIDE DEF past, a, n
  <2> QED BY <1>1, <1>3, <1>4, <1>5, <1>8, <2>2, <2>3, ScriptStep
<1> QED BY <1>6, <1>7

LEMMA InterruptInv ==
  ASSUME CampaignInv, NEW s \in Scripts, Interrupt(s)
  PROVE  CampaignInv'
<1>0. Inputs \in Nat \ {0}
  BY CampaignAssumption
<1>1. /\ at[s] \in 1 .. Inputs /\ lost[s] \in Nat
      /\ run[s] \in Nat /\ run = [run EXCEPT ![s] = run[s]]
      /\ table = [table EXCEPT ![s] = table[s]] /\ lost[s] + 1 \in Nat
  BY <1>0 DEF Interrupt, CampaignInv, CounterInv, TableInv
<1> DEFINE n == Behind(s)
<1>2. Held(table[s], at[s] - 1, run[s], lost[s], n)
  BY <1>0, <1>1 DEF CampaignInv, TableInv, Past
<1>3. Held(table[s], Inputs, run[s], lost[s] + 1, n)
  <2>1. at[s] - 1 <= Inputs /\ at[s] - 1 \in Nat /\ lost[s] + 1 \in Nat \ {0}
        /\ Inputs \in Nat
    BY <1>0, <1>1
  <2> HIDE DEF n
  <2> QED BY <1>2, <2>1, HeldMissed
<1>7. n = (IF Style[dir][s] = "verbose" /\ run[s] > 0 THEN Statistics ELSE 0)
  BY DEF Behind
<1>4. /\ Total(lost) < MaxFaults /\ lost' = [lost EXCEPT ![s] = lost[s] + 1]
      /\ run' = [run EXCEPT ![s] = run[s]] /\ UNCHANGED <<dir, picture>>
      /\ at' = [at EXCEPT ![s] = 0] /\ table' = [table EXCEPT ![s] = table[s]]
  BY <1>1 DEF Interrupt
<1>5. Held(table[s], IF 0 = 0 THEN Inputs ELSE 0 - 1, run[s], lost[s] + 1, n)
  BY <1>3
<1>6. table[s] \in Seq(Rows) /\ 0 \in 0 .. Inputs
  BY <1>0 DEF CampaignInv, TableInv
<1> HIDE DEF n
<1> QED BY <1>1, <1>4, <1>5, <1>6, <1>7, ScriptStep

LEMMA DrawInv ==
  ASSUME CampaignInv, Draw
  PROVE  CampaignInv'
<1>0. Inputs \in Nat \ {0}
  BY CampaignAssumption
<1>1. DirInv /\ TableInv /\ UNCHANGED <<dir, at, table, run, lost>>
      /\ Scripts' = Scripts /\ "c" \in Scripts
  BY ScriptsOfDir DEF CampaignInv, Draw, Scripts
<1> DEFINE k == Len(table["c"])
<1>2. /\ k \in Nat /\ DOMAIN table["c"] = 1 .. k
      /\ \A i \in 1 .. k : table["c"][i].size \in 0 .. Inputs
  <2>1. table["c"] \in Seq(Rows)
    BY <1>1 DEF TableInv
  <2>2. \A row \in Rows : row.size \in 0 .. Inputs
    BY DEF Rows
  <2> QED BY <2>1, <2>2
<1>3. ASSUME NEW s \in Scripts
      PROVE  \A i \in 1 .. k : table[s][i].of \in 0 .. Inputs
  <2>1. table[s] \in Seq(Rows) /\ Len(table[s]) = k
    BY <1>1 DEF TableInv, Draw, Drawable
  <2>2. \A row \in Rows : row.of \in 0 .. Inputs
    BY DEF Rows
  <2> QED BY <2>1, <2>2
<1> HIDE DEF k
<1>4. /\ picture'.sizes = [i \in 1 .. k |-> table["c"][i].size]
      /\ picture'.placed = [s \in Scripts |-> [i \in 1 .. k |-> table[s][i].of]]
  BY <1>2 DEF Draw
<1>5. picture'.sizes \in Seq(0 .. Inputs) /\ Len(picture'.sizes) = k
  BY <1>2, <1>4
<1>6. ASSUME NEW s \in Scripts
      PROVE  picture'.placed[s] \in Seq(0 .. Inputs) /\ Len(picture'.placed[s]) = k
  <2>1. \A i \in 1 .. k : table[s][i].of \in 0 .. Inputs
    BY <1>3, <1>6
  <2>2. picture'.placed[s] = [i \in 1 .. k |-> table[s][i].of]
    BY <1>4, <1>6
  <2>3. k \in Nat
    BY <1>2
  <2> QED BY ONLY <2>1, <2>2, <2>3
<1>7. picture'.placed \in [Scripts -> Seq(0 .. Inputs)]
  BY <1>4, <1>6
<1>8. PictureInv'
  BY <1>1, <1>5, <1>6, <1>7 DEF PictureInv
<1>9. CounterInv' /\ TableInv' /\ DirInv'
  <2>1. CounterInv' /\ DirInv'
    BY <1>1 DEF CampaignInv, CounterInv, DirInv, Total
  <2>2. TableInv'
    BY <1>1, TablesKept DEF CampaignInv
  <2> QED BY <2>1, <2>2
<1> QED BY <1>8, <1>9 DEF CampaignInv

LEMMA CampaignNextInv == CampaignInv /\ [CampaignNext]_campaign => CampaignInv'
<1> SUFFICES ASSUME CampaignInv, [CampaignNext]_campaign PROVE CampaignInv'
  OBVIOUS
<1>1. CASE Draw
  BY <1>1, DrawInv
<1>2. ASSUME NEW s \in Scripts, Start(s) PROVE CampaignInv'
  BY <1>2, StartInv
<1>3. ASSUME NEW s \in Scripts, Step(s) PROVE CampaignInv'
  BY <1>3, ReportsInv, NoReportInv DEF Step
<1>4. ASSUME NEW s \in Scripts, Interrupt(s) PROVE CampaignInv'
  BY <1>4, InterruptInv
<1>5. CASE UNCHANGED campaign
  <2>1. DirInv' /\ CounterInv' /\ PictureInv'
    BY <1>5 DEF campaign, CampaignInv, DirInv, CounterInv, PictureInv, Scripts, Total
  <2>2. TableInv'
    BY <1>5, TablesKept DEF campaign, CampaignInv
  <2> QED BY <2>1, <2>2 DEF CampaignInv
<1> QED BY <1>1, <1>2, <1>3, <1>4, <1>5 DEF CampaignNext

(* The rows of every table are in place as far as rows are missing, however *)
(* scripts are started, interrupted and drawn from.                        *)
THEOREM CampaignInductive == CampaignSpec => []CampaignInv
<1> QED BY CampaignInitInv, CampaignNextInv, PTL DEF CampaignSpec

(* No table grows beyond the inputs with their statistics, and no script    *)
(* has a row of an input it has not come to.                               *)
THEOREM CampaignTyped == CampaignSpec => []CampaignTypeOK
<1>1. CampaignInv => CampaignTypeOK
  <2> SUFFICES ASSUME CampaignInv PROVE CampaignTypeOK
    OBVIOUS
  <2>0. Inputs \in Nat /\ DirInv /\ CounterInv /\ TableInv /\ PictureInv
    BY CampaignAssumption DEF CampaignInv
  <2>1. ASSUME NEW s \in Scripts
        PROVE  /\ at[s] \in 0 .. Inputs /\ run[s] \in 0 .. MaxStarts
               /\ lost[s] \in 0 .. MaxFaults
               /\ Range(table[s]) \subseteq Rows
               /\ Len(table[s]) <= Past(s) * (Behind(s) + 1)
               /\ Len(picture.placed[s]) = Len(picture.sizes)
    <3>1. at[s] \in 0 .. Inputs /\ run[s] \in 0 .. MaxStarts /\ lost[s] \in 0 .. MaxFaults
      BY <2>0, RunBound DEF CounterInv
    <3>2. Past(s) \in Nat /\ Behind(s) \in Nat
      BY <2>0, <3>1, BehindKinds DEF Past
    <3>3. Held(table[s], Past(s), run[s], lost[s], Behind(s)) /\ table[s] \in Seq(Rows)
      BY <2>0 DEF TableInv
    <3>4. Len(table[s]) <= Past(s) * (Behind(s) + 1)
      BY <3>1, <3>2, <3>3, HeldTyped
    <3>5. Range(table[s]) \subseteq Rows
      BY <3>3 DEF Range
    <3> QED BY <2>0, <3>1, <3>4, <3>5 DEF PictureInv
  <2> QED BY <2>0, <2>1 DEF CampaignTypeOK, DirInv, CounterInv
<1> QED BY <1>1, CampaignInductive, PTL

(* What the lines of a table are.                                          *)
LEMMA HeldTrue ==
  ASSUME NEW past \in Nat, NEW r \in 0 .. MaxStarts, NEW f, NEW n \in Nat,
         NEW t, Held(t, past, r, f, n), NEW i \in 1 .. Len(t)
  PROVE  /\ t[i].run = r
         /\ t[i].of \in {t[i].size, 0}
         /\ t[i].size = 0 => n > 0
         /\ \A j \in 1 .. i - 1 : t[i].size = 0 \/ t[j].size < t[i].size
<1>1. PICK rows \in Seq(Measured) : Filled(rows, past, r, f) /\ t = Lines(rows, n, r)
  BY DEF Held
<1> DEFINE k == Len(rows)
           m == n + 1
<1>2. /\ Len(t) = k * m /\ k \in Nat /\ m \in Nat \ {0}
      /\ \A l \in 1 .. k * m :
           t[l] = IF (l - 1) % m = 0 THEN rows[(l - 1) \div m + 1] ELSE Text(r)
  <2>1. /\ Len(t) = k * m
        /\ \A l \in 1 .. k * m :
             t[l] = IF (l - 1) % m = 0 THEN rows[(l - 1) \div m + 1] ELSE Text(r)
    BY <1>1, LinesTyped, Zenon
  <2>2. k \in Nat /\ m \in Nat \ {0}
    OBVIOUS
  <2> QED BY <2>1, <2>2
<1>3. ASSUME NEW l \in 1 .. k * m
      PROVE  \E q \in 0 .. k - 1, e \in 0 .. n :
               l - 1 = q * m + e /\ t[l] = IF e = 0 THEN rows[q + 1] ELSE Text(r)
  <2> DEFINE q == (l - 1) \div m
             e == (l - 1) % m
  <2>1. q \in 0 .. k - 1 /\ e \in 0 .. n /\ l - 1 = q * m + e
    BY <1>2, <1>3, LinePlace
  <2>2. t[l] = IF e = 0 THEN rows[q + 1] ELSE Text(r)
    BY <1>2, <1>3
  <2> HIDE DEF q, e
  <2> QED BY <2>1, <2>2
<1>4. ASSUME NEW q \in 0 .. k - 1
      PROVE  /\ rows[q + 1].run = r /\ rows[q + 1].size \in 1 .. Inputs
             /\ rows[q + 1].of \in {rows[q + 1].size, 0}
             /\ \A p \in 0 .. q - 1 : rows[p + 1].size < rows[q + 1].size
  <2>1. q + 1 \in 1 .. k /\ \A p \in 0 .. q - 1 : p + 1 \in 1 .. (q + 1) - 1
    BY <1>2, <1>4
  <2>2. rows[q + 1] \in Measured
    BY <2>1
  <2>3. /\ rows[q + 1].run = r /\ rows[q + 1].of \in {rows[q + 1].size, 0}
        /\ \A j \in 1 .. (q + 1) - 1 : rows[j].size < rows[q + 1].size
    BY <1>1, <2>1 DEF Filled
  <2> QED BY <2>1, <2>2, <2>3, RowFields
<1>5. Text(r).size = 0 /\ Text(r).of = 0 /\ Text(r).run = r
  BY DEF Text, Row
<1>6. Inputs \in Nat
  BY CampaignAssumption
<1> HIDE DEF k, m
<1>7. PICK q \in 0 .. k - 1, e \in 0 .. n :
        i - 1 = q * m + e /\ t[i] = IF e = 0 THEN rows[q + 1] ELSE Text(r)
  BY <1>2, <1>3
<1>8. CASE e = 0
  <2>1. t[i] = rows[q + 1] /\ rows[q + 1].size \in 1 .. Inputs
    BY <1>4, <1>7, <1>8
  <2>2. ASSUME NEW j \in 1 .. i - 1
        PROVE  t[j].size < t[i].size
    <3>1. j \in 1 .. k * m
      BY <1>2, <2>2
    <3>2. PICK p \in 0 .. k - 1, d \in 0 .. n :
            j - 1 = p * m + d /\ t[j] = IF d = 0 THEN rows[p + 1] ELSE Text(r)
      BY <1>3, <3>1
    <3>3. CASE d = 0
      <4>1. p < q
        <5>1. CASE p >= q
          <6>1. p * m >= q * m
            <7>1. p \in Nat /\ q \in Nat /\ m \in Nat
              BY <1>2
            <7> QED BY ONLY <5>1, <7>1
          <6>2. p * m \in Int /\ q * m \in Int /\ j - 1 = p * m /\ i - 1 = q * m
            BY <1>2, <1>7, <1>8, <3>2, <3>3
          <6>3. j < i /\ j \in Int /\ i \in Int
            BY <1>2, <2>2
          <6> QED BY ONLY <6>1, <6>2, <6>3
        <5> QED BY <5>1
      <4>2. p \in 0 .. q - 1
        BY <4>1
      <4>3. rows[p + 1].size < rows[q + 1].size
        BY <1>4, <4>2
      <4>4. t[j] = rows[p + 1]
        BY <3>2, <3>3
      <4> QED BY ONLY <2>1, <4>3, <4>4
    <3>4. CASE d # 0
      <4>1. t[j].size = 0
        BY <1>5, <3>2, <3>4
      <4>2. t[i].size \in 1 .. Inputs
        BY ONLY <2>1
      <4> QED BY ONLY <1>6, <4>1, <4>2
    <3> QED BY <3>3, <3>4
  <2>3. t[i].run = r /\ t[i].of \in {t[i].size, 0} /\ t[i].size # 0
    BY <1>4, <1>6, <2>1
  <2> QED BY <2>2, <2>3
<1>9. CASE e # 0
  <2>1. t[i] = Text(r)
    BY <1>7, <1>9
  <2> QED BY <1>5, <1>9, <2>1
<1> QED BY <1>8, <1>9

(* A table in which no output is missing.                                  *)
LEMMA FilledSized ==
  ASSUME NEW r, NEW rows \in Seq(Measured), Filled(rows, Inputs, r, 0)
  PROVE  rows = Sized(r)
<1>1. Len(rows) = Inputs
  BY DEF Filled
<1>2. ASSUME NEW i \in 1 .. Inputs
      PROVE  rows[i] = Row(i, i, r)
  <2>1. rows[i].size = i
    BY <1>1, FilledWhole
  <2>2. rows[i].of = rows[i].size /\ rows[i].run = r
    BY <1>1 DEF Filled
  <2>3. rows[i] \in Measured
    BY <1>1
  <2> QED BY <2>1, <2>2, <2>3 DEF Measured, Row
<1>3. rows = [i \in 1 .. Inputs |-> rows[i]]
  BY <1>1
<1> QED BY <1>2, <1>3 DEF Sized

(* Whatever fails or is interrupted, a table holds rows of the last run of *)
(* its script, each with its own values, and all of them without a fault,  *)
(* with lines of text only from a program that prints statistics.          *)
THEOREM TablesCorrect == CampaignSpec => []TablesTrue
<1>1. CampaignInv => TablesTrue
  <2> SUFFICES ASSUME CampaignInv, NEW s \in Scripts
               PROVE  /\ \A i \in DOMAIN table[s] :
                           /\ table[s][i].run = run[s]
                           /\ table[s][i].of \in {table[s][i].size, 0}
                           /\ table[s][i].size = 0 => Behind(s) > 0
                           /\ \A j \in 1 .. i - 1 :
                                table[s][i].size = 0 \/ table[s][j].size < table[s][i].size
                      /\ at[s] = 0 /\ lost[s] = 0 => table[s] = Whole(s)
    BY DEF TablesTrue
  <2>1. /\ Held(table[s], Past(s), run[s], lost[s], Behind(s))
        /\ DOMAIN table[s] = 1 .. Len(table[s])
    BY DEF CampaignInv, TableInv
  <2>2. Past(s) \in Nat /\ run[s] \in 0 .. MaxStarts /\ Behind(s) \in Nat
    BY CampaignAssumption, RunBound, BehindKinds DEF CampaignInv, CounterInv, Past
  <2>3. ASSUME NEW i \in DOMAIN table[s]
        PROVE  /\ table[s][i].run = run[s]
               /\ table[s][i].of \in {table[s][i].size, 0}
               /\ table[s][i].size = 0 => Behind(s) > 0
               /\ \A j \in 1 .. i - 1 :
                    table[s][i].size = 0 \/ table[s][j].size < table[s][i].size
    BY <2>1, <2>2, HeldTrue
  <2>4. ASSUME at[s] = 0, lost[s] = 0 PROVE table[s] = Whole(s)
    <3>1. PICK rows \in Seq(Measured) :
            Filled(rows, Inputs, run[s], 0) /\ table[s] = Lines(rows, Behind(s), run[s])
      BY <2>1, <2>4 DEF Held, Past
    <3> QED BY <3>1, FilledSized DEF Whole
  <2> QED BY <2>3, <2>4
<1> QED BY <1>1, CampaignInductive, PTL

(* A table in which no output is missing has a row of every input and as   *)
(* many lines of text behind each.                                         *)
LEMMA WholeLength ==
  ASSUME CampaignInv, NEW s \in Scripts, at[s] = 0, lost[s] = 0
  PROVE  Behind(s) \in Nat /\ Len(table[s]) = Inputs * (Behind(s) + 1)
<1>1. Held(table[s], Past(s), run[s], lost[s], Behind(s))
  BY DEF CampaignInv, TableInv
<1>2. run[s] \in 0 .. MaxStarts /\ Behind(s) \in Nat
  BY RunBound, BehindKinds DEF CampaignInv, CounterInv
<1>3. PICK rows \in Seq(Measured) :
        Filled(rows, Inputs, run[s], 0) /\ table[s] = Lines(rows, Behind(s), run[s])
  BY <1>1 DEF Held, Past
<1>4. Len(rows) = Inputs
  BY <1>3 DEF Filled
<1> QED BY <1>2, <1>3, <1>4, LinesTyped

(* If all the scripts of a directory have run without a fault, or have not *)
(* run, its graphs can be drawn, unless a table has statistics in it; then *)
(* that table is longer than the C table.                                  *)
THEOREM GraphsAfterScripts == CampaignSpec => []GraphsFollow
<1>1. ASSUME CampaignInv, \A s \in Scripts : at[s] = 0 /\ lost[s] = 0
      PROVE  Drawable <=> \A s \in Scripts : Behind(s) = 0
  <2>1. \A s \in Scripts : Behind(s) \in Nat /\ Len(table[s]) = Inputs * (Behind(s) + 1)
    BY <1>1, WholeLength
  <2>2. "c" \in Scripts /\ Behind("c") = 0
    BY <1>1, ScriptsOfDir, BehindKinds DEF CampaignInv
  <2>3. Inputs \in Nat \ {0} /\ Len(table["c"]) = Inputs
    BY <2>1, <2>2, CampaignAssumption
  <2>4. ASSUME NEW s \in Scripts
        PROVE  Len(table[s]) = Inputs <=> Behind(s) = 0
    <3> DEFINE n == Behind(s)
    <3>1. n \in Nat /\ Len(table[s]) = Inputs * (n + 1)
      BY <2>1
    <3> HIDE DEF n
    <3>2. CASE n = 0
      BY <3>1, <3>2, <2>3 DEF n
    <3>3. CASE n >= 1
      <4>1. Inputs * (n + 1) = Inputs * n + Inputs
        BY ONLY <3>1, <2>3
      <4>2. Inputs * n >= 1
        <5>1. Inputs >= 1 /\ Inputs \in Nat
          BY <2>3
        <5> QED BY ONLY <3>1, <3>3, <5>1
      <4>3. Inputs * n \in Nat
        BY ONLY <3>1, <2>3
      <4> QED BY <2>3, <3>1, <3>3, <4>1, <4>2, <4>3 DEF n
    <3> QED BY <3>1, <3>2, <3>3
  <2> QED BY <2>3, <2>4 DEF Drawable
<1>2. CampaignInv => GraphsFollow
  BY <1>1 DEF GraphsFollow
<1> QED BY <1>2, CampaignInductive, PTL

(* One fault at most since the scripts were last started never puts a value *)
(* at another size: another script of the directory has a whole table      *)
(* without statistics, a table as long as that has every row in its own    *)
(* place, and no table with statistics is as long as that.                 *)
THEOREM OneFaultHarmless == CampaignSpec => OneFault
<1>1. ASSUME CampaignInv, [CampaignNext]_campaign, picture' # picture, Total(lost) <= 1,
             \A s \in Scripts : at[s] = 0
      PROVE  PlacedRight'
  <2>0. Inputs \in Nat /\ DirInv /\ CounterInv /\ TableInv
    BY <1>1, CampaignAssumption DEF CampaignInv
  <2>1. Draw
    BY <1>1 DEF CampaignNext, campaign, Start, Step, Reports, NoReport, Interrupt
  <2>2. PICK q \in Scripts : lost[q] = 0 /\ Behind(q) = 0
    <3>1. "c" \in Scripts /\ "ocaml" \in Scripts
          /\ Style[dir]["c"] # "verbose" /\ Style[dir]["ocaml"] # "verbose"
      BY <2>0, ScriptsOfDir
    <3>2. /\ lost["c"] + lost["ocaml"] <= Total(lost)
          /\ lost["c"] \in Nat /\ lost["ocaml"] \in Nat /\ Total(lost) \in Nat
      BY <2>0, <3>1, TotalBounds DEF CounterInv
    <3>3. lost["c"] = 0 \/ lost["ocaml"] = 0
      BY <1>1, <3>2
    <3> QED BY <3>1, <3>3, BehindKinds
  <2>3. ASSUME NEW s \in Scripts
        PROVE  /\ Held(table[s], Inputs, run[s], lost[s], Behind(s))
               /\ run[s] \in 0 .. MaxStarts
    BY <1>1, <2>0, RunBound DEF TableInv, Past
  <2>4. Len(table[q]) = Inputs
    <3>1. PICK rows \in Seq(Measured) :
            Filled(rows, Inputs, run[q], 0) /\ table[q] = Lines(rows, 0, run[q])
      BY <2>2, <2>3 DEF Held
    <3>2. table[q] = rows
      BY <2>3, <3>1, LinesPlain
    <3> QED BY <3>1, <3>2 DEF Filled
  <2>5. ASSUME NEW s \in Scripts
        PROVE  Len(table[s]) = Inputs
    BY <2>1, <2>4 DEF Draw, Drawable
  <2>6. ASSUME NEW s \in Scripts, NEW i \in 1 .. Inputs
        PROVE  table[s][i].size = i /\ table[s][i].of \in {i, 0}
    <3>1. PICK rows \in Seq(Measured) :
            /\ Filled(rows, Inputs, run[s], lost[s])
            /\ table[s] = Lines(rows, Behind(s), run[s])
      BY <2>3 DEF Held
    <3>2. Inputs = Len(rows) * (Behind(s) + 1) /\ Len(rows) \in Nat
      <4>1. run[s] \in 0 .. MaxStarts /\ Behind(s) \in Nat
        BY <2>3, BehindKinds
      <4>2. Len(table[s]) = Len(rows) * (Behind(s) + 1)
        BY <3>1, <4>1, LinesTyped
      <4> QED BY <2>5, <4>2
    <3>3. Behind(s) = 0
      <4> DEFINE n == Behind(s)
                 k == Len(rows)
      <4>1. n \in Nat /\ (n = 0 \/ n >= Inputs) /\ Inputs \in Nat \ {0}
        BY BehindKinds, CampaignAssumption
      <4>2. k \in Nat /\ Inputs = k * (n + 1)
        BY <3>2
      <4> HIDE DEF n, k
      <4>3. CASE k = 0
        BY <4>1, <4>2, <4>3
      <4>4. CASE k >= 1
        <5>1. k * (n + 1) >= n + 1
          BY <4>1, <4>2, <4>4
        <5> QED BY <4>1, <4>2, <5>1 DEF n
      <4> QED BY <4>2, <4>3, <4>4
    <3>4. table[s] = rows
      BY <2>3, <3>1, <3>3, LinesPlain
    <3> QED BY <2>5, <3>1, <3>4, FilledWhole
  <2>7. "c" \in Scripts /\ DOMAIN table["c"] = 1 .. Inputs
    BY <2>0, <2>5, ScriptsOfDir DEF TableInv
  <2>8. /\ picture'.sizes = [i \in 1 .. Inputs |-> table["c"][i].size]
        /\ picture'.placed = [s \in Scripts |-> [i \in 1 .. Inputs |-> table[s][i].of]]
    BY <2>1, <2>7 DEF Draw
  <2>9. Scripts' = Scripts
    BY <2>1 DEF Draw, Scripts
  <2>10. ASSUME NEW s \in Scripts, NEW i \in 1 .. Inputs
         PROVE  picture'.placed[s][i] \in {picture'.sizes[i], 0}
    BY <2>6, <2>7, <2>8
  <2>11. DOMAIN picture'.sizes = 1 .. Inputs
    BY <2>8
  <2> QED BY <2>9, <2>10, <2>11 DEF PlacedRight
<1>2. CampaignInv /\ [CampaignNext]_campaign =>
        [picture' # picture /\ Total(lost) <= 1 /\ (\A s \in Scripts : at[s] = 0)
           => PlacedRight']_campaign
  BY <1>1
<1> QED BY <1>2, CampaignInductive, PTL DEF CampaignSpec, OneFault
=============================================================================
