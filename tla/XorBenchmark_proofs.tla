------------------------ MODULE XorBenchmark_proofs ------------------------
(***************************************************************************)
(* Proofs about the two programs of xor/: for every message, every key     *)
(* file, every number of passes, every size of an int, and every           *)
(* interleaving of the two.                                                *)
(***************************************************************************)
EXTENDS XorBenchmark, SequenceTheorems, TLAPS

-----------------------------------------------------------------------------
(* Quotient and remainder by a positive modulus.                           *)
LEMMA DivMod ==
  ASSUME NEW a \in Int, NEW m \in Nat \ {0}
  PROVE  /\ a \div m \in Int
         /\ a % m \in 0 .. m-1
         /\ a = (a \div m) * m + (a % m)
OBVIOUS

(* Quotient and remainder are determined by the equation they satisfy.     *)
LEMMA DivModUnique ==
  ASSUME NEW m \in Nat \ {0}, NEW q \in Int, NEW r \in 0 .. m-1
  PROVE  /\ (q * m + r) \div m = q
         /\ (q * m + r) % m = r
<1> DEFINE a == q * m + r
<1> DEFINE d == a \div m
<1>1. a \in Int
  OBVIOUS
<1>2. /\ d \in Int /\ a % m \in 0 .. m-1
      /\ a = d * m + (a % m)
  BY <1>1, DivMod
<1> HIDE DEF d
<1>3. ASSUME d >= q + 1 PROVE FALSE
  <2>1. m * d >= m * (q + 1)
    BY <1>2, <1>3
  <2> QED BY <2>1, <1>2
<1>4. ASSUME q >= d + 1 PROVE FALSE
  <2>1. m * q >= m * (d + 1)
    BY <1>2, <1>4
  <2> QED BY <2>1, <1>2
<1>5. d = q
  BY <1>2, <1>3, <1>4
<1> QED BY <1>5, <1>2 DEF d

LEMMA SmallMod ==
  ASSUME NEW m \in Nat \ {0}, NEW r \in 0 .. m-1
  PROVE  r % m = r /\ r \div m = 0
<1>1. 0 * m + r = r
  OBVIOUS
<1> QED BY <1>1, DivModUnique

(* The parts of a natural number.                                          *)
LEMMA DivNat ==
  ASSUME NEW m \in Nat \ {0}, NEW a \in Nat
  PROVE  a \div m \in Nat
<1> DEFINE q == a \div m
<1>1. q \in Int /\ a % m \in 0 .. m-1 /\ a = q * m + (a % m)
  BY DivMod
<1> HIDE DEF q
<1>2. CASE q < 0
  <2>1. q * m <= (-1) * m
    BY <1>1, <1>2
  <2> QED BY <1>1, <2>1
<1>3. q \in Nat
  BY <1>1, <1>2
<1> QED BY <1>3 DEF q

-----------------------------------------------------------------------------
FilesThere == inputFile # Missing /\ keyFile # Missing

Buffer == [1 .. Len(inputFile) -> Byte]

Writing(pc) == pc \in {"write ciphertext", "write decrypted"}

(* What is true of the C program whatever the other one does.              *)
CControl ==
  /\ cpc \in CpcStates /\ cexit \in {"running", "0", "1", "killed"}
  /\ cpc = "exit" <=> cexit # "running"
  /\ cok \in BOOLEAN /\ cut \in BOOLEAN
  /\ ci \in Nat /\ cpass \in 0 .. Passes-1
  /\ cpc \notin {"encrypt", "decrypt", "exit"} => ci = 0 /\ cpass = 0
  /\ cpc = "strip" => FilesThere /\ keyLen \in 0 .. Len(keyFile)

(* The stripped length and the buffers, as long as there are any.  A key   *)
(* whose length is zero as an int lets no byte of a message through.       *)
CBuffers ==
  CHasBuffers =>
    /\ FilesThere /\ keyLen \in 1 .. Len(keyFile)
    /\ cenc \in Buffer /\ cdec \in Buffer
    /\ cpc \in {"encrypt", "decrypt"} => ci <= Len(inputFile)
    /\ CWritten("encrypt") > 0 => CKeyLen > 0
    /\ Writing(cpc) => cpos \in 0 .. Len(inputFile)

CKey ==
  /\ cpc = "strip" \/ CHasBuffers =>
       \A n \in keyLen + 1 .. Len(keyFile) : keyFile[n] \in Eol
  /\ CHasBuffers => keyFile[keyLen] \notin Eol

CContents ==
  /\ CHasBuffers => XoredUpTo(cenc, CWritten("encrypt"), inputFile, CKeyLen)
  /\ CHasDecrypted => SameUpTo(cdec, CWritten("decrypt"), inputFile)
  /\ cexit = "0" => cok = (cdec = inputFile)

CInv == CControl /\ CBuffers /\ CKey /\ CContents

(* The same for the OCaml program.                                         *)
OControl ==
  /\ opc \in CpcStates \ {"strip"} /\ oexit \in {"running", "0", "2"}
  /\ opc = "exit" <=> oexit # "running"
  /\ ook \in BOOLEAN /\ opass \in 0 .. Passes-1
  /\ opc \notin {"encrypt", "decrypt", "exit"} => oi = 0 /\ opass = 0
  /\ opc # "read" /\ oexit # "2" => FilesThere
  /\ opc \notin {"read", "exit"} => output \in Buffer /\ oi \in 0 .. Len(inputFile)
  /\ Writing(opc) => opos \in 0 .. Len(inputFile)

(* With a key of no bytes no byte of a message gets through.               *)
OContents ==
  /\ opc = "encrypt" => XoredUpTo(output, oi, inputFile, Len(keyFile))
  /\ opc = "encrypt" /\ oi > 0 => keyFile # <<>>
  /\ opc = "decrypt" => SameUpTo(output, oi, inputFile)
  /\ OEncrypted => (keyFile = <<>> => inputFile = <<>>)
  /\ OEncrypted => /\ oenc \in Buffer
                   /\ XoredUpTo(oenc, Len(inputFile), inputFile, Len(keyFile))
  /\ ODecrypted => odec = inputFile
  /\ oexit = "0" => ook

OInv == OControl /\ OContents

-----------------------------------------------------------------------------
(* The output files.  Since a file was emptied for the last time each      *)
(* program has written one stretch of it: the C program the bytes from     *)
(* a + 1 to b of a text, the OCaml program those from c + 1 to d.  The one *)
(* that emptied it began at the beginning, the other one where it was.     *)
Stretches(file, text, a, b, c, d) ==
  /\ a <= b /\ b <= Len(text) /\ c <= d /\ d <= Len(text)
  /\ a = 0 \/ c = 0
  /\ \A p \in 1 .. Len(file) :
       file[p] = IF (a < p /\ p <= b) \/ (c < p /\ p <= d) THEN text[p] ELSE Zero
  /\ a < b => b <= Len(file)
  /\ c < d => d <= Len(file)
  /\ Len(file) = 0 \/ (a < b /\ Len(file) = b) \/ (c < d /\ Len(file) = d)

(* The stretches end at one of the places B and at one of the places D.    *)
Shared(file, text, B, D) ==
  \E b \in B, d \in D, a, c \in Nat : Stretches(file, text, a, b, c, d)

(* Where a program that writes is, where it is when it has written all, or *)
(* where it may ever be.                                                   *)
Ends(writes, pos, wrote) ==
  IF writes THEN {pos} ELSE IF wrote THEN {Len(inputFile)} ELSE 0 .. Len(inputFile)

Ciphertext == [p \in 1 .. Len(inputFile) |-> XorByte(inputFile, p-1, Len(keyFile))]

CAfterCiphertext == cpc \in {"decrypt", "open decrypted", "write decrypted"} \/ cexit = "0"
OAfterCiphertext == opc \in {"decrypt", "open decrypted", "write decrypted"} \/ oexit = "0"
CiphertextMade == CAfterCiphertext \/ cpc = "write ciphertext" \/ opc = "write ciphertext"
CCiphertextEnds == Ends(cpc = "write ciphertext", cpos, CAfterCiphertext /\ ~cut)
OCiphertextEnds == Ends(opc = "write ciphertext", opos, OAfterCiphertext)

CiphertextInv ==
  /\ ciphertextFile \in Seq(Byte) \cup {Missing}
  /\ CiphertextMade => ciphertextFile # Missing
  /\ FilesThere /\ Fits /\ PlainKey /\ ciphertextFile # Missing =>
       Shared(ciphertextFile, Ciphertext, CCiphertextEnds, OCiphertextEnds)

DecryptedMade == cpc = "write decrypted" \/ cexit = "0" \/ opc = "write decrypted"
CDecryptedEnds == Ends(cpc = "write decrypted", cpos, cexit = "0" /\ ~cut)
ODecryptedEnds == Ends(opc = "write decrypted", opos, oexit = "0")

DecryptedInv ==
  /\ decryptedFile \in Seq(Byte) \cup {Missing}
  /\ DecryptedMade => decryptedFile # Missing
  /\ FilesThere /\ Fits /\ decryptedFile # Missing =>
       Shared(decryptedFile, inputFile, CDecryptedEnds, ODecryptedEnds)

FileInv == inputFile \in Inputs /\ keyFile \in KeyFiles

IInv == FileInv /\ CInv /\ OInv /\ CiphertextInv /\ DecryptedInv

-----------------------------------------------------------------------------
USE PassesAssumption, IntMaxAssumption

(* A length as an int: itself if it fits, and never further from zero.     *)
LEMMA ToIntBounds ==
  ASSUME NEW n \in Nat
  PROVE  /\ ToInt(n) \in Int /\ ToInt(n) <= n /\ -ToInt(n) <= n
         /\ n <= IntMax => ToInt(n) = n
<1> DEFINE M == 2 * (IntMax + 1)
           q == n \div M
           u == n % M
<1>1. M \in Nat \ {0}
  OBVIOUS
<1>2. q \in Nat /\ u \in 0 .. M-1 /\ n = q * M + u
  <2> HIDE DEF M
  <2>1. q \in Int /\ u \in 0 .. M-1 /\ n = q * M + u
    BY <1>1, DivMod
  <2>2. q \in Nat
    BY <1>1, DivNat
  <2> QED BY <2>1, <2>2
<1>3. q * M \in Nat
  BY <1>1, <1>2
<1>4. u <= n
  <2> HIDE DEF q, u, M
  <2> QED BY <1>1, <1>2, <1>3
<1>5. n <= IntMax => u = n
  <2>1. n <= IntMax => n \in 0 .. M-1
    OBVIOUS
  <2> QED BY <1>1, <2>1, SmallMod
<1>6. ToInt(n) = IF u <= IntMax THEN u ELSE u - M
  BY DEF ToInt
<1> HIDE DEF q, u
<1> QED BY <1>2, <1>4, <1>5, <1>6

LEMMA FilesAreBytes ==
  ASSUME FileInv, FilesThere
  PROVE  /\ inputFile \in Seq(Byte) /\ Len(inputFile) \in Nat
         /\ inputFile \in [1 .. Len(inputFile) -> Byte]
         /\ keyFile \in Seq(Byte) /\ Len(keyFile) \in Nat
         /\ keyFile \in [1 .. Len(keyFile) -> Byte]
BY LenProperties, FilesAssumption DEF FileInv, FilesThere

(* A buffer is a sequence of as many bytes as the input file.              *)
LEMMA BufferIsBytes ==
  ASSUME NEW n \in Nat, NEW b \in [1 .. n -> Byte]
  PROVE  b \in Seq(Byte) /\ Len(b) = n
<1>1. b \in Seq(Byte)
  BY SeqDef
<1>2. Len(b) \in Nat /\ DOMAIN b = 1 .. Len(b) /\ DOMAIN b = 1 .. n
  BY <1>1, LenProperties
<1> QED BY <1>1, <1>2

(* Xoring a byte of a message with the key, once and twice.                *)
LEMMA XorByteTwice ==
  ASSUME FileInv, FilesThere, NEW n \in 1 .. Len(keyFile), NEW i \in Nat,
         NEW a, NEW b, a[i + 1] \in Byte, b[i + 1] = XorByte(a, i, n)
  PROVE  XorByte(a, i, n) \in Byte /\ XorByte(b, i, n) = a[i + 1]
<1>1. Len(keyFile) \in Nat /\ keyFile \in [1 .. Len(keyFile) -> Byte]
  BY FilesAreBytes
<1>2. i % n \in 0 .. n-1
  <2>1. n \in Nat \ {0} /\ i \in Int
    BY <1>1
  <2> QED BY <2>1, DivMod
<1>3. keyFile[(i % n) + 1] \in Byte
  <2> DEFINE k == i % n
  <2>1. k + 1 \in 1 .. Len(keyFile)
    BY <1>1, <1>2
  <2> HIDE DEF k
  <2>2. keyFile[k + 1] \in Byte
    BY <1>1, <2>1
  <2> QED BY <2>2 DEF k
<1> QED BY <1>3, XorAssumption DEF XorByte

-----------------------------------------------------------------------------
(* A write gives a file of bytes, as long as it has come to be.            *)
LEMMA WrittenBytes ==
  ASSUME NEW file \in Seq(Byte), NEW text \in Seq(Byte),
         NEW m \in Nat, NEW n \in m + 1 .. Len(text)
  PROVE  LET out == Written(file, text, m, n) IN
         /\ out \in Seq(Byte)
         /\ Len(out) = IF n < Len(file) THEN Len(file) ELSE n
         /\ \A p \in 1 .. Len(out) :
              out[p] = IF m < p /\ p <= n THEN text[p]
                       ELSE IF p <= Len(file) THEN file[p] ELSE Zero
<1> DEFINE out == Written(file, text, m, n)
           k == IF n < Len(file) THEN Len(file) ELSE n
<1>1. /\ Len(file) \in Nat /\ DOMAIN file = 1 .. Len(file)
      /\ file \in [1 .. Len(file) -> Byte]
      /\ Len(text) \in Nat /\ text \in [1 .. Len(text) -> Byte]
  BY LenProperties
<1>2. k \in Nat /\ DOMAIN file \cup 1 .. n = 1 .. k
  BY <1>1
<1>3. out = [p \in 1 .. k |-> IF p \in m + 1 .. n THEN text[p]
                              ELSE IF p \in 1 .. Len(file) THEN file[p] ELSE Zero]
  BY <1>1, <1>2 DEF Written
<1>4. ASSUME NEW p \in 1 .. k
      PROVE  /\ p \in m + 1 .. n <=> m < p /\ p <= n
             /\ p \in 1 .. Len(file) <=> p <= Len(file)
             /\ p \in m + 1 .. n => p \in 1 .. Len(text)
  BY <1>1, <1>2
<1>5. ASSUME NEW p \in 1 .. k
      PROVE  /\ p \in m + 1 .. n => text[p] \in Byte
             /\ p \in 1 .. Len(file) => file[p] \in Byte
  BY <1>1, <1>4
<1> HIDE DEF k
<1>6. out \in [1 .. k -> Byte]
  BY <1>3, <1>5, ZeroAssumption
<1>7. \A p \in 1 .. k : out[p] = IF m < p /\ p <= n THEN text[p]
                                ELSE IF p <= Len(file) THEN file[p] ELSE Zero
  BY <1>3, <1>4
<1> HIDE DEF out
<1>8. out \in Seq(Byte) /\ Len(out) = k
  BY <1>2, <1>6, BufferIsBytes
<1> QED BY <1>7, <1>8 DEF out, k

(* The programs are alike.                                                 *)
LEMMA SharedByBoth ==
  ASSUME NEW file, NEW text, NEW B, NEW D, Shared(file, text, B, D)
  PROVE  Shared(file, text, D, B)
<1>1. PICK b \in B, d \in D, a \in Nat, c \in Nat : Stretches(file, text, a, b, c, d)
  BY DEF Shared
<1>2. Stretches(file, text, c, d, a, b)
  BY <1>1 DEF Stretches
<1> QED BY <1>2 DEF Shared

LEMMA SharedMore ==
  ASSUME NEW file, NEW text, NEW B, NEW D, NEW B2, NEW D2, B \subseteq B2, D \subseteq D2,
         Shared(file, text, B, D)
  PROVE  Shared(file, text, B2, D2)
BY DEF Shared

(* A file that has just been emptied: the other program is where it was.   *)
LEMMA SharedEmptied ==
  ASSUME NEW text \in Seq(Byte), NEW D, NEW d \in D, d \in 0 .. Len(text)
  PROVE  Shared(<<>>, text, {0}, D)
<1>1. Len(text) \in Nat /\ Len(<<>>) = 0
  BY LenProperties, EmptySeq
<1>2. d \in Nat /\ Stretches(<<>>, text, 0, 0, d, d)
  BY <1>1 DEF Stretches
<1>3. 0 \in {0} /\ 0 \in Nat
  OBVIOUS
<1> QED BY <1>2, <1>3 DEF Shared

(* A program that goes on writing makes its stretch longer.                *)
LEMMA SharedWritten ==
  ASSUME NEW file \in Seq(Byte), NEW text \in Seq(Byte),
         NEW m \in Nat, NEW n \in m + 1 .. Len(text),
         NEW D, D \subseteq Nat, Shared(file, text, {m}, D)
  PROVE  Shared(Written(file, text, m, n), text, {n}, D)
<1> DEFINE out == Written(file, text, m, n)
<1>1. PICK d \in D, a \in Nat, c \in Nat : Stretches(file, text, a, m, c, d)
  BY DEF Shared
<1>2. /\ Len(out) = IF n < Len(file) THEN Len(file) ELSE n
      /\ \A p \in 1 .. Len(out) :
           out[p] = IF m < p /\ p <= n THEN text[p]
                    ELSE IF p <= Len(file) THEN file[p] ELSE Zero
  BY WrittenBytes
<1> HIDE DEF out
<1>3. Len(file) \in Nat /\ Len(text) \in Nat /\ d \in Nat /\ n \in Nat /\ Len(out) \in Nat
  BY <1>2, LenProperties
<1>4. /\ a <= m /\ c <= d /\ d <= Len(text) /\ (a = 0 \/ c = 0)
      /\ a < m => m <= Len(file)
      /\ c < d => d <= Len(file)
      /\ Len(file) = 0 \/ (a < m /\ Len(file) = m) \/ (c < d /\ Len(file) = d)
  BY <1>1 DEF Stretches
<1>5. \A p \in 1 .. Len(file) :
        file[p] = IF (a < p /\ p <= m) \/ (c < p /\ p <= d) THEN text[p] ELSE Zero
  BY <1>1 DEF Stretches
<1>6. m < n /\ n <= Len(text) /\ n <= Len(out) /\ Len(file) <= Len(out)
  BY <1>2, <1>3
<1>7. ASSUME NEW p \in 1 .. Len(out)
      PROVE  out[p] = IF (a < p /\ p <= n) \/ (c < p /\ p <= d) THEN text[p] ELSE Zero
  <2>0. p \in Nat /\ 1 <= p
    BY <1>3
  <2>1. CASE m < p /\ p <= n
    <3>1. a < p
      BY <1>4, <2>0, <2>1
    <3> QED BY <1>2, <2>1, <3>1
  <2>2. CASE ~(m < p /\ p <= n) /\ p <= Len(file)
    <3>1. p \in 1 .. Len(file)
      BY <1>3, <2>0, <2>2
    <3>2. out[p] = file[p]
      BY <1>2, <2>2
    <3>3. (a < p /\ p <= m) <=> (a < p /\ p <= n)
      BY <1>3, <1>4, <1>6, <2>0, <2>2
    <3> QED BY <1>5, <3>1, <3>2, <3>3
  <2>3. CASE ~(m < p /\ p <= n) /\ ~(p <= Len(file))
    <3>1. out[p] = Zero
      BY <1>2, <2>3
    <3>2. ~(a < p /\ p <= n)
      BY <1>3, <1>4, <2>0, <2>3
    <3>3. ~(c < p /\ p <= d)
      BY <1>3, <1>4, <2>0, <2>3
    <3> QED BY <3>1, <3>2, <3>3
  <2> QED BY <2>1, <2>2, <2>3
<1>8. /\ a <= n /\ (a < n => n <= Len(out)) /\ (c < d => d <= Len(out))
      /\ Len(out) = 0 \/ (a < n /\ Len(out) = n) \/ (c < d /\ Len(out) = d)
  BY <1>2, <1>3, <1>4, <1>6
<1>9. Stretches(out, text, a, n, c, d)
  BY <1>4, <1>6, <1>7, <1>8 DEF Stretches
<1> QED BY <1>9 DEF Shared, out

(* If both programs have written to the end, the file is the text.         *)
LEMMA SharedWhole ==
  ASSUME NEW file \in Seq(Byte), NEW text \in Seq(Byte),
         Shared(file, text, {Len(text)}, {Len(text)})
  PROVE  file = text
<1>1. PICK a \in Nat, c \in Nat : Stretches(file, text, a, Len(text), c, Len(text))
  BY DEF Shared
<1>2. Len(file) \in Nat /\ Len(text) \in Nat
  BY LenProperties
<1>3. Len(file) = Len(text)
  BY <1>1, <1>2 DEF Stretches
<1>4. ASSUME NEW p \in 1 .. Len(file) PROVE file[p] = text[p]
  <2>1. (a < p /\ p <= Len(text)) \/ (c < p /\ p <= Len(text))
    BY <1>1, <1>2, <1>3 DEF Stretches
  <2> QED BY <1>1, <2>1 DEF Stretches
<1> QED BY <1>3, <1>4, SeqEqual

(* If only one has, for certain, it is the beginning of the text, or the   *)
(* text with one hole.                                                     *)
LEMMA SharedRest ==
  ASSUME NEW file \in Seq(Byte), NEW text \in Seq(Byte), NEW B, B \subseteq Nat,
         Shared(file, text, B, {Len(text)})
  PROVE  Beginning(file, text) \/ Holed(file, text)
<1>1. PICK b \in B, a \in Nat, c \in Nat : Stretches(file, text, a, b, c, Len(text))
  BY DEF Shared
<1>2. Len(file) \in Nat /\ Len(text) \in Nat /\ b \in Nat
  BY LenProperties
<1>3. /\ a <= b /\ b <= Len(text) /\ c <= Len(text) /\ (a = 0 \/ c = 0)
      /\ a < b => b <= Len(file)
      /\ c < Len(text) => Len(text) <= Len(file)
      /\ Len(file) = 0 \/ (a < b /\ Len(file) = b)
         \/ (c < Len(text) /\ Len(file) = Len(text))
  BY <1>1 DEF Stretches
<1>4. \A p \in 1 .. Len(file) :
        file[p] = IF (a < p /\ p <= b) \/ (c < p /\ p <= Len(text)) THEN text[p] ELSE Zero
  BY <1>1 DEF Stretches
<1>5. CASE c = 0
  <2>1. Len(file) = Len(text)
    BY <1>2, <1>3, <1>5
  <2>2. ASSUME NEW p \in 1 .. Len(file) PROVE file[p] = text[p]
    <3>1. c < p /\ p <= Len(text)
      BY <1>2, <1>5, <2>1
    <3> QED BY <1>4, <3>1
  <2> QED BY <1>2, <2>1, <2>2 DEF Beginning
<1>6. CASE a = 0 /\ c < Len(text)
  <2>1. Len(file) = Len(text)
    BY <1>2, <1>3, <1>6
  <2>2. ASSUME NEW p \in 1 .. Len(text)
        PROVE  file[p] = IF p \in b + 1 .. c THEN Zero ELSE text[p]
    <3>1. p \in 1 .. Len(file)
      BY <2>1
    <3>2. ((a < p /\ p <= b) \/ (c < p /\ p <= Len(text))) <=> p \notin b + 1 .. c
      BY <1>2, <1>6
    <3> QED BY <1>4, <3>1, <3>2
  <2>3. b \in 0 .. Len(text) /\ c \in 0 .. Len(text)
    BY <1>2, <1>3
  <2> QED BY <2>1, <2>2, <2>3 DEF Holed
<1>7. CASE a = 0 /\ c = Len(text)
  <2>1. Len(file) <= Len(text) /\ (Len(file) = 0 \/ Len(file) = b)
    BY <1>2, <1>3, <1>7
  <2>2. ASSUME NEW p \in 1 .. Len(file) PROVE file[p] = text[p]
    <3>1. a < p /\ p <= b
      BY <1>2, <1>7, <2>1
    <3> QED BY <1>4, <3>1
  <2> QED BY <2>1, <2>2 DEF Beginning
<1> QED BY <1>2, <1>3, <1>5, <1>6, <1>7

-----------------------------------------------------------------------------
(* What neither program writes.  The two programs share the output files   *)
(* only: a step of one keeps what is true of the other.                    *)
LEMMA CKept ==
  ASSUME CInv, UNCHANGED <<inputFile, keyFile, cvars>>
  PROVE  CInv'
BY DEF CInv, CControl, CBuffers, CKey, CContents, CHasBuffers, CHasDecrypted, CWritten,
       CKeyLen, ToInt, XoredUpTo, SameUpTo, XorByte, Buffer, FilesThere, cvars

LEMMA OKept ==
  ASSUME OInv, UNCHANGED <<inputFile, keyFile, ovars>>
  PROVE  OInv'
BY DEF OInv, OControl, OContents, OEncrypted, ODecrypted, XoredUpTo, SameUpTo, XorByte,
       Buffer, FilesThere, ovars

(* A file that nobody writes, when the programs may be where they were.    *)
LEMMA CiphertextKept ==
  ASSUME CiphertextInv, UNCHANGED <<inputFile, keyFile, ciphertextFile>>,
         CiphertextMade' => CiphertextMade,
         CCiphertextEnds \subseteq CCiphertextEnds', OCiphertextEnds \subseteq OCiphertextEnds'
  PROVE  CiphertextInv'
<1>1. FilesThere' = FilesThere /\ Fits' = Fits /\ PlainKey' = PlainKey
      /\ Ciphertext' = Ciphertext
  BY DEF FilesThere, Fits, PlainKey, Ciphertext, XorByte
<1>2. ASSUME Shared(ciphertextFile, Ciphertext, CCiphertextEnds, OCiphertextEnds)
      PROVE  Shared(ciphertextFile', Ciphertext', CCiphertextEnds', OCiphertextEnds')
  <2>1. Shared(ciphertextFile, Ciphertext, CCiphertextEnds', OCiphertextEnds')
    BY <1>2, SharedMore
  <2> QED BY <1>1, <2>1
<1> QED BY <1>1, <1>2 DEF CiphertextInv

LEMMA DecryptedKept ==
  ASSUME DecryptedInv, UNCHANGED <<inputFile, keyFile, decryptedFile>>,
         DecryptedMade' => DecryptedMade,
         CDecryptedEnds \subseteq CDecryptedEnds', ODecryptedEnds \subseteq ODecryptedEnds'
  PROVE  DecryptedInv'
<1>1. FilesThere' = FilesThere /\ Fits' = Fits
  BY DEF FilesThere, Fits
<1>2. ASSUME Shared(decryptedFile, inputFile, CDecryptedEnds, ODecryptedEnds)
      PROVE  Shared(decryptedFile', inputFile', CDecryptedEnds', ODecryptedEnds')
  <2>1. Shared(decryptedFile, inputFile, CDecryptedEnds', ODecryptedEnds')
    BY <1>2, SharedMore
  <2> QED BY <2>1
<1> QED BY <1>1, <1>2 DEF DecryptedInv

-----------------------------------------------------------------------------
(* The steps of the C program.                                             *)
LEMMA CReadFailsInv ==
  ASSUME CInv, CReadFails
  PROVE  CInv'
BY DEF CReadFails, CExit, CInv, CControl, CBuffers, CKey, CContents, CHasBuffers,
       CHasDecrypted, CpcStates

LEMMA CReadInv ==
  ASSUME FileInv, CInv, CRead, UNCHANGED <<inputFile, keyFile>>
  PROVE  CInv'
<1>1. FilesThere /\ Len(keyFile) \in Nat
  BY FilesAreBytes DEF CRead, FilesThere
<1>2. CControl'
  BY <1>1 DEF CRead, CInv, CControl, CpcStates, FilesThere
<1>3. CBuffers' /\ CKey' /\ CContents'
  BY <1>1 DEF CRead, CInv, CControl, CBuffers, CKey, CContents, CHasBuffers, CHasDecrypted
<1> QED BY <1>2, <1>3 DEF CInv

(* The stripped length is that of a key, and the buffers are there.        *)
LEMMA CStripInv ==
  ASSUME FileInv, CInv, CStrip, UNCHANGED <<inputFile, keyFile>>
  PROVE  CInv'
<1>1. /\ cpc = "strip" /\ cexit = "running" /\ ci = 0 /\ cpass = 0
      /\ FilesThere /\ keyLen \in 0 .. Len(keyFile)
      /\ \A n \in keyLen + 1 .. Len(keyFile) : keyFile[n] \in Eol
  BY DEF CStrip, CInv, CControl, CKey
<1>2. Len(keyFile) \in Nat /\ Len(inputFile) \in Nat
  BY <1>1, FilesAreBytes
<1>3. CASE Strips
  <2>1. /\ keyLen' = keyLen - 1 /\ keyLen' \in 0 .. Len(keyFile)
        /\ UNCHANGED <<cpc, cexit, ci, cpass, cok, cut>>
    BY <1>1, <1>2, <1>3 DEF CStrip, Strips
  <2>2. \A n \in keyLen' + 1 .. Len(keyFile) : keyFile[n] \in Eol
    BY <1>1, <1>2, <1>3, <2>1 DEF Strips
  <2>3. CControl'
    BY <1>1, <2>1 DEF CInv, CControl, FilesThere
  <2> QED BY <1>1, <2>1, <2>2, <2>3
          DEF CInv, CBuffers, CKey, CContents, CHasBuffers, CHasDecrypted
<1>4. CASE ~Strips /\ keyLen = 0
  BY <1>1, <1>4 DEF CStrip, CExit, CInv, CControl, CBuffers, CKey, CContents, CHasBuffers,
                    CHasDecrypted, CpcStates
<1>5. CASE ~Strips /\ keyLen # 0
  <2>1. /\ cpc' = "encrypt" /\ UNCHANGED <<keyLen, cexit, ci, cpass, cok, cut>>
        /\ cenc' \in Buffer /\ cdec' \in Buffer
    BY <1>5, EolAssumption DEF CStrip, Fresh, Buffer
  <2>2. keyLen \in 1 .. Len(keyFile) /\ keyFile[keyLen] \notin Eol
    BY <1>1, <1>2, <1>5 DEF Strips
  <2>3. CControl'
    BY <1>1, <2>1 DEF CInv, CControl, CpcStates
  <2>4. CWritten("encrypt")' = 0 /\ ~CHasDecrypted'
    BY <1>1, <2>1 DEF CWritten, CHasDecrypted, CHasBuffers
  <2>5. CBuffers'
    BY <1>1, <1>2, <2>1, <2>2, <2>4 DEF CBuffers, FilesThere, Buffer, Writing
  <2>6. CKey'
    BY <1>1, <2>1, <2>2 DEF CKey
  <2>7. CContents'
    BY <1>1, <2>1, <2>4 DEF CContents, XoredUpTo
  <2> QED BY <2>3, <2>5, <2>6, <2>7 DEF CInv
<1> QED BY <1>3, <1>4, <1>5

(* What every step of the byte loops finds.                                *)
LEMMA CLoopFacts ==
  ASSUME FileInv, CInv, cpc \in {"encrypt", "decrypt"}
  PROVE  /\ FilesThere /\ cexit = "running" /\ CHasBuffers
         /\ keyLen \in 1 .. Len(keyFile) /\ CKeyLen \in 0 .. keyLen
         /\ Len(keyFile) \in Nat /\ Len(inputFile) \in Nat
         /\ ToInt(Len(inputFile)) \in Int /\ ToInt(Len(inputFile)) <= Len(inputFile)
         /\ ci \in 0 .. Len(inputFile) /\ cpass \in 0 .. Passes-1
         /\ cenc \in Buffer /\ cdec \in Buffer
         /\ inputFile \in Buffer
<1>1. cexit = "running" /\ CHasBuffers /\ ci \in Nat /\ cpass \in 0 .. Passes-1
  BY DEF CInv, CControl, CHasBuffers
<1>2. /\ FilesThere /\ keyLen \in 1 .. Len(keyFile)
      /\ cenc \in Buffer /\ cdec \in Buffer /\ ci <= Len(inputFile)
  BY <1>1 DEF CInv, CBuffers
<1>3. Len(keyFile) \in Nat /\ Len(inputFile) \in Nat /\ inputFile \in Buffer
  BY <1>2, FilesAreBytes DEF Buffer
<1>4. keyLen \in Nat /\ ToInt(Len(inputFile)) \in Int
      /\ ToInt(Len(inputFile)) <= Len(inputFile)
  BY <1>2, <1>3, ToIntBounds
<1>5. CKeyLen \in 0 .. keyLen
  <2>1. ToInt(keyLen) \in Int /\ ToInt(keyLen) <= keyLen /\ -ToInt(keyLen) <= keyLen
    BY <1>4, ToIntBounds
  <2> QED BY <1>4, <2>1 DEF CKeyLen
<1> QED BY <1>1, <1>2, <1>3, <1>4, <1>5

(* A later pass writes the bytes of the first one over again.              *)
LEMMA CEncryptByteInv ==
  ASSUME FileInv, CInv, CEncryptByte, UNCHANGED <<inputFile, keyFile>>
  PROVE  CInv'
<1>1. cpc = "encrypt" /\ ci < ToInt(Len(inputFile))
      /\ UNCHANGED <<keyLen, cpass, cdec, cok, cut>>
  BY DEF CEncryptByte, CMore
<1>2. /\ FilesThere /\ cexit = "running" /\ CHasBuffers
      /\ keyLen \in 1 .. Len(keyFile) /\ CKeyLen \in 0 .. keyLen
      /\ Len(keyFile) \in Nat /\ Len(inputFile) \in Nat
      /\ ToInt(Len(inputFile)) \in Int /\ ToInt(Len(inputFile)) <= Len(inputFile)
      /\ ci \in 0 .. Len(inputFile) /\ cpass \in 0 .. Passes-1
      /\ cenc \in Buffer /\ cdec \in Buffer /\ inputFile \in Buffer
  BY <1>1, CLoopFacts
<1>3. CASE CKeyLen = 0
  BY <1>1, <1>3 DEF CEncryptByte, CExit, CInv, CControl, CBuffers, CKey, CContents,
                    CHasBuffers, CHasDecrypted, CpcStates
<1>4. CASE CKeyLen # 0
  <2> DEFINE x == XorByte(inputFile, ci, CKeyLen)
  <2>1. /\ cenc' = [cenc EXCEPT ![ci + 1] = x]
        /\ ci' = ci + 1 /\ cpc' = cpc /\ cexit' = cexit
    BY <1>4 DEF CEncryptByte, EncryptFrom
  <2>2. x \in Byte
    <3>1. ci + 1 \in 1 .. Len(inputFile) /\ CKeyLen \in 1 .. Len(keyFile) /\ ci \in Nat
      BY <1>1, <1>2, <1>4
    <3>2. inputFile[ci + 1] \in Byte
      BY <1>2, <3>1 DEF Buffer
    <3>3. [inputFile EXCEPT ![ci + 1] = x][ci + 1] = x
      BY <1>2, <3>1 DEF Buffer
    <3> QED BY <1>2, <3>1, <3>2, <3>3, XorByteTwice
  <2>3. CControl'
    BY <1>1, <1>2, <2>1 DEF CInv, CControl
  <2>4. CHasBuffers' /\ ~CHasDecrypted'
    BY <1>1, <1>2, <2>1 DEF CHasBuffers, CHasDecrypted
  <2>5. CKeyLen' = CKeyLen /\ ToInt(Len(inputFile))' = ToInt(Len(inputFile))
    BY <1>1 DEF CKeyLen, ToInt
  <2>6. CBuffers'
    <3> HIDE DEF x
    <3>1. cenc' \in Buffer
      BY <1>2, <2>1, <2>2 DEF Buffer
    <3>2. ci' <= Len(inputFile)
      BY <1>1, <1>2, <2>1
    <3>3. CKeyLen' > 0
      BY <1>2, <1>4, <2>5
    <3> QED BY <1>1, <1>2, <2>1, <3>1, <3>2, <3>3 DEF CBuffers, FilesThere, Buffer, Writing
  <2>7. CKey'
    BY <1>1, <1>2, <2>1, <2>4 DEF CInv, CKey
  <2>8. XoredUpTo(cenc, CWritten("encrypt"), inputFile, CKeyLen)
    BY <1>2 DEF CInv, CContents
  <2>9. /\ CWritten("encrypt") = IF cpass = 0 THEN ci ELSE ToInt(Len(inputFile))
        /\ CWritten("encrypt")' = IF cpass = 0 THEN ci + 1 ELSE ToInt(Len(inputFile))
    BY <1>1, <2>1, <2>5 DEF CWritten
  <2>10. ASSUME NEW i \in 0 .. CWritten("encrypt")' - 1
         PROVE  cenc'[i + 1] = XorByte(inputFile, i, CKeyLen)
    <3>1. i \in Nat /\ i + 1 \in 1 .. Len(inputFile) /\ ci \in Nat
      BY <1>1, <1>2, <2>9
    <3>2. CASE i = ci
      BY <1>2, <2>1, <3>1, <3>2 DEF Buffer
    <3>3. CASE i # ci
      <4>1. i \in 0 .. CWritten("encrypt") - 1
        BY <1>2, <2>9, <3>1, <3>3
      <4>2. cenc'[i + 1] = cenc[i + 1]
        BY <1>2, <2>1, <3>1, <3>3 DEF Buffer
      <4> QED BY <2>8, <4>1, <4>2 DEF XoredUpTo
    <3> QED BY <3>2, <3>3
  <2>11. CContents'
    BY <1>1, <1>2, <2>1, <2>4, <2>5, <2>10 DEF CContents, XoredUpTo, XorByte
  <2> QED BY <2>3, <2>6, <2>7, <2>11 DEF CInv
<1> QED BY <1>3, <1>4

(* The key undoes itself: it is the same byte of it, as the first pass of  *)
(* the encryption wrote every byte that a decryption reads.                *)
LEMMA CDecryptByteInv ==
  ASSUME FileInv, CInv, CDecryptByte, UNCHANGED <<inputFile, keyFile>>
  PROVE  CInv'
<1> DEFINE x == XorByte(cenc, ci, CKeyLen)
<1>1. /\ cpc = "decrypt" /\ ci < ToInt(Len(inputFile))
      /\ cdec' = [cdec EXCEPT ![ci + 1] = x] /\ ci' = ci + 1
      /\ UNCHANGED <<cpc, cexit, keyLen, cpass, cenc, cok, cut>>
  BY DEF CDecryptByte, CMore
<1>2. /\ FilesThere /\ cexit = "running" /\ CHasBuffers
      /\ keyLen \in 1 .. Len(keyFile) /\ CKeyLen \in 0 .. keyLen
      /\ Len(keyFile) \in Nat /\ Len(inputFile) \in Nat
      /\ ToInt(Len(inputFile)) \in Int /\ ToInt(Len(inputFile)) <= Len(inputFile)
      /\ ci \in 0 .. Len(inputFile) /\ cpass \in 0 .. Passes-1
      /\ cenc \in Buffer /\ cdec \in Buffer /\ inputFile \in Buffer
  BY <1>1, CLoopFacts
<1>3. /\ CWritten("encrypt") = ToInt(Len(inputFile)) /\ CHasDecrypted
      /\ CWritten("decrypt") = IF cpass = 0 THEN ci ELSE ToInt(Len(inputFile))
  BY <1>1, <1>2 DEF CWritten, CHasDecrypted
<1>4. CKeyLen > 0 /\ CKeyLen \in 1 .. Len(keyFile)
  <2>1. CWritten("encrypt") > 0
    BY <1>1, <1>2, <1>3
  <2> QED BY <1>2, <2>1 DEF CInv, CBuffers
<1>5. x = inputFile[ci + 1] /\ x \in Byte
  <2>1. ci \in Nat /\ ci + 1 \in 1 .. Len(inputFile) /\ ci \in 0 .. CWritten("encrypt") - 1
    BY <1>1, <1>2, <1>3
  <2>2. cenc[ci + 1] = XorByte(inputFile, ci, CKeyLen)
    BY <1>2, <2>1 DEF CInv, CContents, XoredUpTo
  <2>3. inputFile[ci + 1] \in Byte
    BY <1>2, <2>1 DEF Buffer
  <2> QED BY <1>2, <1>4, <2>1, <2>2, <2>3, XorByteTwice
<1> HIDE DEF x
<1>6. CControl'
  BY <1>1, <1>2 DEF CInv, CControl
<1>7. /\ CHasBuffers' /\ CKeyLen' = CKeyLen
      /\ CWritten("encrypt")' = CWritten("encrypt")
      /\ CWritten("decrypt")' = IF cpass = 0 THEN ci + 1 ELSE ToInt(Len(inputFile))
  BY <1>1, <1>2 DEF CHasBuffers, CKeyLen, ToInt, CWritten
<1>8. CBuffers'
  <2>1. cdec' \in Buffer
    BY <1>1, <1>2, <1>5 DEF Buffer
  <2>2. ci' <= Len(inputFile)
    BY <1>1, <1>2
  <2> QED BY <1>1, <1>2, <1>4, <1>7, <2>1, <2>2 DEF CBuffers, FilesThere, Buffer, Writing
<1>9. CKey'
  BY <1>1, <1>2, <1>7 DEF CInv, CKey
<1>10. ASSUME NEW i \in 0 .. CWritten("decrypt")' - 1
       PROVE  cdec'[i + 1] = inputFile[i + 1]
  <2>1. i \in Nat /\ i + 1 \in 1 .. Len(inputFile) /\ ci \in Nat
    BY <1>1, <1>2, <1>7
  <2>2. CASE i = ci
    BY <1>1, <1>2, <1>5, <2>1, <2>2 DEF Buffer
  <2>3. CASE i # ci
    <3>1. i \in 0 .. CWritten("decrypt") - 1
      BY <1>2, <1>3, <1>7, <2>1, <2>3
    <3>2. cdec'[i + 1] = cdec[i + 1]
      BY <1>1, <1>2, <2>1, <2>3 DEF Buffer
    <3>3. cdec[i + 1] = inputFile[i + 1]
      BY <1>3, <3>1 DEF CInv, CContents, SameUpTo
    <3> QED BY <3>2, <3>3
  <2> QED BY <2>2, <2>3
<1>11. CContents'
  <2>1. XoredUpTo(cenc, CWritten("encrypt"), inputFile, CKeyLen)
    BY <1>2 DEF CInv, CContents
  <2> QED BY <1>1, <1>2, <1>7, <1>10, <2>1 DEF CContents, XoredUpTo, SameUpTo, XorByte
<1> QED BY <1>6, <1>8, <1>9, <1>11 DEF CInv

(* When a byte loop ends, its last pass has come as far as it can.         *)
LEMMA CPassInv ==
  ASSUME FileInv, CInv, CPass, UNCHANGED <<inputFile, keyFile>>
  PROVE  CInv'
<1>1. /\ cpc \in {"encrypt", "decrypt"} /\ ~CMore /\ ci' = 0
      /\ UNCHANGED <<cexit, keyLen, cenc, cdec, cok, cut>>
      /\ \/ cpass + 1 < Passes /\ cpass' = cpass + 1 /\ cpc' = cpc
         \/ cpc = "encrypt" /\ cpass' = 0 /\ cpc' = "open ciphertext"
         \/ cpc = "decrypt" /\ cpass' = 0 /\ cpc' = "open decrypted"
  BY DEF CPass
<1>2. /\ FilesThere /\ cexit = "running" /\ CHasBuffers
      /\ keyLen \in 1 .. Len(keyFile) /\ CKeyLen \in 0 .. keyLen
      /\ Len(keyFile) \in Nat /\ Len(inputFile) \in Nat
      /\ ToInt(Len(inputFile)) \in Int /\ ToInt(Len(inputFile)) <= Len(inputFile)
      /\ ci \in 0 .. Len(inputFile) /\ cpass \in 0 .. Passes-1
      /\ cenc \in Buffer /\ cdec \in Buffer /\ inputFile \in Buffer
  BY <1>1, CLoopFacts
<1>3. ToInt(Len(inputFile)) <= ci
  <2>1. ci \in Int /\ ToInt(Len(inputFile)) \in Int
    BY <1>2
  <2>2. ~(ci < ToInt(Len(inputFile)))
    BY <1>1 DEF CMore
  <2> QED BY <2>1, <2>2
<1>4. /\ cpass' \in 0 .. Passes-1 /\ cpass' \in Nat
      /\ cpc' = cpc => cpass' # 0
      /\ cpc' \in {"open ciphertext", "open decrypted"} => cpass' = 0
  <2>1. cpass \in 0 .. Passes-1
    BY <1>2
  <2>2. CASE cpass + 1 < Passes /\ cpass' = cpass + 1 /\ cpc' = cpc
    <3>1. cpc' \notin {"open ciphertext", "open decrypted"}
      BY <1>1, <2>2
    <3>2. cpass' \in 0 .. Passes-1 /\ cpass' \in Nat /\ cpass' # 0
      BY <2>1, <2>2
    <3> QED BY <3>1, <3>2
  <2>3. CASE cpass' = 0 /\ cpc' # cpc
    BY <2>3
  <2> QED BY <1>1, <2>2, <2>3
<1>5. /\ CHasBuffers' /\ CKeyLen' = CKeyLen /\ (CHasDecrypted' => CHasDecrypted)
      /\ ToInt(Len(inputFile))' = ToInt(Len(inputFile))
  BY <1>1, <1>2 DEF CHasBuffers, CHasDecrypted, CKeyLen, ToInt
<1>6. /\ CWritten("encrypt")' = ToInt(Len(inputFile))
      /\ CHasDecrypted => CWritten("decrypt")' = ToInt(Len(inputFile))
  BY <1>1, <1>4, <1>5 DEF CWritten, CHasDecrypted
<1>7. /\ CWritten("encrypt") \in Int /\ ToInt(Len(inputFile)) <= CWritten("encrypt")
      /\ CWritten("decrypt") \in Int /\ ToInt(Len(inputFile)) <= CWritten("decrypt")
      /\ ToInt(Len(inputFile)) \in Int
  <2>1. ToInt(Len(inputFile)) \in Int /\ ci \in Int
    BY <1>2
  <2> QED BY <1>3, <2>1 DEF CWritten
<1>10. CControl'
  <2>1. cpc' \in CpcStates /\ cpc' # "exit" /\ cpc' # "strip"
        /\ (cpc' \notin {"encrypt", "decrypt", "exit"} =>
              cpc' \in {"open ciphertext", "open decrypted"})
    BY <1>1 DEF CpcStates
  <2> QED BY <1>1, <1>2, <1>4, <2>1 DEF CInv, CControl
<1>11. CBuffers'
  <2>1. CWritten("encrypt")' > 0 => CKeyLen' > 0
    <3>1. CWritten("encrypt") > 0 => CKeyLen > 0
      BY <1>2 DEF CInv, CBuffers
    <3> QED BY <1>5, <1>6, <1>7, <3>1
  <2>2. FilesThere' /\ Buffer' = Buffer /\ Len(inputFile)' = Len(inputFile)
    BY <1>2 DEF FilesThere, Buffer
  <2>3. keyLen' \in 1 .. Len(keyFile)' /\ cenc' \in Buffer' /\ cdec' \in Buffer'
    BY <1>1, <1>2, <2>2
  <2>4. ci' <= Len(inputFile)'
    <3>1. Len(inputFile) \in Nat
      BY <1>2
    <3>2. ci' = 0 /\ Len(inputFile)' = Len(inputFile)
      BY <1>1
    <3> QED BY <3>1, <3>2
  <2>5. ~Writing(cpc')
    BY <1>1 DEF Writing
  <2> QED BY <2>1, <2>2, <2>3, <2>4, <2>5 DEF CBuffers
<1>12. CKey'
  BY <1>1, <1>2, <1>5 DEF CInv, CKey
<1>13. CContents'
  <2>1. ASSUME NEW i \in 0 .. ToInt(Len(inputFile)) - 1
        PROVE  cenc[i + 1] = XorByte(inputFile, i, CKeyLen)
    <3>1. i \in 0 .. CWritten("encrypt") - 1
      BY <1>7
    <3> QED BY <1>2, <3>1 DEF CInv, CContents, XoredUpTo
  <2>2. ASSUME CHasDecrypted, NEW i \in 0 .. ToInt(Len(inputFile)) - 1
        PROVE  cdec[i + 1] = inputFile[i + 1]
    <3>1. i \in 0 .. CWritten("decrypt") - 1
      BY <1>7
    <3> QED BY <2>2, <3>1 DEF CInv, CContents, SameUpTo
  <2> QED BY <1>1, <1>2, <1>5, <1>6, <2>1, <2>2 DEF CContents, XoredUpTo, SameUpTo, XorByte
<1> QED BY <1>10, <1>11, <1>12, <1>13 DEF CInv

(* Between the loops only the place in the program changes.                *)
LEMMA COpenInv ==
  ASSUME FileInv, CInv, COpen, UNCHANGED <<inputFile, keyFile>>
  PROVE  CInv'
<1>1. UNCHANGED <<cexit, keyLen, ci, cpass, cenc, cdec, cok, cut>> /\ cpos' = 0
      /\ \/ cpc = "open ciphertext" /\ cpc' = "write ciphertext"
         \/ cpc = "open decrypted" /\ cpc' = "write decrypted"
  BY DEF COpen
<1>2. CControl'
  BY <1>1 DEF CInv, CControl, CpcStates
<1>3. CHasBuffers' = CHasBuffers /\ CHasDecrypted' = CHasDecrypted /\ CKeyLen' = CKeyLen
      /\ CWritten("encrypt")' = CWritten("encrypt")
      /\ CWritten("decrypt")' = CWritten("decrypt")
  BY <1>1 DEF CHasBuffers, CHasDecrypted, CKeyLen, ToInt, CWritten
<1>4. CHasBuffers => cpos' \in 0 .. Len(inputFile)
  <2>1. CHasBuffers => Len(inputFile) \in Nat
    BY FilesAreBytes DEF CInv, CBuffers
  <2>2. CHasBuffers => 0 \in 0 .. Len(inputFile)
    BY <2>1
  <2>3. cpos' = 0
    BY <1>1
  <2> QED BY ONLY <2>2, <2>3
<1>5. CBuffers'
  BY <1>1, <1>3, <1>4 DEF CInv, CBuffers, FilesThere, Buffer
<1> QED BY <1>1, <1>2, <1>3, <1>5 DEF CInv, CKey, CContents, XoredUpTo, SameUpTo, XorByte

LEMMA COpenFailsInv ==
  ASSUME CInv, COpenFails
  PROVE  CInv'
BY DEF COpenFails, CExit, CInv, CControl, CBuffers, CKey, CContents, CHasBuffers,
       CHasDecrypted, CpcStates

LEMMA CWriteInv ==
  ASSUME FileInv, CInv, CWrite, UNCHANGED <<inputFile, keyFile>>
  PROVE  CInv'
<1>1. UNCHANGED <<cpc, cexit, keyLen, ci, cpass, cenc, cdec, cok, cut>>
      /\ \/ cpos' \in cpos + 1 .. Len(cenc) \/ cpos' \in cpos + 1 .. Len(cdec)
      /\ Writing(cpc)
  BY DEF CWrite, Writing
<1>2. CControl'
  BY <1>1 DEF CInv, CControl, FilesThere
<1>3. /\ CHasBuffers /\ CHasBuffers' = CHasBuffers /\ CHasDecrypted' = CHasDecrypted
      /\ CKeyLen' = CKeyLen
      /\ CWritten("encrypt")' = CWritten("encrypt")
      /\ CWritten("decrypt")' = CWritten("decrypt")
  BY <1>1 DEF CInv, CControl, Writing, CHasBuffers, CHasDecrypted, CKeyLen, ToInt, CWritten
<1>4. cpos' \in 0 .. Len(inputFile)
  <2>1. /\ Len(inputFile) \in Nat /\ cenc \in Buffer /\ cdec \in Buffer
        /\ cpos \in 0 .. Len(inputFile)
    BY <1>1, <1>3, FilesAreBytes DEF CInv, CBuffers
  <2>2. Len(cenc) = Len(inputFile) /\ Len(cdec) = Len(inputFile)
    BY <2>1, BufferIsBytes DEF Buffer
  <2>3. cpos' \in cpos + 1 .. Len(inputFile)
    BY <1>1, <2>2
  <2> QED BY <2>1, <2>3
<1>5. CBuffers'
  BY <1>1, <1>3, <1>4 DEF CInv, CBuffers, FilesThere, Buffer
<1> QED BY <1>1, <1>2, <1>3, <1>5 DEF CInv, CKey, CContents, XoredUpTo, SameUpTo, XorByte

LEMMA CCloseCiphertextInv ==
  ASSUME FileInv, CInv, CCloseCiphertext, UNCHANGED <<inputFile, keyFile>>
  PROVE  CInv'
<1>1. UNCHANGED <<cexit, keyLen, ci, cpass, cenc, cdec, cok>>
      /\ cpc = "write ciphertext" /\ cpc' = "decrypt" /\ cut' \in BOOLEAN
  BY DEF CCloseCiphertext, CInv, CControl
<1>2. CControl'
  BY <1>1 DEF CInv, CControl, CpcStates
<1>3. /\ CHasBuffers /\ CHasBuffers' /\ CKeyLen' = CKeyLen /\ ci = 0 /\ cpass = 0
      /\ CWritten("encrypt")' = CWritten("encrypt")
      /\ CWritten("decrypt")' = 0
      /\ cexit = "running"
  BY <1>1 DEF CInv, CControl, CHasBuffers, CKeyLen, ToInt, CWritten
<1>4. CBuffers'
  <2>1. /\ FilesThere /\ keyLen \in 1 .. Len(keyFile)
        /\ cenc \in Buffer /\ cdec \in Buffer
        /\ CWritten("encrypt") > 0 => CKeyLen > 0
    BY <1>3 DEF CInv, CBuffers
  <2>2. 0 <= Len(inputFile)
    BY <2>1, FilesAreBytes
  <2>3. FilesThere' /\ Buffer' = Buffer
    BY <2>1 DEF FilesThere, Buffer
  <2>4. CWritten("encrypt")' > 0 => CKeyLen' > 0
    BY <1>3, <2>1
  <2> QED BY <1>1, <1>3, <2>1, <2>2, <2>3, <2>4 DEF CBuffers, Writing
<1>5. CKey'
  BY <1>1, <1>3 DEF CInv, CKey
<1>6. CContents'
  <2>1. XoredUpTo(cenc, CWritten("encrypt"), inputFile, CKeyLen)
    BY <1>3 DEF CInv, CContents
  <2>2. SameUpTo(cdec, CWritten("decrypt"), inputFile)'
    BY <1>3 DEF SameUpTo
  <2> QED BY <1>1, <1>3, <2>1, <2>2 DEF CContents, XoredUpTo, XorByte
<1> QED BY <1>2, <1>4, <1>5, <1>6 DEF CInv

LEMMA CCloseDecryptedInv ==
  ASSUME CInv, CCloseDecrypted, UNCHANGED <<inputFile, keyFile>>
  PROVE  CInv'
<1>1. UNCHANGED <<keyLen, ci, cpass, cenc, cdec>> /\ cok' = (cdec = inputFile)
      /\ cpc = "write decrypted" /\ cpc' = "exit" /\ cexit' = "0" /\ cut' \in BOOLEAN
  BY DEF CCloseDecrypted, CExit, CInv, CControl
<1>2. CControl'
  BY <1>1 DEF CInv, CControl, CpcStates
<1>3. /\ CHasBuffers /\ CHasBuffers' /\ CKeyLen' = CKeyLen
      /\ CHasDecrypted /\ CHasDecrypted'
      /\ CWritten("encrypt")' = CWritten("encrypt")
      /\ CWritten("decrypt")' = CWritten("decrypt")
  BY <1>1 DEF CInv, CControl, CHasBuffers, CHasDecrypted, CKeyLen, ToInt, CWritten
<1> QED BY <1>1, <1>2, <1>3
        DEF CInv, CBuffers, CKey, CContents, FilesThere, Buffer, XoredUpTo, SameUpTo, XorByte,
            Writing

LEMMA CNextInv ==
  ASSUME FileInv, CInv, CNext
  PROVE  CInv'
<1>1. UNCHANGED <<inputFile, keyFile>>
  BY DEF CNext
<1> QED BY <1>1, CReadFailsInv, CReadInv, CStripInv, CEncryptByteInv, CDecryptByteInv, CPassInv,
           COpenInv, COpenFailsInv, CWriteInv, CCloseCiphertextInv, CCloseDecryptedInv
        DEF CNext

-----------------------------------------------------------------------------
(* The steps of the OCaml program.                                         *)
LEMMA ORaisesInv ==
  ASSUME OInv, ORaises
  PROVE  OInv'
BY DEF ORaises, OExit, OInv, OControl, OContents, OEncrypted, ODecrypted, CpcStates, Writing

LEMMA CreateBuffer ==
  ASSUME NEW n \in Nat, Create(n)
  PROVE  output' \in [1 .. n -> Byte]
BY EolAssumption DEF Create, Fresh

LEMMA OReadInv ==
  ASSUME FileInv, OInv, ORead, UNCHANGED <<inputFile, keyFile>>
  PROVE  OInv'
<1>1. /\ opc = "read" /\ opc' = "encrypt" /\ FilesThere /\ FilesThere'
      /\ UNCHANGED <<oexit, oi, opass, oenc, odec, ook>>
      /\ Create(Len(inputFile))
  BY DEF ORead, FilesThere
<1>2. oexit = "running" /\ oi = 0 /\ opass = 0
  BY <1>1 DEF OInv, OControl
<1>3. Len(inputFile) \in Nat
  BY <1>1, FilesAreBytes
<1>4. output' \in Buffer' /\ oi' \in 0 .. Len(inputFile)'
  BY <1>1, <1>2, <1>3, CreateBuffer DEF Buffer
<1>5. OControl'
  BY <1>1, <1>2, <1>4 DEF OInv, OControl, CpcStates, Writing
<1>6. OContents'
  BY <1>1, <1>2 DEF OContents, OEncrypted, ODecrypted, XoredUpTo
<1> QED BY <1>5, <1>6 DEF OInv

(* What every step of the byte loops finds.                                *)
LEMMA OLoopFacts ==
  ASSUME FileInv, OInv, opc \in {"encrypt", "decrypt"}
  PROVE  /\ FilesThere /\ oexit = "running"
         /\ Len(keyFile) \in Nat /\ Len(inputFile) \in Nat
         /\ inputFile \in Buffer /\ output \in Buffer
         /\ output \in Seq(Byte) /\ Len(output) = Len(inputFile)
         /\ oi \in 0 .. Len(inputFile) /\ opass \in 0 .. Passes-1
         /\ opc = "decrypt" =>
              /\ oenc \in Buffer
              /\ XoredUpTo(oenc, Len(inputFile), inputFile, Len(keyFile))
<1>1. /\ FilesThere /\ oexit = "running"
      /\ output \in Buffer /\ oi \in 0 .. Len(inputFile) /\ opass \in 0 .. Passes-1
  BY DEF OInv, OControl
<1>2. Len(keyFile) \in Nat /\ Len(inputFile) \in Nat /\ inputFile \in Buffer
  BY <1>1, FilesAreBytes DEF Buffer
<1>3. output \in Seq(Byte) /\ Len(output) = Len(inputFile)
  BY <1>1, <1>2, BufferIsBytes DEF Buffer
<1>4. opc = "decrypt" => /\ oenc \in Buffer
                         /\ XoredUpTo(oenc, Len(inputFile), inputFile, Len(keyFile))
  BY DEF OInv, OContents, OEncrypted
<1> QED BY <1>1, <1>2, <1>3, <1>4

LEMMA OByteInv ==
  ASSUME FileInv, OInv, OByte, UNCHANGED <<inputFile, keyFile>>
  PROVE  OInv'
<1> DEFINE from == IF opc = "encrypt" THEN inputFile ELSE oenc
           x == XorByte(from, oi, Len(keyFile))
<1>1. /\ opc \in {"encrypt", "decrypt"} /\ keyFile # <<>> /\ oi < Len(output)
      /\ output' = [output EXCEPT ![oi + 1] = x] /\ oi' = oi + 1
      /\ UNCHANGED <<opc, oexit, opass, oenc, odec, ook>>
  BY DEF OByte
<1>2. /\ FilesThere /\ oexit = "running"
      /\ Len(keyFile) \in Nat /\ Len(inputFile) \in Nat
      /\ inputFile \in Buffer /\ output \in Buffer /\ Len(output) = Len(inputFile)
      /\ oi \in 0 .. Len(inputFile)
      /\ opc = "decrypt" =>
           /\ oenc \in Buffer
           /\ XoredUpTo(oenc, Len(inputFile), inputFile, Len(keyFile))
  BY <1>1, OLoopFacts
<1>3. Len(keyFile) \in 1 .. Len(keyFile)
  <2>1. keyFile \in Seq(Byte)
    BY <1>2, FilesAreBytes
  <2> QED BY <1>1, <2>1, EmptySeq
<1>4. oi \in Nat /\ oi + 1 \in 1 .. Len(inputFile)
  BY <1>1, <1>2
<1>5. inputFile[oi + 1] \in Byte
  BY <1>2, <1>4 DEF Buffer
<1>6. opc = "encrypt" => x = XorByte(inputFile, oi, Len(keyFile)) /\ x \in Byte
  <2>1. [inputFile EXCEPT ![oi + 1] = XorByte(inputFile, oi, Len(keyFile))][oi + 1] =
          XorByte(inputFile, oi, Len(keyFile))
    BY <1>2, <1>4 DEF Buffer
  <2>2. XorByte(inputFile, oi, Len(keyFile)) \in Byte
    BY <1>2, <1>3, <1>4, <1>5, <2>1, XorByteTwice
  <2> QED BY <2>2
<1>7. opc = "decrypt" => x = inputFile[oi + 1] /\ x \in Byte
  <2>1. opc = "decrypt" => oenc[oi + 1] = XorByte(inputFile, oi, Len(keyFile))
    <3>1. oi \in 0 .. Len(inputFile) - 1
      BY <1>2, <1>4
    <3> QED BY <1>2, <3>1 DEF XoredUpTo
  <2>2. opc = "decrypt" => XorByte(oenc, oi, Len(keyFile)) = inputFile[oi + 1]
    BY <1>2, <1>3, <1>4, <1>5, <2>1, XorByteTwice
  <2> QED BY <1>5, <2>2
<1> HIDE DEF x
<1>8. OControl'
  <2>1. x \in Byte
    BY <1>1, <1>6, <1>7
  <2>2. output' \in Buffer'
    BY <1>1, <1>2, <2>1 DEF Buffer
  <2>3. oi' \in 0 .. Len(inputFile)'
    BY <1>1, <1>2, <1>4
  <2>4. opc \in CpcStates \ {"strip"} /\ opc # "read" /\ opc # "exit" /\ ook \in BOOLEAN
        /\ opass \in 0 .. Passes-1
    BY <1>1 DEF OInv, OControl
  <2> QED BY <1>1, <1>2, <2>2, <2>3, <2>4 DEF OControl, FilesThere, Writing
<1>9. ASSUME NEW i \in 0 .. oi' - 1
      PROVE  output'[i + 1] = IF i = oi THEN x ELSE output[i + 1]
  <2>1. i \in Nat /\ i + 1 \in 1 .. Len(inputFile)
    BY <1>1, <1>2, <1>4
  <2> QED BY <1>1, <1>2, <1>4, <2>1 DEF Buffer
<1>10. \A i \in 0 .. oi' - 1 : i # oi => i \in 0 .. oi - 1
  BY <1>1, <1>4
<1>11. opc' = "encrypt" => XoredUpTo(output, oi, inputFile, Len(keyFile))'
  <2>1. opc = "encrypt" => XoredUpTo(output, oi, inputFile, Len(keyFile))
    BY DEF OInv, OContents
  <2> QED BY <1>1, <1>6, <1>9, <1>10, <2>1 DEF XoredUpTo, XorByte
<1>12. opc' = "decrypt" => SameUpTo(output, oi, inputFile)'
  <2>1. opc = "decrypt" => SameUpTo(output, oi, inputFile)
    BY DEF OInv, OContents
  <2> QED BY <1>1, <1>7, <1>9, <1>10, <2>1 DEF SameUpTo
<1>13. OContents'
  BY <1>1, <1>11, <1>12 DEF OInv, OContents, OEncrypted, ODecrypted, Buffer, XoredUpTo, XorByte
<1> QED BY <1>8, <1>13 DEF OInv

(* A pass that is through has made the whole ciphertext, or the message.   *)
LEMMA OPassInv ==
  ASSUME FileInv, OInv, OPass, UNCHANGED <<inputFile, keyFile>>
  PROVE  OInv'
<1>1. /\ opc \in {"encrypt", "decrypt"} /\ oi = Len(output) /\ oi' = 0
      /\ IF opc = "encrypt" THEN oenc' = output /\ UNCHANGED odec
                            ELSE odec' = output /\ UNCHANGED oenc
      /\ Create(Len(inputFile)) /\ UNCHANGED <<oexit, ook>>
      /\ \/ opass + 1 < Passes /\ opass' = opass + 1 /\ opc' = opc
         \/ opass' = 0 /\ opc = "encrypt" /\ opc' = "open ciphertext"
         \/ opass' = 0 /\ opc = "decrypt" /\ opc' = "open decrypted"
  BY DEF OPass
<1>2. /\ FilesThere /\ oexit = "running"
      /\ Len(keyFile) \in Nat /\ Len(inputFile) \in Nat
      /\ inputFile \in Buffer /\ output \in Buffer /\ Len(output) = Len(inputFile)
      /\ opass \in 0 .. Passes-1
      /\ opc = "decrypt" =>
           /\ oenc \in Buffer
           /\ XoredUpTo(oenc, Len(inputFile), inputFile, Len(keyFile))
  BY <1>1, OLoopFacts
<1>3. oi = Len(inputFile)
  BY <1>1, <1>2
<1>4. opc = "encrypt" => XoredUpTo(output, Len(inputFile), inputFile, Len(keyFile))
  BY <1>3 DEF OInv, OContents
<1>5. opc = "decrypt" => output = inputFile
  <2>1. ASSUME opc = "decrypt", NEW p \in 1 .. Len(inputFile)
        PROVE  output[p] = inputFile[p]
    <3>1. p - 1 \in 0 .. Len(inputFile) - 1 /\ (p - 1) + 1 = p
      BY <1>2
    <3>2. SameUpTo(output, Len(inputFile), inputFile)
      BY <1>3, <2>1 DEF OInv, OContents
    <3>3. output[(p - 1) + 1] = inputFile[(p - 1) + 1]
      BY <3>1, <3>2 DEF SameUpTo
    <3> QED BY <3>1, <3>3
  <2>2. opc = "decrypt" => \A p \in 1 .. Len(inputFile) : output[p] = inputFile[p]
    BY <2>1
  <2> QED BY <1>2, <2>2 DEF Buffer
<1>6. /\ oenc' \in Buffer
      /\ XoredUpTo(oenc', Len(inputFile), inputFile, Len(keyFile))
  BY <1>1, <1>2, <1>4
<1>7. opass' \in 0 .. Passes-1
  <2>1. CASE opass + 1 < Passes /\ opass' = opass + 1
    <3>1. opass \in 0 .. Passes-1
      BY <1>2
    <3> QED BY <2>1, <3>1
  <2>2. CASE opass' = 0
    BY <2>2
  <2> QED BY <1>1, <2>1, <2>2
<1>8. output' \in Buffer' /\ oi' \in 0 .. Len(inputFile)'
  <2>1. output' \in Buffer
    BY <1>1, <1>2, CreateBuffer DEF Buffer
  <2>2. oi' = 0 /\ Len(inputFile)' = Len(inputFile) /\ Len(inputFile) \in Nat
    BY <1>1, <1>2
  <2> QED BY <2>1, <2>2 DEF Buffer
<1>9. OControl'
  <2>1. /\ opc' \in CpcStates \ {"strip"} /\ opc' # "exit"
        /\ opc' \notin {"encrypt", "decrypt", "exit"} => oi' = 0 /\ opass' = 0
    BY <1>1 DEF CpcStates
  <2>2. FilesThere' /\ oexit' = "running" /\ ook' \in BOOLEAN
    BY <1>1, <1>2 DEF OInv, OControl, FilesThere
  <2>3. ~Writing(opc')
    BY <1>1 DEF Writing
  <2> QED BY <1>7, <1>8, <2>1, <2>2, <2>3 DEF OControl
<1>10. OContents'
  <2>1. opc' = "encrypt" => XoredUpTo(output, oi, inputFile, Len(keyFile))'
    BY <1>1 DEF XoredUpTo
  <2>2. opc' = "decrypt" => SameUpTo(output, oi, inputFile)'
    BY <1>1 DEF SameUpTo
  <2>3. /\ oenc' \in Buffer'
        /\ XoredUpTo(oenc, Len(inputFile), inputFile, Len(keyFile))'
    BY <1>6 DEF Buffer, XoredUpTo, XorByte
  <2>4. ODecrypted' => odec' = inputFile'
    <3>1. ODecrypted' => opc = "decrypt"
      <4>1. opc' = "decrypt" => opc = "decrypt"
        BY <1>1
      <4> QED BY <1>1, <1>2, <4>1 DEF ODecrypted
    <3> QED BY <1>1, <1>5, <3>1
  <2>5. oexit' # "0"
    BY <1>1, <1>2
  <2>6. ~(oi' > 0)
    <3>1. oi' = 0
      BY <1>1
    <3> QED BY ONLY <3>1
  <2>7. keyFile' = <<>> => inputFile' = <<>>
    <3>1. ASSUME opc = "encrypt", keyFile = <<>> PROVE inputFile = <<>>
      <4>1. ~(oi > 0)
        BY <3>1 DEF OInv, OContents
      <4>2. Len(inputFile) = 0
        BY ONLY <1>2, <1>3, <4>1
      <4>3. inputFile \in Seq(Byte)
        BY <1>2, FilesAreBytes
      <4> QED BY <4>2, <4>3, EmptySeq
    <3>2. opc = "decrypt" /\ keyFile = <<>> => inputFile = <<>>
      BY DEF OInv, OContents, OEncrypted
    <3> QED BY <1>1, <3>1, <3>2
  <2> QED BY <2>1, <2>2, <2>3, <2>4, <2>5, <2>6, <2>7 DEF OContents
<1> QED BY <1>9, <1>10 DEF OInv

LEMMA OOpenInv ==
  ASSUME FileInv, OInv, OOpen, UNCHANGED <<inputFile, keyFile>>
  PROVE  OInv'
<1>1. /\ UNCHANGED <<oexit, oi, opass, output, oenc, odec, ook>> /\ opos' = 0
      /\ \/ opc = "open ciphertext" /\ opc' = "write ciphertext"
         \/ opc = "open decrypted" /\ opc' = "write decrypted"
  BY DEF OOpen
<1>2. opos' \in 0 .. Len(inputFile)
  <2>1. FilesThere
    BY <1>1 DEF OInv, OControl
  <2>2. Len(inputFile) \in Nat
    BY <2>1, FilesAreBytes
  <2>3. 0 \in 0 .. Len(inputFile)
    BY ONLY <2>2
  <2>4. opos' = 0
    BY <1>1
  <2> QED BY ONLY <2>3, <2>4
<1>3. OControl'
  BY <1>1, <1>2 DEF OInv, OControl, CpcStates, FilesThere, Buffer
<1>4. OContents'
  BY <1>1 DEF OInv, OContents, OEncrypted, ODecrypted, Buffer, XoredUpTo, SameUpTo, XorByte
<1> QED BY <1>3, <1>4 DEF OInv

LEMMA OWriteInv ==
  ASSUME FileInv, OInv, OWrite, UNCHANGED <<inputFile, keyFile>>
  PROVE  OInv'
<1>1. /\ UNCHANGED <<opc, oexit, oi, opass, output, oenc, odec, ook>> /\ Writing(opc)
      /\ \/ opc = "write ciphertext" /\ opos' \in opos + 1 .. Len(oenc)
         \/ opc = "write decrypted" /\ opos' \in opos + 1 .. Len(odec)
  BY DEF OWrite, Encrypted, Writing
<1>2. opos' \in 0 .. Len(inputFile)
  <2>1. FilesThere /\ opos \in 0 .. Len(inputFile)
    BY <1>1 DEF OInv, OControl, Writing
  <2>2. oenc \in Buffer /\ (opc = "write decrypted" => odec = inputFile)
    BY <1>1 DEF OInv, OContents, OEncrypted, ODecrypted, Writing
  <2>3. Len(inputFile) \in Nat /\ Len(oenc) = Len(inputFile)
    BY <2>1, <2>2, FilesAreBytes, BufferIsBytes DEF Buffer
  <2>4. opos' \in opos + 1 .. Len(inputFile)
    BY <1>1, <2>2, <2>3
  <2> QED BY <2>1, <2>3, <2>4
<1>3. OControl'
  BY <1>1, <1>2 DEF OInv, OControl, FilesThere, Buffer
<1>4. OContents'
  BY <1>1 DEF OInv, OContents, OEncrypted, ODecrypted, Buffer, XoredUpTo, SameUpTo, XorByte
<1> QED BY <1>3, <1>4 DEF OInv

LEMMA OCloseInv ==
  ASSUME FileInv, OInv, OClose, UNCHANGED <<inputFile, keyFile>>
  PROVE  OInv'
<1>1. UNCHANGED <<oi, opass, output, oenc, odec, opos>>
      /\ \/ opc = "write ciphertext" /\ opc' = "decrypt" /\ UNCHANGED <<oexit, ook>>
         \/ /\ opc = "write decrypted" /\ opc' = "exit" /\ oexit' = "0"
            /\ ook' = (odec = inputFile)
  BY DEF OClose, OExit
<1>2. OControl'
  BY <1>1 DEF OInv, OControl, CpcStates, FilesThere, Buffer, Writing
<1>3. oexit = "running" /\ oi = 0 /\ opass = 0
  BY <1>1 DEF OInv, OControl
<1>4. /\ oenc \in Buffer
      /\ XoredUpTo(oenc, Len(inputFile), inputFile, Len(keyFile))
      /\ keyFile = <<>> => inputFile = <<>>
      /\ opc = "write decrypted" => odec = inputFile
  BY <1>1 DEF OInv, OContents, OEncrypted, ODecrypted
<1>5. /\ oenc' \in Buffer'
      /\ XoredUpTo(oenc, Len(inputFile), inputFile, Len(keyFile))'
      /\ keyFile' = <<>> => inputFile' = <<>>
  BY <1>1, <1>4 DEF Buffer, XoredUpTo, XorByte
<1>6. SameUpTo(output, oi, inputFile)'
  <2>1. oi' = 0
    BY <1>1, <1>3
  <2> QED BY <2>1 DEF SameUpTo
<1>7. opass' = 0 /\ opc' # "encrypt"
  BY <1>1, <1>3
<1>8. /\ ODecrypted' => odec' = inputFile'
      /\ oexit' = "0" => ook'
  <2>1. ~(opass' > 0)
    BY ONLY <1>7
  <2>2. ODecrypted' => opc = "write decrypted"
    BY <1>1, <1>3, <2>1 DEF ODecrypted
  <2> QED BY <1>1, <1>3, <1>4, <2>2
<1>9. OContents'
  BY <1>5, <1>6, <1>7, <1>8 DEF OContents
<1> QED BY <1>2, <1>9 DEF OInv

LEMMA ONextInv ==
  ASSUME FileInv, OInv, ONext
  PROVE  OInv'
<1>1. UNCHANGED <<inputFile, keyFile>>
  BY DEF ONext
<1> QED BY <1>1, ORaisesInv, OReadInv, OByteInv, OPassInv, OOpenInv, OWriteInv, OCloseInv
        DEF ONext

-----------------------------------------------------------------------------
(* The output files.  What the programs write is the same text, if the     *)
(* lengths fit an int and the key file does not end with an end of line.   *)
LEMMA WholeKey ==
  ASSUME FileInv, CInv, CHasBuffers, Fits
  PROVE  /\ FilesThere /\ CKeyLen = keyLen
         /\ ToInt(Len(inputFile)) = Len(inputFile)
         /\ PlainKey => keyLen = Len(keyFile)
<1>1. FilesThere /\ keyLen \in 1 .. Len(keyFile)
  BY DEF CInv, CBuffers
<1>2. Len(keyFile) \in Nat /\ Len(inputFile) \in Nat
  BY <1>1, FilesAreBytes
<1>3. ToInt(Len(inputFile)) = Len(inputFile)
  BY <1>2, ToIntBounds DEF Fits
<1>4. keyLen \in Nat /\ keyLen <= IntMax /\ keyLen > 0
  BY <1>1, <1>2 DEF Fits
<1>5. ToInt(keyLen) = keyLen
  BY <1>4, ToIntBounds
<1>6. CKeyLen = keyLen
  BY <1>4, <1>5 DEF CKeyLen
<1>7. PlainKey => keyLen = Len(keyFile)
  <2>1. \A n \in keyLen + 1 .. Len(keyFile) : keyFile[n] \in Eol
    BY DEF CInv, CKey
  <2>2. keyLen # Len(keyFile) => Len(keyFile) \in keyLen + 1 .. Len(keyFile)
    BY <1>1, <1>2
  <2> QED BY <2>1, <2>2 DEF PlainKey
<1> QED BY <1>1, <1>3, <1>6, <1>7

LEMMA CiphertextIsBytes ==
  ASSUME FileInv, FilesThere, PlainKey
  PROVE  Ciphertext \in Buffer /\ Ciphertext \in Seq(Byte) /\ Len(Ciphertext) = Len(inputFile)
<1>1. /\ Len(inputFile) \in Nat /\ inputFile \in Buffer
      /\ keyFile \in Seq(Byte) /\ Len(keyFile) \in Nat
  BY FilesAreBytes DEF Buffer
<1>2. Len(keyFile) \in 1 .. Len(keyFile)
  BY <1>1, EmptySeq DEF PlainKey
<1>3. ASSUME NEW p \in 1 .. Len(inputFile)
      PROVE  XorByte(inputFile, p-1, Len(keyFile)) \in Byte
  <2> DEFINE i == p - 1
             x == XorByte(inputFile, i, Len(keyFile))
  <2>1. i \in Nat /\ i + 1 = p
    BY <1>1
  <2> HIDE DEF i
  <2>2. inputFile[i + 1] \in Byte
    BY <1>1, <2>1 DEF Buffer
  <2>3. [inputFile EXCEPT ![i + 1] = x][i + 1] = x
    BY <1>1, <2>1 DEF Buffer
  <2>4. x \in Byte
    BY <1>2, <2>1, <2>2, <2>3, XorByteTwice
  <2> QED BY <2>4 DEF i
<1>4. Ciphertext \in Buffer
  BY <1>3 DEF Ciphertext, Buffer
<1> QED BY <1>1, <1>4, BufferIsBytes DEF Buffer

(* Bytes that are xored as far as the message goes are the ciphertext.     *)
LEMMA XoredIsCiphertext ==
  ASSUME FileInv, FilesThere, NEW out \in Buffer,
         XoredUpTo(out, Len(inputFile), inputFile, Len(keyFile))
  PROVE  out = Ciphertext
<1>1. Len(inputFile) \in Nat
  BY FilesAreBytes
<1>2. ASSUME NEW p \in 1 .. Len(inputFile)
      PROVE  out[p] = XorByte(inputFile, p-1, Len(keyFile))
  <2>1. p - 1 \in 0 .. Len(inputFile) - 1 /\ (p - 1) + 1 = p
    BY <1>1
  <2>2. out[(p - 1) + 1] = XorByte(inputFile, p-1, Len(keyFile))
    BY <2>1 DEF XoredUpTo
  <2> QED BY <2>1, <2>2
<1> QED BY <1>2 DEF Ciphertext, Buffer

LEMMA CTexts ==
  ASSUME FileInv, CInv, CHasBuffers, Fits
  PROVE  /\ PlainKey /\ CWritten("encrypt") = ToInt(Len(inputFile)) => cenc = Ciphertext
         /\ CHasDecrypted /\ CWritten("decrypt") = ToInt(Len(inputFile)) => cdec = inputFile
<1>1. /\ FilesThere /\ CKeyLen = keyLen
      /\ ToInt(Len(inputFile)) = Len(inputFile)
      /\ PlainKey => keyLen = Len(keyFile)
  BY WholeKey
<1>2. /\ cenc \in Buffer /\ cdec \in Buffer
      /\ XoredUpTo(cenc, CWritten("encrypt"), inputFile, CKeyLen)
      /\ CHasDecrypted => SameUpTo(cdec, CWritten("decrypt"), inputFile)
  BY DEF CInv, CBuffers, CContents
<1>3. PlainKey /\ CWritten("encrypt") = ToInt(Len(inputFile)) => cenc = Ciphertext
  BY <1>1, <1>2, XoredIsCiphertext
<1>4. ASSUME CHasDecrypted, CWritten("decrypt") = ToInt(Len(inputFile))
      PROVE  cdec = inputFile
  <2>1. Len(inputFile) \in Nat /\ inputFile \in Buffer
    BY <1>1, FilesAreBytes DEF Buffer
  <2>2. SameUpTo(cdec, Len(inputFile), inputFile)
    BY <1>1, <1>2, <1>4
  <2>3. ASSUME NEW p \in 1 .. Len(inputFile)
        PROVE  cdec[p] = inputFile[p]
    <3>1. p - 1 \in 0 .. Len(inputFile) - 1 /\ (p - 1) + 1 = p
      BY <2>1
    <3>2. cdec[(p - 1) + 1] = inputFile[(p - 1) + 1]
      BY <2>2, <3>1 DEF SameUpTo
    <3> QED BY <3>1, <3>2
  <2> QED BY <1>2, <2>1, <2>3 DEF Buffer
<1> QED BY <1>3, <1>4

(* Where the two programs may be is a place of the text.                   *)
LEMMA EndsAreThere ==
  ASSUME FileInv, FilesThere, NEW writes, NEW pos, NEW wrote,
         writes => pos \in 0 .. Len(inputFile)
  PROVE  /\ Ends(writes, pos, wrote) \subseteq 0 .. Len(inputFile)
         /\ \E e \in 0 .. Len(inputFile) : e \in Ends(writes, pos, wrote)
<1>1. Len(inputFile) \in 0 .. Len(inputFile) /\ 0 \in 0 .. Len(inputFile)
  <2>1. Len(inputFile) \in Nat
    BY FilesAreBytes
  <2> QED BY <2>1
<1> HIDE DEF FileInv, FilesThere
<1> QED BY <1>1 DEF Ends

LEMMA COffset ==
  ASSUME CInv, Writing(cpc)
  PROVE  CHasBuffers /\ FilesThere /\ cpos \in 0 .. Len(inputFile)
BY DEF CInv, CControl, CBuffers, CHasBuffers, Writing

LEMMA OOffset ==
  ASSUME OInv, Writing(opc)
  PROVE  FilesThere /\ opos \in 0 .. Len(inputFile)
BY DEF OInv, OControl, Writing

(* Emptying the two files, and writing to them.                            *)
LEMMA EmptyFile == <<>> \in Seq(Byte) /\ <<>> # Missing
BY EmptySeq, FilesAssumption

LEMMA CFilesInv ==
  ASSUME IInv, CNext, UNCHANGED ovars
  PROVE  CiphertextInv' /\ DecryptedInv'
<1>1. UNCHANGED <<inputFile, keyFile, opc, oexit, opos>> /\ FileInv /\ CInv /\ OInv
      /\ CiphertextInv /\ DecryptedInv
  BY DEF CNext, ovars, IInv
<1>2. OCiphertextEnds' = OCiphertextEnds /\ ODecryptedEnds' = ODecryptedEnds
  BY <1>1 DEF OCiphertextEnds, ODecryptedEnds, OAfterCiphertext, Ends
<1>3. FilesThere' = FilesThere /\ Fits' = Fits /\ PlainKey' = PlainKey
      /\ Ciphertext' = Ciphertext
  BY <1>1 DEF FilesThere, Fits, PlainKey, Ciphertext, XorByte
<1>4. CASE CReadFails \/ CRead \/ CStrip \/ CEncryptByte \/ CDecryptByte \/ CPass \/ COpenFails
  <2>1. /\ UNCHANGED <<ciphertextFile, decryptedFile, cut>>
        /\ ~Writing(cpc) /\ ~Writing(cpc') /\ cexit # "0" /\ cexit' # "0"
        /\ cpc' \in {"decrypt", "open decrypted"} => cpc \in {"decrypt", "open decrypted"}
    BY <1>1, <1>4 DEF CReadFails, CRead, CStrip, CEncryptByte, CDecryptByte, CPass, COpenFails,
                      CExit, CInv, CControl, Writing
  <2>2. CAfterCiphertext' => CAfterCiphertext
    BY <2>1 DEF CAfterCiphertext, Writing
  <2>3. /\ CiphertextMade' => CiphertextMade
        /\ DecryptedMade' => DecryptedMade
    BY <1>1, <2>1, <2>2 DEF CiphertextMade, DecryptedMade, Writing
  <2>4. CCiphertextEnds \subseteq CCiphertextEnds' /\ CDecryptedEnds \subseteq CDecryptedEnds'
    <3>1. /\ cpc # "write ciphertext" /\ cpc' # "write ciphertext"
          /\ cpc # "write decrypted" /\ cpc' # "write decrypted"
      BY <2>1 DEF Writing
    <3>2. CDecryptedEnds = 0 .. Len(inputFile) /\ CDecryptedEnds' = 0 .. Len(inputFile)
      BY <1>1, <2>1, <3>1 DEF CDecryptedEnds, Ends
    <3>3. CASE CAfterCiphertext /\ ~cut /\ ~CAfterCiphertext'
      <4>1. cpc' = "exit" \/ cpc' \notin {"decrypt", "open decrypted", "write decrypted"}
        BY <3>3 DEF CAfterCiphertext
      <4>2. CCiphertextEnds = {Len(inputFile)} /\ CCiphertextEnds' = 0 .. Len(inputFile)
        BY <1>1, <3>1, <3>3 DEF CCiphertextEnds, Ends
      <4>3. FilesThere
        BY <1>1, <2>1, <3>3 DEF CAfterCiphertext, CInv, CControl, CBuffers, CHasBuffers, Writing
      <4>4. Len(inputFile) \in Nat
        BY <1>1, <4>3, FilesAreBytes
      <4>5. Len(inputFile) \in 0 .. Len(inputFile)
        BY <4>4
      <4> QED BY <3>2, <4>2, <4>5
    <3>4. CASE ~(CAfterCiphertext /\ ~cut /\ ~CAfterCiphertext')
      <4>1. (CAfterCiphertext' /\ ~cut') <=> (CAfterCiphertext /\ ~cut)
        BY <2>1, <2>2, <3>4
      <4>2. CCiphertextEnds' = CCiphertextEnds
        BY <1>1, <3>1, <4>1 DEF CCiphertextEnds, Ends
      <4> QED BY <3>2, <4>2
    <3> QED BY <3>3, <3>4
  <2> QED BY <1>1, <1>2, <2>1, <2>3, <2>4, CiphertextKept, DecryptedKept
<1>5. CASE COpen /\ cpc = "open ciphertext"
  <2>1. cpc' = "write ciphertext" /\ ciphertextFile' = <<>> /\ cpos' = 0 /\ cexit = "running"
        /\ UNCHANGED <<decryptedFile, cut, cexit>>
    BY <1>1, <1>5 DEF COpen, CInv, CControl
  <2>2. CCiphertextEnds' = {0} /\ CDecryptedEnds' = CDecryptedEnds
        /\ (DecryptedMade' => DecryptedMade)
    BY <1>1, <1>5, <2>1 DEF CCiphertextEnds, CDecryptedEnds, DecryptedMade, Ends
  <2>3. ASSUME FilesThere, PlainKey
        PROVE  Shared(<<>>, Ciphertext, {0}, OCiphertextEnds)
    <3>1. PICK d \in 0 .. Len(inputFile) : d \in OCiphertextEnds
      BY <1>1, <2>3, OOffset, EndsAreThere DEF OCiphertextEnds, Writing
    <3>2. Ciphertext \in Seq(Byte) /\ d \in 0 .. Len(Ciphertext)
      BY <1>1, <2>3, CiphertextIsBytes
    <3> QED BY <3>1, <3>2, SharedEmptied
  <2>4. CiphertextInv'
    BY <1>2, <1>3, <2>1, <2>2, <2>3, EmptyFile DEF CiphertextInv
  <2>5. DecryptedInv'
    BY <1>1, <1>2, <2>1, <2>2, DecryptedKept
  <2> QED BY <2>4, <2>5
<1>6. CASE COpen /\ cpc = "open decrypted"
  <2>1. cpc' = "write decrypted" /\ decryptedFile' = <<>> /\ cpos' = 0 /\ cexit = "running"
        /\ UNCHANGED <<ciphertextFile, cut, cexit>>
    BY <1>1, <1>6 DEF COpen, CInv, CControl
  <2>2. CDecryptedEnds' = {0} /\ CCiphertextEnds' = CCiphertextEnds
        /\ (CiphertextMade' => CiphertextMade)
    BY <1>1, <1>6, <2>1
       DEF CCiphertextEnds, CDecryptedEnds, CiphertextMade, CAfterCiphertext, Ends
  <2>3. ASSUME FilesThere
        PROVE  Shared(<<>>, inputFile, {0}, ODecryptedEnds)
    <3>1. PICK d \in 0 .. Len(inputFile) : d \in ODecryptedEnds
      BY <1>1, <2>3, OOffset, EndsAreThere DEF ODecryptedEnds, Writing
    <3>2. inputFile \in Seq(Byte)
      BY <1>1, <2>3, FilesAreBytes
    <3> QED BY <3>1, <3>2, SharedEmptied
  <2>4. DecryptedInv'
    BY <1>1, <1>2, <1>3, <2>1, <2>2, <2>3, EmptyFile DEF DecryptedInv
  <2>5. CiphertextInv'
    BY <1>1, <1>2, <2>1, <2>2, CiphertextKept
  <2> QED BY <2>4, <2>5
<1>7. CASE CWrite /\ cpc = "write ciphertext"
  <2>1. PICK n \in cpos + 1 .. Len(cenc) :
          cpos' = n /\ ciphertextFile' = Written(ciphertextFile, cenc, cpos, n)
    BY <1>7 DEF CWrite
  <2>2. cpc' = cpc /\ UNCHANGED <<cexit, cut, decryptedFile>>
    BY <1>7 DEF CWrite
  <2>3. /\ CHasBuffers /\ FilesThere /\ cpos \in 0 .. Len(inputFile)
        /\ Len(inputFile) \in Nat /\ cenc \in Seq(Byte) /\ Len(cenc) = Len(inputFile)
    <3>1. CHasBuffers /\ FilesThere /\ cpos \in 0 .. Len(inputFile)
      BY <1>1, <1>7, COffset DEF Writing
    <3>2. Len(inputFile) \in Nat /\ cenc \in Buffer
      BY <1>1, <3>1, FilesAreBytes DEF CInv, CBuffers
    <3> QED BY <3>1, <3>2, BufferIsBytes DEF Buffer
  <2>4. ciphertextFile \in Seq(Byte) /\ ciphertextFile # Missing
    BY <1>1, <1>7 DEF CiphertextInv, CiphertextMade
  <2>5. cpos \in Nat /\ n \in cpos + 1 .. Len(cenc)
    BY <2>3
  <2>6. ciphertextFile' \in Seq(Byte) /\ ciphertextFile' # Missing
    BY <2>1, <2>3, <2>4, <2>5, WrittenBytes, FilesAssumption
  <2>7. CCiphertextEnds = {cpos} /\ CCiphertextEnds' = {n} /\ CDecryptedEnds' = CDecryptedEnds
        /\ (DecryptedMade' => DecryptedMade)
    BY <1>1, <1>7, <2>1, <2>2 DEF CCiphertextEnds, CDecryptedEnds, DecryptedMade, Ends
  <2>8. OCiphertextEnds \subseteq Nat
    <3>1. OCiphertextEnds \subseteq 0 .. Len(inputFile)
      BY <1>1, <2>3, OOffset, EndsAreThere DEF OCiphertextEnds, Writing
    <3> QED BY <2>3, <3>1
  <2>9. ASSUME Fits, PlainKey
        PROVE  Shared(ciphertextFile', Ciphertext, {n}, OCiphertextEnds)
    <3>1. cenc = Ciphertext
      <4>1. CWritten("encrypt") = ToInt(Len(inputFile))
        BY <1>7 DEF CWritten
      <4> QED BY <1>1, <2>3, <2>9, <4>1, CTexts
    <3>2. Shared(ciphertextFile, cenc, {cpos}, OCiphertextEnds)
      BY <1>1, <2>3, <2>4, <2>7, <2>9, <3>1 DEF CiphertextInv
    <3>3. Shared(Written(ciphertextFile, cenc, cpos, n), cenc, {n}, OCiphertextEnds)
      BY <2>3, <2>4, <2>5, <2>8, <3>2, SharedWritten
    <3> QED BY <2>1, <3>1, <3>3
  <2>10. CiphertextInv'
    BY <1>2, <1>3, <2>6, <2>7, <2>9 DEF CiphertextInv
  <2> QED BY <1>1, <1>2, <2>2, <2>7, <2>10, DecryptedKept
<1>8. CASE CWrite /\ cpc = "write decrypted"
  <2>1. PICK n \in cpos + 1 .. Len(cdec) :
          cpos' = n /\ decryptedFile' = Written(decryptedFile, cdec, cpos, n)
    BY <1>8 DEF CWrite
  <2>2. cpc' = cpc /\ UNCHANGED <<cexit, cut, ciphertextFile>>
    BY <1>8 DEF CWrite
  <2>3. /\ CHasBuffers /\ FilesThere /\ cpos \in 0 .. Len(inputFile)
        /\ Len(inputFile) \in Nat /\ cdec \in Seq(Byte) /\ Len(cdec) = Len(inputFile)
    <3>1. CHasBuffers /\ FilesThere /\ cpos \in 0 .. Len(inputFile)
      BY <1>1, <1>8, COffset DEF Writing
    <3>2. Len(inputFile) \in Nat /\ cdec \in Buffer
      BY <1>1, <3>1, FilesAreBytes DEF CInv, CBuffers
    <3> QED BY <3>1, <3>2, BufferIsBytes DEF Buffer
  <2>4. decryptedFile \in Seq(Byte) /\ decryptedFile # Missing
    BY <1>1, <1>8 DEF DecryptedInv, DecryptedMade
  <2>5. cpos \in Nat /\ n \in cpos + 1 .. Len(cdec)
    BY <2>3
  <2>6. decryptedFile' \in Seq(Byte) /\ decryptedFile' # Missing
    BY <2>1, <2>3, <2>4, <2>5, WrittenBytes, FilesAssumption
  <2>7. CDecryptedEnds = {cpos} /\ CDecryptedEnds' = {n} /\ CCiphertextEnds' = CCiphertextEnds
        /\ (CiphertextMade' => CiphertextMade)
    BY <1>1, <1>8, <2>1, <2>2
       DEF CCiphertextEnds, CDecryptedEnds, CiphertextMade, CAfterCiphertext, Ends
  <2>8. ODecryptedEnds \subseteq Nat
    <3>1. ODecryptedEnds \subseteq 0 .. Len(inputFile)
      BY <1>1, <2>3, OOffset, EndsAreThere DEF ODecryptedEnds, Writing
    <3> QED BY <2>3, <3>1
  <2>9. ASSUME Fits
        PROVE  Shared(decryptedFile', inputFile, {n}, ODecryptedEnds)
    <3>1. cdec = inputFile
      <4>1. CWritten("decrypt") = ToInt(Len(inputFile)) /\ CHasDecrypted
        BY <1>8, <2>3 DEF CWritten, CHasDecrypted
      <4> QED BY <1>1, <2>3, <2>9, <4>1, CTexts
    <3>2. Shared(decryptedFile, cdec, {cpos}, ODecryptedEnds)
      BY <1>1, <2>3, <2>4, <2>7, <2>9, <3>1 DEF DecryptedInv
    <3>3. Shared(Written(decryptedFile, cdec, cpos, n), cdec, {n}, ODecryptedEnds)
      BY <2>3, <2>4, <2>5, <2>8, <3>2, SharedWritten
    <3> QED BY <2>1, <3>1, <3>3
  <2>10. DecryptedInv'
    BY <1>1, <1>2, <1>3, <2>6, <2>7, <2>9 DEF DecryptedInv
  <2> QED BY <1>1, <1>2, <2>2, <2>7, <2>10, CiphertextKept
<1>9. CASE CCloseCiphertext
  <2>1. cpc = "write ciphertext" /\ cpc' = "decrypt" /\ cut' = (cut \/ cpos < Len(cenc))
        /\ UNCHANGED <<ciphertextFile, decryptedFile, cexit, cpos>>
    BY <1>9 DEF CCloseCiphertext
  <2>2. cexit = "running" /\ CHasBuffers /\ FilesThere /\ cpos \in 0 .. Len(inputFile)
    BY <1>1, <2>1, COffset DEF Writing, CInv, CControl
  <2>3. Len(cenc) = Len(inputFile) /\ Len(inputFile) \in Nat
    <3>1. Len(inputFile) \in Nat /\ cenc \in Buffer
      BY <1>1, <2>2, FilesAreBytes DEF CInv, CBuffers
    <3> QED BY <3>1, BufferIsBytes DEF Buffer
  <2>4. cpos < Len(inputFile) \/ cpos = Len(inputFile)
    BY <2>2, <2>3
  <2>5. CCiphertextEnds = {cpos}
    BY <2>1 DEF CCiphertextEnds, Ends
  <2>6. ~cut' => cpos = Len(inputFile)
    BY <2>1, <2>3, <2>4, Zenon
  <2>7. CCiphertextEnds' = IF cut' THEN 0 .. Len(inputFile) ELSE {Len(inputFile)}
    BY <1>1, <2>1 DEF CCiphertextEnds, CAfterCiphertext, Ends
  <2>8. CCiphertextEnds \subseteq CCiphertextEnds'
    BY <2>2, <2>5, <2>6, <2>7
  <2>9. CDecryptedEnds' = CDecryptedEnds
        /\ (DecryptedMade' => DecryptedMade) /\ (CiphertextMade' => CiphertextMade)
    BY <1>1, <2>1, <2>2 DEF CDecryptedEnds, DecryptedMade, CiphertextMade, Ends
  <2> QED BY <1>1, <1>2, <2>1, <2>8, <2>9, CiphertextKept, DecryptedKept
<1>10. CASE CCloseDecrypted
  <2>1. cpc = "write decrypted" /\ cpc' = "exit" /\ cexit' = "0"
        /\ cut' = (cut \/ cpos < Len(cdec))
        /\ UNCHANGED <<ciphertextFile, decryptedFile, cpos>>
    BY <1>10 DEF CCloseDecrypted, CExit
  <2>2. cexit = "running" /\ CHasBuffers /\ FilesThere /\ cpos \in 0 .. Len(inputFile)
    BY <1>1, <2>1, COffset DEF Writing, CInv, CControl
  <2>3. Len(cdec) = Len(inputFile) /\ Len(inputFile) \in Nat
    <3>1. Len(inputFile) \in Nat /\ cdec \in Buffer
      BY <1>1, <2>2, FilesAreBytes DEF CInv, CBuffers
    <3> QED BY <3>1, BufferIsBytes DEF Buffer
  <2>4. /\ cpos < Len(inputFile) \/ cpos = Len(inputFile)
        /\ Len(inputFile) \in 0 .. Len(inputFile)
    BY <2>2, <2>3
  <2>5. CDecryptedEnds = {cpos}
    BY <2>1 DEF CDecryptedEnds, Ends
  <2>6. ~cut' => cpos = Len(inputFile) /\ ~cut
    BY <2>1, <2>3, <2>4, Zenon
  <2>7. /\ CDecryptedEnds' = IF cut' THEN 0 .. Len(inputFile) ELSE {Len(inputFile)}
        /\ CCiphertextEnds' = IF cut' THEN 0 .. Len(inputFile) ELSE {Len(inputFile)}
        /\ CCiphertextEnds = IF cut THEN 0 .. Len(inputFile) ELSE {Len(inputFile)}
    BY <1>1, <2>1 DEF CDecryptedEnds, CCiphertextEnds, CAfterCiphertext, Ends
  <2>8. CDecryptedEnds \subseteq CDecryptedEnds'
    BY <2>2, <2>5, <2>6, <2>7
  <2>9. CCiphertextEnds \subseteq CCiphertextEnds'
    BY <2>4, <2>6, <2>7
  <2>10. (DecryptedMade' => DecryptedMade) /\ (CiphertextMade' => CiphertextMade)
    BY <1>1, <2>1, <2>2 DEF DecryptedMade, CiphertextMade, CAfterCiphertext
  <2> QED BY <1>1, <1>2, <2>1, <2>8, <2>9, <2>10, CiphertextKept, DecryptedKept
<1> QED BY <1>4, <1>5, <1>6, <1>7, <1>8, <1>9, <1>10 DEF CNext, COpen, CWrite

LEMMA OFilesInv ==
  ASSUME IInv, ONext, UNCHANGED cvars
  PROVE  CiphertextInv' /\ DecryptedInv'
<1>1. UNCHANGED <<inputFile, keyFile, cpc, cexit, cpos, cut>> /\ FileInv /\ CInv /\ OInv
      /\ CiphertextInv /\ DecryptedInv
  BY DEF ONext, cvars, IInv
<1>2. CCiphertextEnds' = CCiphertextEnds /\ CDecryptedEnds' = CDecryptedEnds
      /\ CAfterCiphertext' = CAfterCiphertext
  BY <1>1 DEF CCiphertextEnds, CDecryptedEnds, CAfterCiphertext, Ends
<1>3. FilesThere' = FilesThere /\ Fits' = Fits /\ PlainKey' = PlainKey
      /\ Ciphertext' = Ciphertext
  BY <1>1 DEF FilesThere, Fits, PlainKey, Ciphertext, XorByte
<1>4. CASE ORead \/ OByte \/ OPass
  <2>1. /\ UNCHANGED <<ciphertextFile, decryptedFile, oexit>>
        /\ ~Writing(opc) /\ ~Writing(opc') /\ oexit = "running"
        /\ opc \in {"decrypt", "open decrypted"} <=> opc' \in {"decrypt", "open decrypted"}
    BY <1>1, <1>4 DEF ORead, OByte, OPass, OInv, OControl, Writing
  <2>2. OAfterCiphertext' <=> OAfterCiphertext
    BY <2>1 DEF OAfterCiphertext, Writing
  <2>3. /\ opc # "write ciphertext" /\ opc' # "write ciphertext"
        /\ opc # "write decrypted" /\ opc' # "write decrypted"
    BY <2>1 DEF Writing
  <2>4. OCiphertextEnds' = OCiphertextEnds /\ ODecryptedEnds' = ODecryptedEnds
    BY <1>1, <2>1, <2>2, <2>3 DEF OCiphertextEnds, ODecryptedEnds, Ends
  <2>5. (CiphertextMade' => CiphertextMade) /\ (DecryptedMade' => DecryptedMade)
    BY <1>1, <1>2, <2>3 DEF CiphertextMade, DecryptedMade
  <2> QED BY <1>1, <1>2, <2>1, <2>4, <2>5, CiphertextKept, DecryptedKept
<1>5. CASE ORaises
  <2>1. UNCHANGED <<ciphertextFile, decryptedFile>> /\ opc' = "exit" /\ oexit' = "2"
    BY <1>5 DEF ORaises, OExit
  <2>2. (CiphertextMade' => CiphertextMade) /\ (DecryptedMade' => DecryptedMade)
    BY <1>1, <1>2, <2>1 DEF CiphertextMade, DecryptedMade
  <2>3. OCiphertextEnds' = 0 .. Len(inputFile) /\ ODecryptedEnds' = 0 .. Len(inputFile)
    BY <1>1, <2>1 DEF OCiphertextEnds, ODecryptedEnds, OAfterCiphertext, Ends
  <2>4. ASSUME FilesThere
        PROVE  OCiphertextEnds \subseteq OCiphertextEnds' /\ ODecryptedEnds \subseteq ODecryptedEnds'
    BY <1>1, <2>3, <2>4, OOffset, EndsAreThere DEF OCiphertextEnds, ODecryptedEnds, Writing
  <2>5. CASE FilesThere
    BY <1>1, <1>2, <2>1, <2>2, <2>4, <2>5, CiphertextKept, DecryptedKept
  <2>6. CASE ~FilesThere
    BY <1>1, <1>3, <2>1, <2>2, <2>6 DEF CiphertextInv, DecryptedInv
  <2> QED BY <2>5, <2>6
<1>6. CASE OOpen /\ opc = "open ciphertext"
  <2>1. opc' = "write ciphertext" /\ ciphertextFile' = <<>> /\ opos' = 0
        /\ UNCHANGED <<decryptedFile, oexit>>
    BY <1>6 DEF OOpen
  <2>2. OCiphertextEnds' = {0} /\ ODecryptedEnds' = ODecryptedEnds
        /\ (DecryptedMade' => DecryptedMade)
    BY <1>1, <1>6, <2>1 DEF OCiphertextEnds, ODecryptedEnds, DecryptedMade, Ends
  <2>3. ASSUME FilesThere, PlainKey
        PROVE  Shared(<<>>, Ciphertext, CCiphertextEnds, {0})
    <3>1. PICK b \in 0 .. Len(inputFile) : b \in CCiphertextEnds
      BY <1>1, <2>3, COffset, EndsAreThere DEF CCiphertextEnds, Writing
    <3>2. Ciphertext \in Seq(Byte) /\ b \in 0 .. Len(Ciphertext)
      BY <1>1, <2>3, CiphertextIsBytes
    <3> QED BY <3>1, <3>2, SharedEmptied, SharedByBoth
  <2>4. CiphertextInv'
    BY <1>2, <1>3, <2>1, <2>2, <2>3, EmptyFile DEF CiphertextInv
  <2>5. DecryptedInv'
    BY <1>1, <1>2, <2>1, <2>2, DecryptedKept
  <2> QED BY <2>4, <2>5
<1>7. CASE OOpen /\ opc = "open decrypted"
  <2>1. opc' = "write decrypted" /\ decryptedFile' = <<>> /\ opos' = 0
        /\ UNCHANGED <<ciphertextFile, oexit>>
    BY <1>7 DEF OOpen
  <2>2. ODecryptedEnds' = {0} /\ OCiphertextEnds' = OCiphertextEnds
        /\ (CiphertextMade' => CiphertextMade)
    BY <1>1, <1>2, <1>7, <2>1
       DEF OCiphertextEnds, ODecryptedEnds, CiphertextMade, OAfterCiphertext, Ends
  <2>3. ASSUME FilesThere
        PROVE  Shared(<<>>, inputFile, CDecryptedEnds, {0})
    <3>1. PICK b \in 0 .. Len(inputFile) : b \in CDecryptedEnds
      BY <1>1, <2>3, COffset, EndsAreThere DEF CDecryptedEnds, Writing
    <3>2. inputFile \in Seq(Byte)
      BY <1>1, <2>3, FilesAreBytes
    <3> QED BY <3>1, <3>2, SharedEmptied, SharedByBoth
  <2>4. DecryptedInv'
    BY <1>1, <1>2, <1>3, <2>1, <2>2, <2>3, EmptyFile DEF DecryptedInv
  <2>5. CiphertextInv'
    BY <1>1, <1>2, <2>1, <2>2, CiphertextKept
  <2> QED BY <2>4, <2>5
<1>8. CASE OWrite /\ opc = "write ciphertext"
  <2>1. PICK n \in opos + 1 .. Len(oenc) :
          opos' = n /\ ciphertextFile' = Written(ciphertextFile, oenc, opos, n)
    BY <1>8 DEF OWrite, Encrypted
  <2>2. opc' = opc /\ UNCHANGED <<oexit, decryptedFile>>
    BY <1>8 DEF OWrite
  <2>3. /\ FilesThere /\ opos \in 0 .. Len(inputFile)
        /\ Len(inputFile) \in Nat /\ oenc \in Seq(Byte) /\ Len(oenc) = Len(inputFile)
        /\ oenc = Ciphertext
    <3>1. FilesThere /\ opos \in 0 .. Len(inputFile)
      BY <1>1, <1>8, OOffset DEF Writing
    <3>2. /\ Len(inputFile) \in Nat /\ oenc \in Buffer
          /\ XoredUpTo(oenc, Len(inputFile), inputFile, Len(keyFile))
      BY <1>1, <1>8, <3>1, FilesAreBytes DEF OInv, OContents, OEncrypted
    <3> QED BY <1>1, <3>1, <3>2, BufferIsBytes, XoredIsCiphertext DEF Buffer
  <2>4. ciphertextFile \in Seq(Byte) /\ ciphertextFile # Missing
    BY <1>1, <1>8 DEF CiphertextInv, CiphertextMade
  <2>5. opos \in Nat /\ n \in opos + 1 .. Len(oenc)
    BY <2>3
  <2>6. ciphertextFile' \in Seq(Byte) /\ ciphertextFile' # Missing
    BY <2>1, <2>3, <2>4, <2>5, WrittenBytes, FilesAssumption
  <2>7. OCiphertextEnds = {opos} /\ OCiphertextEnds' = {n} /\ ODecryptedEnds' = ODecryptedEnds
        /\ (DecryptedMade' => DecryptedMade)
    BY <1>1, <1>8, <2>1, <2>2 DEF OCiphertextEnds, ODecryptedEnds, DecryptedMade, Ends
  <2>8. CCiphertextEnds \subseteq Nat
    <3>1. CCiphertextEnds \subseteq 0 .. Len(inputFile)
      BY <1>1, <2>3, COffset, EndsAreThere DEF CCiphertextEnds, Writing
    <3> QED BY <2>3, <3>1
  <2>9. ASSUME Fits, PlainKey
        PROVE  Shared(ciphertextFile', Ciphertext, CCiphertextEnds, {n})
    <3>1. Shared(ciphertextFile, oenc, CCiphertextEnds, {opos})
      BY <1>1, <2>3, <2>4, <2>7, <2>9 DEF CiphertextInv
    <3>2. Shared(ciphertextFile, oenc, {opos}, CCiphertextEnds)
      BY <3>1, SharedByBoth
    <3>3. Shared(Written(ciphertextFile, oenc, opos, n), oenc, {n}, CCiphertextEnds)
      BY <2>3, <2>4, <2>5, <2>8, <3>2, SharedWritten
    <3>4. Shared(Written(ciphertextFile, oenc, opos, n), oenc, CCiphertextEnds, {n})
      BY <3>3, SharedByBoth
    <3> QED BY <2>1, <2>3, <3>4
  <2>10. CiphertextInv'
    BY <1>2, <1>3, <2>6, <2>7, <2>9 DEF CiphertextInv
  <2> QED BY <1>1, <1>2, <2>2, <2>7, <2>10, DecryptedKept
<1>9. CASE OWrite /\ opc = "write decrypted"
  <2>1. PICK n \in opos + 1 .. Len(odec) :
          opos' = n /\ decryptedFile' = Written(decryptedFile, odec, opos, n)
    BY <1>9 DEF OWrite
  <2>2. opc' = opc /\ UNCHANGED <<oexit, ciphertextFile>>
    BY <1>9 DEF OWrite
  <2>3. /\ FilesThere /\ opos \in 0 .. Len(inputFile)
        /\ Len(inputFile) \in Nat /\ odec \in Seq(Byte) /\ odec = inputFile
    <3>1. FilesThere /\ opos \in 0 .. Len(inputFile)
      BY <1>1, <1>9, OOffset DEF Writing
    <3>2. odec = inputFile
      BY <1>1, <1>9 DEF OInv, OContents, ODecrypted
    <3> QED BY <1>1, <3>1, <3>2, FilesAreBytes
  <2>4. decryptedFile \in Seq(Byte) /\ decryptedFile # Missing
    BY <1>1, <1>9 DEF DecryptedInv, DecryptedMade
  <2>5. opos \in Nat /\ n \in opos + 1 .. Len(odec)
    BY <2>3
  <2>6. decryptedFile' \in Seq(Byte) /\ decryptedFile' # Missing
    BY <2>1, <2>3, <2>4, <2>5, WrittenBytes, FilesAssumption
  <2>7. ODecryptedEnds = {opos} /\ ODecryptedEnds' = {n} /\ OCiphertextEnds' = OCiphertextEnds
        /\ (CiphertextMade' => CiphertextMade)
    BY <1>1, <1>2, <1>9, <2>1, <2>2
       DEF OCiphertextEnds, ODecryptedEnds, CiphertextMade, OAfterCiphertext, Ends
  <2>8. CDecryptedEnds \subseteq Nat
    <3>1. CDecryptedEnds \subseteq 0 .. Len(inputFile)
      BY <1>1, <2>3, COffset, EndsAreThere DEF CDecryptedEnds, Writing
    <3> QED BY <2>3, <3>1
  <2>9. ASSUME Fits
        PROVE  Shared(decryptedFile', inputFile, CDecryptedEnds, {n})
    <3>1. Shared(decryptedFile, odec, CDecryptedEnds, {opos})
      BY <1>1, <2>3, <2>4, <2>7, <2>9 DEF DecryptedInv
    <3>2. Shared(decryptedFile, odec, {opos}, CDecryptedEnds)
      BY <3>1, SharedByBoth
    <3>3. Shared(Written(decryptedFile, odec, opos, n), odec, {n}, CDecryptedEnds)
      BY <2>3, <2>4, <2>5, <2>8, <3>2, SharedWritten
    <3>4. Shared(Written(decryptedFile, odec, opos, n), odec, CDecryptedEnds, {n})
      BY <3>3, SharedByBoth
    <3> QED BY <2>1, <2>3, <3>4
  <2>10. DecryptedInv'
    BY <1>1, <1>2, <1>3, <2>6, <2>7, <2>9 DEF DecryptedInv
  <2> QED BY <1>1, <1>2, <2>2, <2>7, <2>10, CiphertextKept
<1>10. CASE OClose /\ opc = "write ciphertext"
  <2>1. opc' = "decrypt" /\ opos = Len(oenc)
        /\ UNCHANGED <<ciphertextFile, decryptedFile, oexit, opos>>
    BY <1>10 DEF OClose, Encrypted
  <2>2. Len(oenc) = Len(inputFile)
    <3>1. FilesThere
      BY <1>1, <1>10, OOffset DEF Writing
    <3>2. Len(inputFile) \in Nat /\ oenc \in Buffer
      BY <1>1, <1>10, <3>1, FilesAreBytes DEF OInv, OContents, OEncrypted
    <3> QED BY <3>2, BufferIsBytes DEF Buffer
  <2>3. OCiphertextEnds' = OCiphertextEnds
    BY <1>1, <1>10, <2>1, <2>2 DEF OCiphertextEnds, OAfterCiphertext, Ends
  <2>4. ODecryptedEnds' = ODecryptedEnds
    BY <1>1, <1>10, <2>1 DEF ODecryptedEnds, Ends
  <2>5. (CiphertextMade' => CiphertextMade) /\ (DecryptedMade' => DecryptedMade)
    BY <1>1, <1>2, <1>10, <2>1 DEF CiphertextMade, DecryptedMade
  <2> QED BY <1>1, <1>2, <2>1, <2>3, <2>4, <2>5, CiphertextKept, DecryptedKept
<1>11. CASE OClose /\ opc = "write decrypted"
  <2>1. opc' = "exit" /\ oexit' = "0" /\ opos = Len(odec)
        /\ UNCHANGED <<ciphertextFile, decryptedFile, opos>>
    BY <1>11 DEF OClose, OExit
  <2>2. odec = inputFile
    BY <1>1, <1>11 DEF OInv, OContents, ODecrypted
  <2>3. OCiphertextEnds' = OCiphertextEnds
    BY <1>1, <1>11, <2>1 DEF OCiphertextEnds, OAfterCiphertext, Ends
  <2>4. ODecryptedEnds' = ODecryptedEnds
    BY <1>1, <1>11, <2>1, <2>2 DEF ODecryptedEnds, Ends
  <2>5. (CiphertextMade' => CiphertextMade) /\ (DecryptedMade' => DecryptedMade)
    BY <1>1, <1>2, <1>11, <2>1 DEF CiphertextMade, DecryptedMade
  <2> QED BY <1>1, <1>2, <2>1, <2>3, <2>4, <2>5, CiphertextKept, DecryptedKept
<1> QED BY <1>4, <1>5, <1>6, <1>7, <1>8, <1>9, <1>10, <1>11 DEF ONext, OOpen, OWrite, OClose

-----------------------------------------------------------------------------
LEMMA InitIInv == Init => IInv
<1> SUFFICES ASSUME Init PROVE IInv
  OBVIOUS
<1> USE DEF Init, FilesInit, CInit, OInit
<1>0. 0 \in 0 .. Passes-1
  OBVIOUS
<1>1. FileInv
  BY DEF FileInv
<1>2. CInv
  <2>1. CControl
    BY <1>0 DEF CControl, CpcStates
  <2>2. CBuffers /\ CKey /\ CContents
    BY DEF CBuffers, CKey, CContents, CHasBuffers, CHasDecrypted
  <2> QED BY <2>1, <2>2 DEF CInv
<1>3. OInv
  <2>1. OControl
    BY <1>0 DEF OControl, CpcStates, Writing
  <2>2. OContents
    BY DEF OContents, OEncrypted, ODecrypted
  <2> QED BY <2>1, <2>2 DEF OInv
<1>4. CiphertextInv /\ DecryptedInv
  BY DEF CiphertextInv, CiphertextMade, CAfterCiphertext, DecryptedInv, DecryptedMade
<1> QED BY <1>1, <1>2, <1>3, <1>4 DEF IInv

LEMMA NextIInv == IInv /\ [Next]_vars => IInv'
<1> SUFFICES ASSUME IInv, [Next]_vars PROVE IInv'
  OBVIOUS
<1>1. CASE CNext /\ UNCHANGED ovars
  <2>1. UNCHANGED <<inputFile, keyFile>>
    BY <1>1 DEF CNext
  <2>2. FileInv'
    BY <2>1 DEF IInv, FileInv
  <2> QED BY <1>1, <2>1, <2>2, CNextInv, OKept, CFilesInv DEF IInv
<1>2. CASE ONext /\ UNCHANGED cvars
  <2>1. UNCHANGED <<inputFile, keyFile>>
    BY <1>2 DEF ONext
  <2>2. FileInv'
    BY <2>1 DEF IInv, FileInv
  <2> QED BY <1>2, <2>1, <2>2, ONextInv, CKept, OFilesInv DEF IInv
<1>3. CASE UNCHANGED vars
  <2>1. UNCHANGED <<inputFile, keyFile, ciphertextFile, decryptedFile, cvars, ovars>>
    BY <1>3 DEF vars
  <2>2. /\ (CiphertextMade' => CiphertextMade) /\ (DecryptedMade' => DecryptedMade)
        /\ CCiphertextEnds' = CCiphertextEnds /\ OCiphertextEnds' = OCiphertextEnds
        /\ CDecryptedEnds' = CDecryptedEnds /\ ODecryptedEnds' = ODecryptedEnds
    BY <2>1 DEF CiphertextMade, DecryptedMade, CAfterCiphertext, OAfterCiphertext,
                CCiphertextEnds, OCiphertextEnds, CDecryptedEnds, ODecryptedEnds, Ends,
                cvars, ovars
  <2>3. FileInv'
    BY <2>1 DEF IInv, FileInv
  <2> QED BY <2>1, <2>2, <2>3, CKept, OKept, CiphertextKept, DecryptedKept DEF IInv
<1> QED BY <1>1, <1>2, <1>3 DEF Next

LEMMA Inductive == Spec => []IInv
BY InitIInv, NextIInv, PTL DEF Spec

-----------------------------------------------------------------------------
(* No byte loop leaves its buffers or the key: of the C program although   *)
(* it takes lengths as ints, also where they do not fit.  No write goes    *)
(* beyond its buffer.                                                      *)
THEOREM TypeCorrect == Spec => []TypeOK
<1>1. IInv => TypeOK
  <2> SUFFICES ASSUME IInv PROVE TypeOK
    OBVIOUS
  <2>1. FileInv /\ CControl /\ OControl
    BY DEF IInv, CInv, OInv
  <2>2. /\ inputFile \in Inputs /\ keyFile \in KeyFiles
        /\ {ciphertextFile, decryptedFile} \subseteq Seq(Byte) \cup {Missing}
    BY DEF IInv, FileInv, CiphertextInv, DecryptedInv
  <2>3. ASSUME cpc \notin {"read", "exit"}
        PROVE  /\ inputFile # Missing /\ keyFile # Missing
               /\ keyLen \in 0 .. Len(keyFile) /\ ci \in 0 .. Len(inputFile)
    <3>1. CASE cpc = "strip"
      <4>1. FilesThere /\ keyLen \in 0 .. Len(keyFile) /\ ci = 0
        BY <2>1, <3>1 DEF CControl
      <4>2. Len(inputFile) \in Nat
        BY <2>1, <4>1, FilesAreBytes
      <4>3. 0 \in 0 .. Len(inputFile)
        BY <4>2
      <4> QED BY <4>1, <4>3 DEF FilesThere
    <3>2. CASE cpc # "strip"
      <4>1. CHasBuffers /\ ci \in Nat
            /\ (cpc \notin {"encrypt", "decrypt"} => ci = 0)
        BY <2>1, <2>3, <3>2 DEF CControl, CHasBuffers
      <4>2. /\ FilesThere /\ keyLen \in 1 .. Len(keyFile)
            /\ cpc \in {"encrypt", "decrypt"} => ci <= Len(inputFile)
        BY <4>1 DEF IInv, CInv, CBuffers
      <4>3. Len(inputFile) \in Nat /\ Len(keyFile) \in Nat
        BY <2>1, <4>2, FilesAreBytes
      <4>4. ci <= Len(inputFile)
        <5>1. CASE cpc \in {"encrypt", "decrypt"}
          BY <4>2, <5>1
        <5>2. CASE ci = 0
          BY <4>3, <5>2
        <5> QED BY <4>1, <5>1, <5>2
      <4>5. keyLen \in 0 .. Len(keyFile)
        BY <4>2, <4>3
      <4>6. ci \in 0 .. Len(inputFile)
        BY <4>1, <4>3, <4>4
      <4> QED BY <4>2, <4>5, <4>6 DEF FilesThere
    <3> QED BY <3>1, <3>2
  <2>4. ASSUME cpc \notin {"read", "strip", "exit"}
        PROVE  /\ keyLen > 0 /\ CKeyLen <= keyLen
               /\ cenc \in [1 .. Len(inputFile) -> Byte]
               /\ cdec \in [1 .. Len(inputFile) -> Byte]
    <3>1. CHasBuffers
      BY <2>1, <2>4 DEF CControl, CHasBuffers
    <3>2. FilesThere /\ keyLen \in 1 .. Len(keyFile) /\ cenc \in Buffer /\ cdec \in Buffer
      BY <3>1 DEF IInv, CInv, CBuffers
    <3>3. Len(keyFile) \in Nat
      BY <2>1, <3>2, FilesAreBytes
    <3>4. keyLen \in Nat /\ keyLen > 0
      BY <3>2, <3>3
    <3>5. ToInt(keyLen) \in Int /\ ToInt(keyLen) <= keyLen /\ -ToInt(keyLen) <= keyLen
      BY <3>4, ToIntBounds
    <3>6. CKeyLen <= keyLen
      BY <3>5 DEF CKeyLen
    <3> QED BY <3>2, <3>4, <3>6 DEF Buffer
  <2>5. ASSUME opc \notin {"read", "exit"}
        PROVE  /\ inputFile # Missing /\ keyFile # Missing
               /\ output \in [1 .. Len(inputFile) -> Byte]
               /\ oi \in 0 .. Len(output)
    <3>1. FilesThere /\ output \in Buffer /\ oi \in 0 .. Len(inputFile)
      BY <2>1, <2>5 DEF OControl
    <3>2. Len(output) = Len(inputFile)
      BY <2>1, <3>1, FilesAreBytes, BufferIsBytes DEF Buffer
    <3> QED BY <3>1, <3>2 DEF FilesThere, Buffer
  <2>6. cpc \in {"write ciphertext", "write decrypted"} => cpos \in 0 .. Len(inputFile)
    BY COffset DEF IInv, Writing
  <2>7. opc \in {"write ciphertext", "write decrypted"} => opos \in 0 .. Len(inputFile)
    BY OOffset DEF IInv, Writing
  <2> QED BY <2>1, <2>2, <2>3, <2>4, <2>5, <2>6, <2>7 DEF TypeOK, CControl, OControl
<1> QED BY <1>1, Inductive, PTL

(* The C program's key is the key file without the end of lines at its     *)
(* end, and nothing else is missing.                                       *)
THEOREM OnlyEolStripped == Spec => []KeyStripped
<1>1. IInv => KeyStripped
  <2> SUFFICES ASSUME IInv PROVE KeyStripped
    OBVIOUS
  <2>1. cpc \notin {"read", "exit"} => cpc = "strip" \/ CHasBuffers
    BY DEF IInv, CInv, CControl, CHasBuffers
  <2>2. cpc \notin {"read", "strip", "exit"} => CHasBuffers
    BY DEF IInv, CInv, CControl, CHasBuffers
  <2> QED BY <2>1, <2>2 DEF IInv, CInv, CKey, KeyStripped
<1> QED BY <1>1, Inductive, PTL

(* Every pass makes the same ciphertext of the message and the same        *)
(* message of the ciphertext.                                              *)
THEOREM EveryPassRepeats == Spec => []PassesRepeat
<1>1. IInv => PassesRepeat
  <2> SUFFICES ASSUME IInv PROVE PassesRepeat
    OBVIOUS
  <2>1. CContents /\ OControl /\ OContents /\ FileInv
    BY DEF IInv, CInv, OInv
  <2>2. OEncrypted => /\ Len(oenc) = Len(inputFile)
                      /\ XoredUpTo(oenc, Len(oenc), inputFile, Len(keyFile))
    <3> SUFFICES ASSUME OEncrypted
                 PROVE  /\ Len(oenc) = Len(inputFile)
                        /\ XoredUpTo(oenc, Len(oenc), inputFile, Len(keyFile))
      OBVIOUS
    <3>1. FilesThere
      BY <2>1 DEF OControl, OEncrypted
    <3>2. oenc \in Buffer /\ XoredUpTo(oenc, Len(inputFile), inputFile, Len(keyFile))
      BY <2>1 DEF OContents
    <3>3. Len(oenc) = Len(inputFile)
      BY <2>1, <3>1, <3>2, FilesAreBytes, BufferIsBytes DEF Buffer
    <3> QED BY <3>2, <3>3
  <2> QED BY <2>1, <2>2 DEF CContents, OContents, PassesRepeat
<1> QED BY <1>1, Inductive, PTL

(* A verification that is come to never fails, as long as the lengths fit  *)
(* an int, however the other program writes over the files.  Neither       *)
(* program comes to it with a key of no bytes, but the OCaml program with  *)
(* a message of none.                                                      *)
THEOREM VerificationPasses == Spec => []Verified
<1>1. IInv => Verified
  <2> SUFFICES ASSUME IInv PROVE Verified
    OBVIOUS
  <2>1. ASSUME cexit = "0", Fits PROVE cok
    <3>1. CHasBuffers /\ CHasDecrypted /\ cpc = "exit"
      BY <2>1 DEF IInv, CInv, CControl, CHasBuffers, CHasDecrypted
    <3>2. CWritten("decrypt") = ToInt(Len(inputFile))
      BY <3>1 DEF CWritten
    <3>3. cdec = inputFile
      BY <2>1, <3>1, <3>2, CTexts DEF IInv
    <3>4. cok = (cdec = inputFile)
      BY <2>1 DEF IInv, CInv, CContents
    <3> QED BY <3>3, <3>4
  <2>2. ASSUME cexit = "0" PROVE keyLen > 0
    <3>1. FilesThere /\ keyLen \in 1 .. Len(keyFile)
      BY <2>2 DEF IInv, CInv, CControl, CBuffers, CHasBuffers
    <3>2. Len(keyFile) \in Nat
      BY <3>1, FilesAreBytes DEF IInv
    <3> QED BY <3>1, <3>2
  <2>3. oexit = "0" => ook /\ (keyFile = <<>> => inputFile = <<>>)
    BY DEF IInv, OInv, OContents, OEncrypted
  <2> QED BY <2>1, <2>2, <2>3 DEF Verified
<1> QED BY <1>1, Inductive, PTL

(* If the key file does not end with an end of line the two programs leave *)
(* the same texts in the files they both write, however their steps and    *)
(* the parts of their writes interleave.  If a write of the C program was  *)
(* cut short a file holds the beginning of its text, or all of it but for  *)
(* one hole.                                                               *)
THEOREM FilesHoldTheTexts == Spec => []FilesAgree
<1>1. IInv => FilesAgree
  <2> SUFFICES ASSUME IInv, cexit = "0", oexit = "0", Fits, PlainKey
               PROVE  /\ cenc = oenc
                      /\ Beginning(ciphertextFile, oenc) \/ Holed(ciphertextFile, oenc)
                      /\ Beginning(decryptedFile, inputFile) \/ Holed(decryptedFile, inputFile)
                      /\ ~cut => ciphertextFile = oenc /\ decryptedFile = inputFile
    BY DEF FilesAgree
  <2>1. CHasBuffers /\ cpc = "exit" /\ opc = "exit" /\ FilesThere /\ FileInv
    BY DEF IInv, CInv, OInv, CControl, CBuffers, OControl, CHasBuffers
  <2>2. cenc = Ciphertext
    <3>1. CWritten("encrypt") = ToInt(Len(inputFile))
      BY <2>1 DEF CWritten
    <3> QED BY <2>1, <3>1, CTexts DEF IInv
  <2>3. oenc = Ciphertext
    BY <2>1, XoredIsCiphertext DEF IInv, OInv, OContents, OEncrypted
  <2>4. /\ inputFile \in Seq(Byte) /\ Ciphertext \in Seq(Byte)
        /\ Len(Ciphertext) = Len(inputFile) /\ Len(inputFile) \in Nat
    BY <2>1, CiphertextIsBytes, FilesAreBytes
  <2>5. /\ OCiphertextEnds = {Len(inputFile)} /\ ODecryptedEnds = {Len(inputFile)}
        /\ CCiphertextEnds = IF cut THEN 0 .. Len(inputFile) ELSE {Len(inputFile)}
        /\ CDecryptedEnds = IF cut THEN 0 .. Len(inputFile) ELSE {Len(inputFile)}
    BY <2>1 DEF OCiphertextEnds, ODecryptedEnds, CCiphertextEnds, CDecryptedEnds, Ends,
                OAfterCiphertext, CAfterCiphertext
  <2>6. CCiphertextEnds \subseteq Nat /\ CDecryptedEnds \subseteq Nat
    BY <2>4, <2>5
  <2>7. /\ ciphertextFile \in Seq(Byte)
        /\ Shared(ciphertextFile, Ciphertext, CCiphertextEnds, {Len(inputFile)})
    BY <2>1, <2>5 DEF IInv, CiphertextInv, CiphertextMade, CAfterCiphertext
  <2>8. /\ decryptedFile \in Seq(Byte)
        /\ Shared(decryptedFile, inputFile, CDecryptedEnds, {Len(inputFile)})
    BY <2>1, <2>5 DEF IInv, DecryptedInv, DecryptedMade
  <2>9. Beginning(ciphertextFile, oenc) \/ Holed(ciphertextFile, oenc)
    BY <2>3, <2>4, <2>6, <2>7, SharedRest
  <2>10. Beginning(decryptedFile, inputFile) \/ Holed(decryptedFile, inputFile)
    BY <2>4, <2>6, <2>8, SharedRest
  <2>11. ASSUME ~cut PROVE ciphertextFile = oenc /\ decryptedFile = inputFile
    BY <2>3, <2>4, <2>5, <2>7, <2>8, <2>11, SharedWhole
  <2> QED BY <2>2, <2>3, <2>9, <2>10, <2>11
<1> QED BY <1>1, Inductive, PTL
=============================================================================
