-------------------------- MODULE SecureMessaging --------------------------
(***************************************************************************)
(* The arithmetic and the cryptography of the GlobalPlatform library:      *)
(* which session key an implementation of the secure channel ends up       *)
(* with, what wrap_command makes of the length of a command, and how       *)
(* load_from_buffer cuts a load file into LOAD commands.                   *)
(*                                                                         *)
(* A file is known by its size.  A message authentication code is the key  *)
(* it was computed with, the code before it in the chain (a position: a    *)
(* code repeats after ChainLength commands only in the model) and the      *)
(* implementation, which decides whether that code is encrypted first.     *)
(***************************************************************************)
EXTENDS Integers, Sequences

CONSTANTS
  BlockSize,     \* bytes of a command under secure messaging, 239
  MaxBlocks,     \* LOAD commands one file may take, 256: their number is a byte
  ChainLength,
  NULL

ASSUME BlocksAssumption ==
  /\ BlockSize \in 131..239   \* a file whose header is too long takes two commands
  /\ MaxBlocks \in 2..256
ASSUME ChainAssumption == ChainLength \in Nat \ {0}

-----------------------------------------------------------------------------
(* Secure channels *)

BaseKeyImpls == {"i04", "i14", "i44", "i54"}
ThreeKeyImpls == {"i05", "i15", "i45", "i55"}

\* The protocols mutual_authentication has session keys for.
Supported(scp, impl) ==
  \/ scp = 1 /\ impl \in {"i05", "i15"}
  \/ scp = 2 /\ impl \in BaseKeyImpls \cup ThreeKeyImpls

\* With a base key every session key after the first is written over the MAC
\* key, so that the data encryption key is what it holds in the end.
MacKey(impl) == IF impl \in BaseKeyImpls THEN "dek" ELSE "mac"

MacLevels == {1, 3}
DecLevels == {3}

\* The code of a command: of the session key, on the code before it.
Mac(impl, kind, key, number, previous) ==
  [impl |-> impl, kind |-> kind, key |-> key, number |-> number, previous |-> previous]

-----------------------------------------------------------------------------
(* Lengths *)

RoundedUp(n) == n + ((8 - (n % 8)) % 8)
\* SCP02 always pads the data; SCP01 encrypts the length with it and pads what
\* is not full.
EncryptedLength(scp, lc) == IF scp = 2 THEN lc + 8 - (lc % 8) ELSE RoundedUp(lc + 1)

\* The data really sent of a command of lc bytes, and the byte that says so.
WrappedLength(scp, level, lc) ==
  CASE level \in DecLevels -> EncryptedLength(scp, lc) + 8
    [] level \in MacLevels \ DecLevels -> lc + 8
    [] OTHER -> lc
WrappedLc(scp, level, lc) == WrappedLength(scp, level, lc) % 256

\* convert_byte: to the library a byte of zero says 256.
SaidBy(byte) == IF byte = 0 THEN 256 ELSE byte

\* What wrap_command refuses before it computes the code: the test of the level,
\* or of the 261 bytes the command and its code have to fit in.
TooLongUnchecked(level, case, lc) == lc > 255  \* Mutant: no test of its own.
TooLong(level, case, lc) == lc > (IF level \in DecLevels /\ case = 3 THEN 247 ELSE 248)

\* What it refuses after that: the encrypted command with its Le does not fit.
NoRoom(scp, level, case, lc) ==
  /\ level \in DecLevels
  /\ EncryptedLength(scp, lc) + 13 + (IF case \in {2, 4} THEN 1 ELSE 0) > 261

\* What is encrypted has a buffer of 240 bytes, which nothing checks.
Overruns(scp, level, lc) == level \in DecLevels /\ EncryptedLength(scp, lc) > 240

-----------------------------------------------------------------------------
(* LOAD commands *)

\* Bytes the length of the load file data block is said to take.
FileSizeSize(size) == IF size < 128 THEN 1 ELSE IF size < 256 THEN 2 ELSE 3

\* The switch that writes them falls through: a short file gets the longer
\* forms too.
HeaderLength(size) == IF size < 128 THEN 7 ELSE IF size < 256 THEN 6 ELSE 4
WellFormed(size) == HeaderLength(size) = 1 + FileSizeSize(size)

TooBigBytes(size) == size >= 65536  \* Mutant: the commands are not counted.
TooBig(size) == size >= 65536 \/ MaxBlocks * BlockSize - 1 - FileSizeSize(size) < size

Least(a, b) == IF a < b THEN a ELSE b
\* Bytes of the file sent before command k, and with it.
SentBefore(size, k) == IF k = 0 THEN 0 ELSE Least(size, k * BlockSize - HeaderLength(size))
Count(size, k) == Least(size - SentBefore(size, k), IF k = 0 THEN BlockSize - HeaderLength(size) ELSE BlockSize)

\* The k-th LOAD command: the number in P2, the length, the bytes of the file
\* in it, and whether it is marked as the last.
LoadBlock(size, k) ==
  [number |-> k % MaxBlocks,
   lc     |-> Count(size, k) + (IF k = 0 THEN HeaderLength(size) ELSE 0),
   count  |-> Count(size, k),
   last   |-> SentBefore(size, k) + Count(size, k) = size]

\* INSTALL [for load] declares the size, aligned and with eight bytes to spare,
\* in two bytes.
CodeSpace(size) == (size + (8 - (size % 8)) + 8) % 65536
=============================================================================
