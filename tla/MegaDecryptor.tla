---------------------------- MODULE MegaDecryptor ----------------------------
(***************************************************************************)
(* decryptMegaFileInPlace of internal/queue/mega_decryptor.go: the payload *)
(* is read in pieces of any size, decrypted into a temporary file and      *)
(* authenticated with MEGA's chunked MAC before the temporary file takes   *)
(* the place of the download.  AES is symbolic: a chunk's MAC is the list  *)
(* of blocks mixed into it (so many whole ones and a padded tail), and the *)
(* file's MAC the list of its chunks.                                      *)
(***************************************************************************)
EXTENDS Integers, Sequences, FiniteSets

CONSTANTS
    BlockSize,    \* bytes of an AES block (16)
    UnitBlocks,   \* blocks of the first chunk (0x20000 bytes)
    ReadSizes,    \* sizes in.Read can return, the end of the file apart
    Sizes,        \* sizes of the file
    KeyLengths,   \* lengths of the decoded key
    MaxCrashes    \* bound on crashes

ASSUME MegaAssumption ==
    /\ BlockSize \in Nat \ {0} /\ UnitBlocks \in Nat \ {0}
    /\ ReadSizes \subseteq Nat \ {0} /\ ReadSizes # {}
    /\ Sizes \subseteq Nat /\ KeyLengths \subseteq Nat
    /\ MaxCrashes \in Nat

VARIABLES
    keyLen,    \* length of the key in the link
    size,      \* length of the downloaded file
    content,   \* what is at the path: the uploaded ciphertext, its plaintext, a damaged
               \* copy of the ciphertext, or the garbage it decrypts to
    pc,        \* where decryptMegaFileInPlace is
    pos,       \* bytes read so far
    left,      \* bytes of the last read that macCalc.Write has yet to take
    mac,       \* megaMACCalculator
    temp,      \* bytes in the temporary file, or NoTemp
    crashes

vars == <<keyLen, size, content, pc, pos, left, mac, temp, crashes>>

NoTemp == -1
Verify == keyLen = 32   \* a key of 16 bytes carries no MAC

----------------------------------------------------------------------------
(* megaMACCalculator.                                                      *)

Unit == UnitBlocks * BlockSize

MegaChunkSize(index) == IF index < 8 THEN (index + 1) * Unit ELSE 8 * Unit

NewMegaMACCalculator ==
    [fileMAC |-> <<>>, blocks |-> 0, pendingLen |-> 0, chunkIndex |-> 0,
     chunkRemaining |-> MegaChunkSize(0), chunkHasData |-> FALSE]

(* writeChunkBytes: fill pending blocks and mix each one that is full.     *)
WriteChunkBytes(m, n) ==
    [m EXCEPT !.blocks = @ + (m.pendingLen + n) \div BlockSize,
              !.pendingLen = (@ + n) % BlockSize,
              !.chunkHasData = TRUE]

(* Mutant: an empty chunk is mixed in at the end of a file that ends on a  *)
(* boundary.                                                               *)
FinalizeChunkAlways(m) ==
    [m EXCEPT !.fileMAC = Append(@, [blocks |-> m.blocks, tail |-> m.pendingLen]),
              !.pendingLen = 0, !.chunkHasData = FALSE]

(* finalizeChunk: nothing for a chunk without data; a partial block is     *)
(* padded and mixed, then the chunk's MAC is mixed into the file's.        *)
FinalizeChunk(m) ==
    IF m.chunkHasData
      THEN [m EXCEPT !.fileMAC = Append(@, [blocks |-> m.blocks, tail |-> m.pendingLen]),
                     !.pendingLen = 0, !.chunkHasData = FALSE]
      ELSE m

NextChunk(m) ==
    [FinalizeChunk(m) EXCEPT !.chunkIndex = @ + 1, !.blocks = 0,
                             !.chunkRemaining = MegaChunkSize(m.chunkIndex + 1)]

(* How much one round of the loop of Write takes, and what it leaves.      *)
Take(m, n) == IF n > m.chunkRemaining THEN m.chunkRemaining ELSE n

WriteRound(m, take) ==
    LET w == [WriteChunkBytes(m, take) EXCEPT !.chunkRemaining = @ - take] IN
    IF w.chunkRemaining = 0 THEN NextChunk(w) ELSE w

----------------------------------------------------------------------------
(* MEGA's layout: the boundaries of the chunks in closed form, and the MAC *)
(* of a file of n bytes.                                                   *)

ChunkStart(k) == IF k <= 8 THEN Unit * ((k * (k + 1)) \div 2)
                           ELSE Unit * 36 + (k - 8) * (8 * Unit)

ChunkOf(n) == [blocks |-> n \div BlockSize, tail |-> n % BlockSize]

ReferenceMAC(n) ==
    LET full  == Cardinality({k \in 1 .. n : ChunkStart(k) <= n})
        tail  == n - ChunkStart(full)
        whole == [i \in 1 .. full |-> ChunkOf(ChunkStart(i) - ChunkStart(i - 1))]
    IN IF tail = 0 THEN whole ELSE Append(whole, ChunkOf(tail))

----------------------------------------------------------------------------

Init ==
    /\ keyLen \in KeyLengths /\ size \in Sizes
    /\ content \in {"cipher", "damaged"}
    /\ pc = "idle" /\ pos = 0 /\ left = 0
    /\ mac = NewMegaMACCalculator
    /\ temp = NoTemp
    /\ crashes = 0

Goto(next) == pc' = next /\ UNCHANGED <<keyLen, size, content, crashes>>

(* parseMegaContentKey, then the temporary file is created; a later call   *)
(* finds the file as the last one left it.                                 *)
Start ==
    /\ pc \in {"idle", "done", "failed"}
    /\ keyLen \in {16, 32}
    /\ Goto("read")
    /\ pos' = 0 /\ left' = 0 /\ mac' = NewMegaMACCalculator /\ temp' = 0

BadKey ==
    /\ pc \in {"idle", "failed"} /\ keyLen \notin {16, 32}
    /\ Goto("failed")
    /\ UNCHANGED <<pos, left, mac, temp>>

(* in.Read returns n bytes, which are decrypted, authenticated and written *)
(* to the temporary file.                                                  *)
Read(n) ==
    /\ pc = "read" /\ left = 0 /\ pos < size
    /\ LET got == IF n < size - pos THEN n ELSE size - pos IN
         /\ pos' = pos + got /\ temp' = temp + got
         /\ left' = IF Verify THEN got ELSE 0
    /\ Goto("read")
    /\ UNCHANGED mac

(* One round of the loop of macCalc.Write.                                 *)
WriteMAC ==
    /\ pc = "read" /\ left > 0
    /\ LET take == Take(mac, left) IN
         /\ mac' = WriteRound(mac, take)
         /\ left' = left - take
    /\ Goto("read")
    /\ UNCHANGED <<pos, temp>>

(* Mutant: the loop goes on at the end of the file.                        *)
EndOfFileMissed ==
    /\ pc = "read" /\ left = 0 /\ pos = size
    /\ Goto("read")
    /\ UNCHANGED <<pos, left, mac, temp>>

EndOfFile ==
    /\ pc = "read" /\ left = 0 /\ pos = size
    /\ Goto(IF Verify THEN "sum" ELSE "rename")
    /\ UNCHANGED <<pos, left, mac, temp>>

(* The error paths remove the temporary file.                              *)
Fail ==
    /\ Goto("failed")
    /\ temp' = NoTemp
    /\ UNCHANGED <<pos, left, mac>>

(* Sum, compared with the MAC of the key: it is that of the file as it was *)
(* uploaded.                                                               *)
MacMatches == content = "cipher" /\ FinalizeChunk(mac).fileMAC = ReferenceMAC(size)

(* Mutant: the comparison is skipped.                                      *)
CompareMACNever ==
    /\ pc = "sum"
    /\ Goto("rename")
    /\ UNCHANGED <<pos, left, mac, temp>>

CompareMAC ==
    /\ pc = "sum"
    /\ \/ MacMatches /\ Goto("rename") /\ UNCHANGED <<pos, left, mac, temp>>
       \/ ~ MacMatches /\ Fail

(* A read, a write, a sync, a close or the rename fails, or the context is *)
(* cancelled.                                                              *)
IOError == pc \in {"read", "rename"} /\ left = 0 /\ Fail

(* What the key stream makes of the file: applied again it gives back what *)
(* there was, and an empty file is its own decryption.                     *)
Decrypted(c) ==
    IF size = 0 THEN c
    ELSE CASE c = "cipher"  -> "plain"
           [] c = "plain"   -> "cipher"
           [] c = "damaged" -> "garbage"
           [] c = "garbage" -> "damaged"

(* The output takes the place of the download.                             *)
Rename ==
    /\ pc = "rename"
    /\ content' = Decrypted(content)
    /\ pc' = "done" /\ temp' = NoTemp
    /\ UNCHANGED <<keyLen, size, pos, left, mac, crashes>>

(* dlqd dies: the temporary file stays behind and is never looked at.      *)
Crash ==
    /\ crashes < MaxCrashes /\ pc \notin {"idle", "done", "failed"}
    /\ crashes' = crashes + 1
    /\ pc' = "idle" /\ pos' = 0 /\ left' = 0
    /\ mac' = NewMegaMACCalculator /\ temp' = NoTemp
    /\ UNCHANGED <<keyLen, size, content>>

Step ==
    \/ (\E n \in ReadSizes : Read(n)) \/ WriteMAC \/ EndOfFile
    \/ CompareMAC \/ Rename

Next == Start \/ BadKey \/ Step \/ IOError \/ Crash

Spec == Init /\ [][Next]_vars

(* The goroutine that runs the loop is scheduled.                          *)
FairSpec == Spec /\ WF_vars(Step)

----------------------------------------------------------------------------

(***************************************************************************)
(* Finishing the MAC at any moment gives MEGA's MAC of the bytes taken so  *)
(* far: chunks of 1, 2, ... 8 units and then of 8, each cut into blocks of *)
(* its own, no empty chunk at a boundary, whatever sizes the reads had     *)
(* (Write, writeChunkBytes, finalizeChunk).                                *)
(***************************************************************************)
MacOfPrefix ==
    (Verify /\ pc \in {"read", "sum", "rename"}) =>
        FinalizeChunk(mac).fileMAC = ReferenceMAC(pos - left)

(***************************************************************************)
(* The file is replaced only by its whole decryption, and with a key of 32 *)
(* bytes only if it is the ciphertext that was uploaded: after any number  *)
(* of calls, failures and crashes, a damaged download has not been turned  *)
(* into garbage nor a decrypted file back into ciphertext, and no call on  *)
(* either succeeds (decryptMegaFileInPlace).                               *)
(***************************************************************************)
ReplacedOnlyIfVerified ==
    [][(content' # content \/ (pc # "done" /\ pc' = "done")) =>
           temp = size /\ (Verify => content = "cipher")]_vars

(***************************************************************************)
(* The loop ends, so that the goroutine gives its token back: every round  *)
(* of Write takes something (decryptMegaFileInPlace, Write).               *)
(***************************************************************************)
LoopEnds == (pc = "read") ~> (pc # "read")
=============================================================================
