----------------------------- MODULE FlashStore -----------------------------
(***************************************************************************)
(* The records in the badge's flash memory (flash.c).  A record is a       *)
(* header word followed by its data; NVwrite appends one, NVread looks for *)
(* the first.  A write is one NVMWriteWord after another, and power may be *)
(* lost between any two of them.                                           *)
(*                                                                         *)
(* Abstraction.  A word is the three bytes that a header uses of it, data  *)
(* words too, for a scan that goes astray takes data for a header.  All    *)
(* words of a value are the same.  Readers ask for as many bytes as the    *)
(* writer of the key wrote.                                                *)
(*                                                                         *)
(* The searches go on for FLASHSIZE words, four times the page: what       *)
(* follows the page is the rest of G_flashstart and then other constants   *)
(* of the program, which may be anything.                                  *)
(***************************************************************************)
EXTENDS Integers, Sequences

CONSTANTS
  Keys,           \* the pairs of identifiers in use
  Size,           \* bytes that a key's caller writes
  DataWords,      \* words that values are made of
  PageWords,      \* words of a page (256 in the code)
  FLASHSIZE,      \* words that are searched (1024, the bytes of a page)
  Programs,       \* what the program may have in the memory after the page
  MaxWrites       \* bound: writes begun since the last erase

BYTE == 256
Byte == 0..(BYTE - 1)
Word == [appId : Byte, dataId : Byte, dataSize : Byte]
Erased == [appId |-> 255, dataId |-> 255, dataSize |-> 255]
Zero == [appId |-> 0, dataId |-> 0, dataSize |-> 0]

\* Words that hold n bytes.
WordsFor(n) == (n + 3) \div 4

\* A write may begin at the last word searched.
Addr == 0..(FLASHSIZE + 1 + BYTE \div 4)

ASSUME FlashAssumption ==
  /\ Keys \subseteq (0..254) \X Byte /\ \A k \in Keys : Size[k] \in Byte \ {0}
  /\ DataWords \subseteq Word
  /\ Programs \subseteq [Addr -> Word]
  /\ PageWords \in Nat \ {0} /\ FLASHSIZE \in Nat /\ FLASHSIZE >= PageWords
  /\ MaxWrites \in Nat

VARIABLES
  flash,          \* the words from G_flashAddr on, those after the page too
  writing,        \* the NVwrite under way: the header's address, the next
                  \* word's, how many words are left; None if there is none
  writes,         \* for the bound only
  erased          \* history: the page was erased since the badge was programmed

vars == <<flash, writing, writes, erased>>

None == [hdr |-> -1, at |-> 0, left |-> 0, word |-> Zero]

\* The array that holds the page is initialised to zeros.
Init ==
  /\ \E program \in Programs :
       flash = [a \in Addr |-> IF a < PageWords THEN Zero ELSE program[a]]
  /\ writing = None
  /\ writes = 0
  /\ erased = FALSE

\* "Round datablock up to int/4bytes": bytes, but added to a word pointer.
Skipped(size) == (WordsFor(size) * 4) % BYTE

\* Mutant: whole words only.
NextRecordTruncated(a) == a + 1 + flash[a].dataSize \div 4

NextRecord(a) == a + 1 + Skipped(flash[a].dataSize)

Nowhere == -1

\* The first erased header, or nowhere when the search ran out of space.
FreeFrom[a \in Addr] ==
  IF flash[a].appId = 255 THEN a
  ELSE IF NextRecord(a) > FLASHSIZE THEN Nowhere
  ELSE FreeFrom[NextRecord(a)]

\* Mutant: the application alone.
MatchesApp(a, k) == flash[a].appId = k[1]

Matches(a, k) == flash[a].appId = k[1] /\ flash[a].dataId = k[2]

\* The header of the first record of a key.
RecordOf(k) ==
  LET from[a \in Addr] ==
        IF flash[a].appId = 255 THEN Nowhere
        ELSE IF Matches(a, k) THEN a
        ELSE IF NextRecord(a) > FLASHSIZE THEN Nowhere
        ELSE from[NextRecord(a)]
  IN from[0]

Smaller(m, n) == IF m < n THEN m ELSE n

\* The words that NVread copies out.
NVread(k) ==
  LET a == RecordOf(k) IN
    IF a = Nowhere THEN <<>>
    ELSE [i \in 1..WordsFor(Smaller(flash[a].dataSize, Size[k])) |-> flash[a + i]]

\* Bits that are set in both bytes.
And(m, n) ==
  LET bit(b) == b * (((m \div b) % 2) * ((n \div b) % 2)) IN
    bit(1) + bit(2) + bit(4) + bit(8) + bit(16) + bit(32) + bit(64) + bit(128)

\* NVMWriteWord clears bits: an erased word takes what is written, another one
\* what the two have in common.
Programmed(a, w) ==
  [flash EXCEPT ![a] = IF @ = Erased THEN w
                       ELSE [appId |-> And(@.appId, w.appId), dataId |-> And(@.dataId, w.dataId),
                             dataSize |-> And(@.dataSize, w.dataSize)]]

\* NVwrite up to the header.
NVwrite(k) ==
  /\ writing = None /\ writes < MaxWrites
  /\ LET a == FreeFrom[0] IN
       /\ a # Nowhere
       /\ flash' = Programmed(a, [appId |-> k[1], dataId |-> k[2], dataSize |-> Size[k]])
       /\ \E w \in DataWords :
            writing' = [hdr |-> a, at |-> a + 1, left |-> WordsFor(Size[k]), word |-> w]
  /\ writes' = writes + 1
  /\ UNCHANGED erased

\* Mutant: one word too many.
NVwriteDataTooFar ==
  /\ writing # None
  /\ flash' = Programmed(writing.at, writing.word)
  /\ writing' = IF writing.left = 0 THEN None
                ELSE [writing EXCEPT !.at = @ + 1, !.left = @ - 1]
  /\ UNCHANGED <<writes, erased>>

NVwriteData ==
  /\ writing # None
  /\ flash' = Programmed(writing.at, writing.word)
  /\ writing' = IF writing.left = 1 THEN None
                ELSE [writing EXCEPT !.at = @ + 1, !.left = @ - 1]
  /\ UNCHANGED <<writes, erased>>

\* Between two words; the badge starts again and reads.
PowerLoss ==
  /\ writing # None
  /\ writing' = None
  /\ UNCHANGED <<flash, writes, erased>>

flashErasePage ==
  /\ writing = None
  /\ flash' = [a \in Addr |-> IF a < PageWords THEN Erased ELSE flash[a]]
  /\ writes' = 0 /\ erased' = TRUE
  /\ UNCHANGED writing

Next == (\E k \in Keys : NVwrite(k)) \/ NVwriteData \/ PowerLoss \/ flashErasePage

Spec == Init /\ [][Next]_vars

\* The page has room for as many writes as there may be: what a record skips is
\* a whole number of words (from 253 bytes on the unsigned char wraps around).
HasRoom ==
  \E longest \in 0..PageWords :
    /\ \A k \in Keys : Size[k] <= 252 /\ 1 + Skipped(Size[k]) <= longest
    /\ MaxWrites * longest < PageWords

(***************************************************************************)
(* Properties.  They hold if HasRoom.  Before the page is first erased a   *)
(* search runs through its zeros into the program, where it may take       *)
(* anything for a record or for an erased word.                            *)
(***************************************************************************)
\* Types; once the page was erased a write has as many words left as remain to
\* its record's end.
TypeOK ==
  /\ flash \in [Addr -> Word]
  /\ writes \in 0..MaxWrites /\ erased \in BOOLEAN
  /\ \/ writing = None
     \/ /\ writing.hdr \in Addr /\ writing.at \in Addr /\ writing.word \in DataWords
        /\ writing.left > 0
        /\ erased =>
             writing.at + writing.left = writing.hdr + 1 + WordsFor(flash[writing.hdr].dataSize)

\* NVread(k) when the write under way will be over, or has not begun.
Settled(k) == IF writing # None /\ RecordOf(k) = writing.hdr THEN <<>> ELSE NVread(k)

Values(k) == {[i \in 1..WordsFor(Size[k]) |-> w] : w \in DataWords}

Records == INSTANCE RecordStore WITH
  Contents <- Values, Blank <- Erased, formatted <- erased,
  stored <- [k \in Keys |-> IF erased THEN Settled(k) ELSE <<>>]

\* Once the page was erased, NVread returns the first value written under its
\* key since it was last erased, or the beginning of it if power was lost; later
\* writes, of this key or another, complete or not, change nothing.
FirstWriteIsKept == Records!Spec

\* Nothing is written over: NVwrite programs erased words only, so that a record
\* and what was left of an interrupted one stay as they are (NVwrite's search
\* for the end of the data).  Before the page was erased that is so within the
\* page: the search finds nothing in it, and leaves it.
ProgramsErasedWords ==
  [][\A a \in Addr : erased \/ a < PageWords =>
       flash'[a] = flash[a] \/ flash[a] = Erased \/ flash'[a] = Erased]_flash

\* NVwrite writes "within the 2k block we allocated" (flash.c:43), at most the
\* page that it erases.
WritesInPage == erased /\ writing # None => writing.at < PageWords
=============================================================================
