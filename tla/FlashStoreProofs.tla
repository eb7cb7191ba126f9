-------------------------- MODULE FlashStoreProofs --------------------------
(***************************************************************************)
(* That FlashStore keeps the first value of every key, for every set of    *)
(* keys and sizes whose records fit into the page.  The scans of the       *)
(* memory are recursive functions: what they find is proved by induction   *)
(* from the last address down.                                             *)
(***************************************************************************)
EXTENDS FlashStore, LeastTheorems

-----------------------------------------------------------------------------
(* Induction over addresses.                                               *)

(* A set that contains a number whenever it contains all the larger ones.  *)
LEMMA DownwardInduction ==
  ASSUME NEW n \in Nat, NEW S,
         \A a \in 0..n : (\A b \in 0..n : b > a => b \in S) => a \in S
  PROVE  \A a \in 0..n : a \in S
<1> DEFINE T == {n - a : a \in (0..n) \ S}
<1>1. SUFFICES ASSUME T # {} PROVE FALSE OBVIOUS
<1>2. T \in SUBSET Nat OBVIOUS
<1>3. PICK a \in (0..n) \ S : Min(T) = n - a BY <1>1, <1>2, MinIsLeast
<1>4. \A b \in (0..n) \ S : n - a <= n - b BY <1>1, <1>2, <1>3, MinIsLeast
<1>5. \A b \in 0..n : b > a => b \in S BY <1>4
<1> QED BY <1>3, <1>5

(* A scan of the addresses 0..n with results in R: it stops at some of     *)
(* them, with a result, and goes on from the others at the next one.       *)
ScanIsSound(n, R, stop, out, next) ==
  /\ n \in Nat /\ R # {}
  /\ stop \in SUBSET (0..n) /\ out \in [0..n -> R] /\ next \in [0..n -> Nat]
  /\ \A a \in 0..n : a \in stop \/ (next[a] > a /\ next[a] <= n)

IsScan(g, n, R, stop, out, next) ==
  /\ g \in [0..n -> R]
  /\ \A a \in 0..n : g[a] = IF a \in stop THEN out[a] ELSE g[next[a]]

(* A function whose value at an address depends on a later one exists.     *)
LEMMA ScanExists ==
  ASSUME NEW n, NEW R, NEW stop, NEW out, NEW next, ScanIsSound(n, R, stop, out, next)
  PROVE  \E g : IsScan(g, n, R, stop, out, next)
<1> USE DEF ScanIsSound
<1> DEFINE Upto(m, g) == \A a \in 0..n : a >= m => g[a] = IF a \in stop THEN out[a] ELSE g[next[a]]
           S == {m \in 0..n : \E g \in [0..n -> R] : Upto(m, g)}
<1>1. \A m \in 0..n : (\A b \in 0..n : b > m => b \in S) => m \in S
  <2> SUFFICES ASSUME NEW m \in 0..n, \A b \in 0..n : b > m => b \in S
               PROVE  m \in S
    OBVIOUS
  <2>1. PICK g \in [0..n -> R] : Upto(m + 1, g)
    <3>1. CASE m = n
      <4>1. PICK r \in R : TRUE OBVIOUS
      <4>2. [a \in 0..n |-> r] \in [0..n -> R] /\ Upto(m + 1, [a \in 0..n |-> r]) BY <3>1
      <4> QED BY <4>2
    <3>2. CASE m # n
      <4>1. m + 1 \in S
        <5> HIDE DEF S
        <5> QED BY <3>2
      <4> QED BY <4>1
    <3> QED BY <3>1, <3>2
  <2> DEFINE h == [g EXCEPT ![m] = IF m \in stop THEN out[m] ELSE g[next[m]]]
  <2>2. h \in [0..n -> R]
    <3>1. (IF m \in stop THEN out[m] ELSE g[next[m]]) \in R OBVIOUS
    <3> QED BY <3>1
  <2>3. \A a \in 0..n : a > m => h[a] = g[a] OBVIOUS
  <2>4. \A a \in 0..n : a > m => h[a] = IF a \in stop THEN out[a] ELSE h[next[a]]
    <3> SUFFICES ASSUME NEW a \in 0..n, a > m
                 PROVE  h[a] = IF a \in stop THEN out[a] ELSE h[next[a]]
      OBVIOUS
    <3>1. h[a] = g[a] /\ g[a] = IF a \in stop THEN out[a] ELSE g[next[a]] BY <2>1, <2>3
    <3>2. a \notin stop => next[a] \in 0..n /\ next[a] > m OBVIOUS
    <3>3. a \notin stop => h[next[a]] = g[next[a]] BY <2>3, <3>2
    <3> HIDE DEF h
    <3> QED BY <3>1, <3>3
  <2>5. h[m] = IF m \in stop THEN out[m] ELSE h[next[m]]
    <3>1. h[m] = IF m \in stop THEN out[m] ELSE g[next[m]] OBVIOUS
    <3>2. m \notin stop => next[m] \in 0..n /\ next[m] > m OBVIOUS
    <3>3. m \notin stop => h[next[m]] = g[next[m]] BY <2>3, <3>2
    <3> HIDE DEF h
    <3> QED BY <3>1, <3>3
  <2> HIDE DEF h
  <2>6. Upto(m, h) BY <2>4, <2>5
  <2> QED BY <2>2, <2>6
<1>2. 0 \in 0..n OBVIOUS
<1>3. 0 \in S
  <2> HIDE DEF S
  <2> QED BY <1>1, <1>2, DownwardInduction
<1>4. PICK g \in [0..n -> R] : Upto(0, g) BY <1>3
<1>5. \A a \in 0..n : g[a] = IF a \in stop THEN out[a] ELSE g[next[a]] BY <1>4
<1> QED BY <1>4, <1>5 DEF IsScan

-----------------------------------------------------------------------------
(* The scans.                                                              *)

LastAddr == FLASHSIZE + 1 + BYTE \div 4

(* A scan that is not over goes on at a later address.                     *)
LEMMA ScanGoesOn ==
  ASSUME flash \in [Addr -> Word]
  PROVE  /\ LastAddr \in Nat /\ Addr = 0..LastAddr /\ LastAddr > FLASHSIZE
         /\ \A a \in Addr : /\ flash[a].dataSize \in Byte /\ NextRecord(a) \in Nat
                            /\ NextRecord(a) > a
<1>1. LastAddr \in Nat /\ Addr = 0..LastAddr /\ LastAddr > FLASHSIZE
  BY FlashAssumption DEF LastAddr, Addr, BYTE
<1>2. \A n \in Byte : Skipped(n) \in Nat BY DEF Skipped, WordsFor, Byte, BYTE
<1>3. \A a \in Addr : flash[a].dataSize \in Byte BY DEF Word
<1>4. ASSUME NEW a \in Addr PROVE NextRecord(a) \in Nat /\ NextRecord(a) > a
  <2>1. Skipped(flash[a].dataSize) \in Nat BY <1>2, <1>3
  <2> HIDE DEF Skipped
  <2> QED BY <1>1, <2>1 DEF NextRecord
<1> QED BY <1>1, <1>3, <1>4

(* What FreeFrom is.                                                       *)
LEMMA FreeFromEquation ==
  flash \in [Addr -> Word] =>
    \A a \in Addr :
      FreeFrom[a] = IF flash[a].appId = 255 THEN a
                    ELSE IF NextRecord(a) > FLASHSIZE THEN Nowhere
                    ELSE FreeFrom[NextRecord(a)]
<1> SUFFICES ASSUME flash \in [Addr -> Word]
             PROVE  \A a \in Addr :
                      FreeFrom[a] = IF flash[a].appId = 255 THEN a
                                    ELSE IF NextRecord(a) > FLASHSIZE THEN Nowhere
                                    ELSE FreeFrom[NextRecord(a)]
  OBVIOUS
<1> DEFINE stop == {a \in 0..LastAddr : flash[a].appId = 255 \/ NextRecord(a) > FLASHSIZE}
           out == [a \in 0..LastAddr |-> IF flash[a].appId = 255 THEN a ELSE Nowhere]
           next == [a \in 0..LastAddr |-> NextRecord(a)]
           R == Addr \cup {Nowhere}
<1>1. /\ LastAddr \in Nat /\ Addr = 0..LastAddr /\ LastAddr > FLASHSIZE /\ FLASHSIZE \in Nat
      /\ \A a \in Addr : NextRecord(a) \in Nat /\ NextRecord(a) > a
  BY ScanGoesOn, FlashAssumption
<1> HIDE DEF LastAddr, Addr, NextRecord
<1>2. /\ R # {} /\ stop \in SUBSET (0..LastAddr) /\ out \in [0..LastAddr -> R]
      /\ next \in [0..LastAddr -> Nat]
  BY <1>1
<1>3. \A a \in 0..LastAddr : a \in stop \/ (next[a] > a /\ next[a] <= LastAddr) BY <1>1
<1> HIDE DEF stop, out, next, R
<1>4. PICK g : IsScan(g, LastAddr, R, stop, out, next)
  <2>1. ScanIsSound(LastAddr, R, stop, out, next) BY <1>1, <1>2, <1>3 DEF ScanIsSound
  <2> QED BY <2>1, ScanExists
<1>5. g = [a \in Addr |-> IF flash[a].appId = 255 THEN a
                          ELSE IF NextRecord(a) > FLASHSIZE THEN Nowhere
                          ELSE g[NextRecord(a)]]
  BY <1>1, <1>4 DEF stop, out, next, IsScan
<1>6. FreeFrom = [a \in Addr |-> IF flash[a].appId = 255 THEN a
                                 ELSE IF NextRecord(a) > FLASHSIZE THEN Nowhere
                                 ELSE FreeFrom[NextRecord(a)]]
  BY <1>5 DEF FreeFrom
<1> QED BY <1>6

(* The search for the first record of a key.                               *)
Search(k, g) ==
  g = [a \in Addr |-> IF flash[a].appId = 255 THEN Nowhere
                      ELSE IF Matches(a, k) THEN a
                      ELSE IF NextRecord(a) > FLASHSIZE THEN Nowhere
                      ELSE g[NextRecord(a)]]

(* RecordOf is such a search.                                              *)
LEMMA RecordOfSearches ==
  ASSUME flash \in [Addr -> Word], NEW k
  PROVE  \E g \in [Addr -> Addr \cup {Nowhere}] : Search(k, g) /\ RecordOf(k) = g[0]
<1> DEFINE found(a) == flash[a].appId # 255 /\ Matches(a, k)
           stop == {a \in 0..LastAddr : flash[a].appId = 255 \/ found(a) \/ NextRecord(a) > FLASHSIZE}
           out == [a \in 0..LastAddr |-> IF found(a) THEN a ELSE Nowhere]
           next == [a \in 0..LastAddr |-> NextRecord(a)]
           R == Addr \cup {Nowhere}
<1>1. /\ LastAddr \in Nat /\ Addr = 0..LastAddr /\ LastAddr > FLASHSIZE /\ FLASHSIZE \in Nat
      /\ \A a \in Addr : NextRecord(a) \in Nat /\ NextRecord(a) > a
  BY ScanGoesOn, FlashAssumption
<1> HIDE DEF LastAddr, Addr, NextRecord
<1>2. /\ R # {} /\ stop \in SUBSET (0..LastAddr) /\ out \in [0..LastAddr -> R]
      /\ next \in [0..LastAddr -> Nat]
  BY <1>1 DEF Matches
<1>3. \A a \in 0..LastAddr : a \in stop \/ (next[a] > a /\ next[a] <= LastAddr) BY <1>1
<1> HIDE DEF stop, out, next, R
<1>4. PICK g : IsScan(g, LastAddr, R, stop, out, next)
  <2>1. ScanIsSound(LastAddr, R, stop, out, next) BY <1>1, <1>2, <1>3 DEF ScanIsSound
  <2> QED BY <2>1, ScanExists
<1>5. Search(k, g)
  <2>1. g = [a \in 0..LastAddr |-> g[a]] BY <1>4 DEF IsScan
  <2>2. ASSUME NEW a \in 0..LastAddr
        PROVE  g[a] = IF flash[a].appId = 255 THEN Nowhere
                      ELSE IF Matches(a, k) THEN a
                      ELSE IF NextRecord(a) > FLASHSIZE THEN Nowhere
                      ELSE g[NextRecord(a)]
    BY <1>1, <1>4 DEF stop, out, next, IsScan
  <2>3. Addr = 0..LastAddr BY <1>1
  <2> HIDE DEF Matches
  <2> QED BY <2>1, <2>2, <2>3 DEF Search
<1> DEFINE from == CHOOSE f : Search(k, f)
<1>6. Search(k, from) BY <1>5
<1>7. RecordOf(k) = from[0] BY DEF RecordOf, Search
<1>8. from \in [Addr -> Addr \cup {Nowhere}]
  <2> HIDE DEF from
  <2> DEFINE S == {a \in Addr : from[a] \in Addr \cup {Nowhere}}
  <2>1. \A a \in 0..LastAddr : (\A b \in 0..LastAddr : b > a => b \in S) => a \in S
    BY <1>1, <1>6 DEF Search
  <2> HIDE DEF S
  <2>2. \A a \in 0..LastAddr : a \in S BY <1>1, <2>1, DownwardInduction
  <2> QED BY <1>1, <1>6, <2>2 DEF Search, S
<1> HIDE DEF from
<1> QED BY <1>6, <1>7, <1>8

-----------------------------------------------------------------------------
(* The chain of records.                                                   *)

Header(k) == [appId |-> k[1], dataId |-> k[2], dataSize |-> Size[k]]

(* The numbers of a key's record: its data is shorter than what is skipped.*)
LEMMA HeaderShape ==
  ASSUME HasRoom, NEW k \in Keys
  PROVE  /\ Header(k) \in Word /\ Header(k) # Erased /\ k[1] # 255
         /\ Header(k).appId = k[1] /\ Header(k).dataId = k[2] /\ Header(k).dataSize = Size[k]
         /\ WordsFor(Size[k]) \in Nat \ {0}
         /\ Skipped(Size[k]) \in Nat /\ WordsFor(Size[k]) <= Skipped(Size[k])
<1>1. k[1] \in 0..254 /\ k[2] \in Byte /\ Size[k] \in Byte \ {0} BY FlashAssumption
<1>2. Size[k] \in 1..252 BY <1>1 DEF HasRoom, Byte, BYTE
<1>3. /\ WordsFor(Size[k]) \in Nat \ {0}
      /\ Skipped(Size[k]) \in Nat /\ WordsFor(Size[k]) <= Skipped(Size[k])
  <2> DEFINE q == WordsFor(Size[k])
  <2>1. q \in Nat \ {0} /\ 4 * q <= Size[k] + 3 BY <1>2 DEF WordsFor
  <2> HIDE DEF q
  <2>2. 4 * q \in 0..255 BY <1>2, <2>1
  <2>3. (q * 4) % 256 = 4 * q BY <2>1, <2>2
  <2>4. Skipped(Size[k]) = 4 * q BY <2>3 DEF Skipped, BYTE, q
  <2> QED BY <2>1, <2>4 DEF q
<1>4. Header(k) \in Word /\ Header(k) # Erased BY <1>1 DEF Header, Word, Erased, Byte, BYTE
<1> QED BY <1>1, <1>3, <1>4 DEF Header

\* H are the headers of the records, F is the first free word of the page.
Chain(H, F) ==
  /\ H \subseteq 0..(F - 1) /\ F \in 0..(PageWords - 1)
  /\ 0 \in H \cup {F}
  /\ \A h \in H : /\ \E k \in Keys : flash[h] = Header(k)
                  /\ NextRecord(h) \in H \cup {F}
                  /\ \A j \in H : j > h => j >= NextRecord(h)
  /\ \A a \in F..(PageWords - 1) : flash[a] = Erased

\* r is the first record of k among H, or nowhere.
IsFirst(H, k, r) ==
  \/ r = Nowhere /\ \A h \in H : ~Matches(h, k)
  \/ r \in H /\ Matches(r, k) /\ \A h \in H : Matches(h, k) => r <= h

(* Where a chain's records are, and what is between them.                  *)
LEMMA ChainShape ==
  ASSUME HasRoom, flash \in [Addr -> Word], NEW H, NEW F, Chain(H, F)
  PROVE  /\ F \in Nat /\ F < PageWords /\ F <= FLASHSIZE /\ 0..F \subseteq Addr
         /\ F \in Addr /\ H \subseteq Addr /\ H \subseteq 0..(F - 1)
         /\ flash[F] = Erased
         /\ \A h \in H : /\ h \in Nat /\ h < F /\ flash[h].appId # 255
                         /\ NextRecord(h) \in H \cup {F} /\ NextRecord(h) \in Nat
                         /\ h < NextRecord(h) /\ NextRecord(h) <= F
                         /\ WordsFor(flash[h].dataSize) \in Nat \ {0}
                         /\ h + WordsFor(flash[h].dataSize) < NextRecord(h)
<1>1. PageWords \in Nat /\ FLASHSIZE \in Nat /\ PageWords <= FLASHSIZE BY FlashAssumption
<1>2. F \in 0..(PageWords - 1) /\ H \subseteq 0..(F - 1) BY DEF Chain
<1>3. F \in Nat /\ F < PageWords /\ F <= FLASHSIZE BY <1>1, <1>2
<1>4. 0..F \subseteq Addr BY <1>1, <1>3, ScanGoesOn
<1>5. F \in Addr /\ H \subseteq Addr BY <1>2, <1>3, <1>4
<1>6. flash[F] = Erased
  <2>1. F \in F..(PageWords - 1) BY <1>1, <1>2
  <2> QED BY <2>1 DEF Chain
<1>7. ASSUME NEW h \in H
      PROVE  /\ h \in Nat /\ h < F /\ flash[h].appId # 255
             /\ NextRecord(h) \in H \cup {F} /\ NextRecord(h) \in Nat
             /\ h < NextRecord(h) /\ NextRecord(h) <= F
             /\ WordsFor(flash[h].dataSize) \in Nat \ {0}
             /\ h + WordsFor(flash[h].dataSize) < NextRecord(h)
  <2>1. PICK k \in Keys : flash[h] = Header(k) BY DEF Chain
  <2>2. h \in Nat /\ h < F BY <1>2, <1>3
  <2>3. NextRecord(h) = h + 1 + Skipped(Size[k]) BY <2>1, HeaderShape DEF NextRecord
  <2>4. NextRecord(h) \in H \cup {F} BY DEF Chain
  <2>5. NextRecord(h) \in Nat /\ NextRecord(h) <= F
    <3>1. \A x \in H \cup {F} : x \in Nat /\ x <= F BY <1>2, <1>3
    <3> QED BY <2>4, <3>1
  <2> HIDE DEF NextRecord
  <2>6. h + WordsFor(Size[k]) < NextRecord(h) /\ h < NextRecord(h)
    BY <2>2, <2>3, HeaderShape
  <2> QED BY <2>1, <2>2, <2>4, <2>5, <2>6, HeaderShape
<1> QED BY <1>2, <1>3, <1>4, <1>5, <1>6, <1>7

(* The search for a free word ends at the end of the chain.                *)
LEMMA ChainEndsAtFree ==
  ASSUME HasRoom, flash \in [Addr -> Word], NEW H, NEW F, Chain(H, F)
  PROVE  FreeFrom[0] = F
<1> DEFINE S == {a \in 0..F : a \in H \cup {F} => FreeFrom[a] = F}
<1>1. F \in Nat /\ 0 \in H \cup {F} BY ChainShape DEF Chain
<1>2. \A a \in 0..F : (\A b \in 0..F : b > a => b \in S) => a \in S
  <2> SUFFICES ASSUME NEW a \in 0..F, \A b \in 0..F : b > a => b \in S, a \in H \cup {F}
               PROVE  FreeFrom[a] = F
    OBVIOUS
  <2>1. a \in Addr BY ChainShape
  <2>2. CASE a = F
    <3>1. flash[a].appId = 255 BY <2>2, ChainShape DEF Erased
    <3> QED BY <2>1, <2>2, <3>1, FreeFromEquation
  <2>3. CASE a \in H
    <3>1. /\ flash[a].appId # 255 /\ NextRecord(a) \in H \cup {F} /\ NextRecord(a) > a
          /\ NextRecord(a) \in Nat /\ NextRecord(a) <= F /\ F <= FLASHSIZE
      BY <2>3, ChainShape
    <3>2. FreeFrom[a] = FreeFrom[NextRecord(a)]
      <4>1. ~(NextRecord(a) > FLASHSIZE) BY <1>1, <3>1, FlashAssumption
      <4> QED BY <2>1, <3>1, <4>1, FreeFromEquation
    <3>3. NextRecord(a) \in S BY <1>1, <3>1
    <3> QED BY <3>1, <3>2, <3>3
  <2> QED BY <2>2, <2>3
<1>3. 0 \in S
  <2> HIDE DEF S
  <2>1. \A a \in 0..F : a \in S BY <1>1, <1>2, DownwardInduction
  <2> QED BY <1>1, <2>1
<1> QED BY <1>1, <1>3

(* The search for a record finds the first one.                            *)
LEMMA ChainHasFirst ==
  ASSUME HasRoom, flash \in [Addr -> Word], NEW H, NEW F, Chain(H, F), NEW k \in Keys
  PROVE  IsFirst(H, k, RecordOf(k))
<1> DEFINE From(a, r) == \/ r = Nowhere /\ \A h \in H : h >= a => ~Matches(h, k)
                         \/ /\ r \in H /\ r >= a /\ Matches(r, k)
                            /\ \A h \in H : h >= a /\ Matches(h, k) => r <= h
<1>1. PICK g : Search(k, g) /\ RecordOf(k) = g[0] BY RecordOfSearches
<1> DEFINE S == {a \in 0..F : a \in H \cup {F} => From(a, g[a])}
<1>2. F \in Nat /\ 0 \in H \cup {F} BY ChainShape DEF Chain
<1>3. \A a \in 0..F : (\A b \in 0..F : b > a => b \in S) => a \in S
  <2> SUFFICES ASSUME NEW a \in 0..F, \A b \in 0..F : b > a => b \in S, a \in H \cup {F}
               PROVE  From(a, g[a])
    OBVIOUS
  <2>1. a \in Addr BY ChainShape
  <2>2. g[a] = IF flash[a].appId = 255 THEN Nowhere
               ELSE IF Matches(a, k) THEN a
               ELSE IF NextRecord(a) > FLASHSIZE THEN Nowhere
               ELSE g[NextRecord(a)]
    BY <1>1, <2>1 DEF Search
  <2>3. CASE a = F
    <3>1. g[a] = Nowhere BY <2>2, <2>3, ChainShape DEF Erased
    <3>2. \A h \in H : ~(h >= a) BY <2>3, ChainShape
    <3> QED BY <3>1, <3>2
  <2>4. CASE a \in H
    <3>1. /\ flash[a].appId # 255 /\ NextRecord(a) \in H \cup {F} /\ NextRecord(a) > a
          /\ NextRecord(a) \in Nat /\ NextRecord(a) <= F /\ F <= FLASHSIZE
      BY <2>4, ChainShape
    <3>2. CASE Matches(a, k)
      <4>1. g[a] = a BY <2>2, <3>1, <3>2
      <4>2. a >= a /\ \A h \in H : h >= a /\ Matches(h, k) => a <= h BY ChainShape
      <4> QED BY <2>4, <3>2, <4>1, <4>2
    <3>3. CASE ~Matches(a, k)
      <4>1. ~(NextRecord(a) > FLASHSIZE) BY <1>2, <3>1, FlashAssumption
      <4>2. g[a] = g[NextRecord(a)] BY <2>2, <3>1, <3>3, <4>1
      <4>3. From(NextRecord(a), g[NextRecord(a)])
        <5>1. NextRecord(a) \in S BY <1>2, <3>1
        <5> HIDE DEF From
        <5> QED BY <3>1, <5>1
      <4>4. \A h \in H : h \in Nat /\ (h >= a => h = a \/ h >= NextRecord(a))
        BY <2>4, ChainShape DEF Chain
      <4>5. \A h \in H : h >= NextRecord(a) => h >= a BY <3>1, <4>4
      <4> HIDE DEF NextRecord, Matches
      <4> QED BY <3>3, <4>2, <4>3, <4>4, <4>5
    <3> QED BY <3>2, <3>3
  <2> QED BY <2>3, <2>4
<1>4. 0 \in S
  <2> HIDE DEF S
  <2>1. \A a \in 0..F : a \in S BY <1>2, <1>3, DownwardInduction
  <2> QED BY <1>2, <2>1
<1>5. From(0, g[0]) BY <1>2, <1>4
<1>6. \A h \in H : h >= 0 BY ChainShape
<1> QED BY <1>1, <1>5, <1>6 DEF IsFirst

-----------------------------------------------------------------------------
(* The invariant.                                                          *)

\* The write under way is that of the last record: the words before `at` are
\* written, the others are not.
WritingInv(H, F) ==
  writing # None =>
    LET hdr == writing.hdr  at == writing.at IN
    /\ hdr \in H /\ NextRecord(hdr) = F
    /\ writing.word \in DataWords
    /\ at \in Nat /\ writing.left \in Nat \ {0} /\ at > hdr
    /\ at + writing.left = hdr + 1 + WordsFor(flash[hdr].dataSize)
    /\ \A a \in (hdr + 1)..(at - 1) : flash[a] = writing.word
    /\ \A a \in at..(at + writing.left - 1) : flash[a] = Erased

\* Before the page is erased for the first time: what is written goes behind it.
Unformatted ==
  /\ \A a \in 0..(PageWords - 1) : flash[a] = Zero
  /\ writing # None =>
       /\ writing.hdr \in PageWords..FLASHSIZE /\ writing.at > writing.hdr
       /\ writing.left \in Nat \ {0} /\ writing.at + writing.left <= LastAddr
       /\ writing.word \in DataWords

\* The words of the longest record.
Longest ==
  CHOOSE longest \in 0..PageWords :
    /\ \A k \in Keys : Size[k] <= 252 /\ 1 + Skipped(Size[k]) <= longest
    /\ MaxWrites * longest < PageWords

\* No more is filled than the writes since the last erase can have filled.
Filled(H, F) ==
  Chain(H, F) /\ F <= writes * Longest /\ WritingInv(H, F)

\* The inductive invariant: the page was never erased and is still zeros, or
\* holds a chain of records with nothing but erased words behind it.
StoreInv ==
  /\ flash \in [Addr -> Word] /\ writes \in 0..MaxWrites /\ erased \in BOOLEAN
  /\ writing \in [hdr : Addr \cup {Nowhere}, at : Nat, left : Nat, word : Word]
  /\ erased => \E H \in SUBSET Addr, F \in Addr : Filled(H, F)
  /\ ~erased => Unformatted

\* However many writes were made, another word is free (HasRoom).
LEMMA RoomForLongest ==
  ASSUME HasRoom
  PROVE  /\ Longest \in Nat /\ MaxWrites * Longest < PageWords
         /\ \A k \in Keys : 1 + Skipped(Size[k]) <= Longest
         /\ \A n \in 0..MaxWrites : n * Longest < PageWords
<1>1. /\ Longest \in 0..PageWords /\ MaxWrites * Longest < PageWords
      /\ \A k \in Keys : 1 + Skipped(Size[k]) <= Longest
  BY DEF HasRoom, Longest
<1> HIDE DEF Longest
<1>2. ASSUME NEW n \in 0..MaxWrites PROVE n * Longest < PageWords
  <2>1. MaxWrites \in Nat /\ PageWords \in Nat /\ Longest \in Nat BY <1>1, FlashAssumption
  <2>2. MaxWrites * Longest = n * Longest + (MaxWrites - n) * Longest BY <2>1
  <2>3. (MaxWrites - n) * Longest \in Nat BY <2>1
  <2>4. n * Longest \in Nat BY <2>1
  <2> QED BY <1>1, <2>1, <2>2, <2>3, <2>4
<1> QED BY <1>1, <1>2, FlashAssumption

(* At the start the invariant holds.                                       *)
LEMMA InitInv == Init => StoreInv
<1> SUFFICES ASSUME Init PROVE StoreInv OBVIOUS
<1>1. /\ MaxWrites \in Nat /\ PageWords \in Nat /\ FLASHSIZE \in Nat /\ PageWords <= FLASHSIZE
      /\ LastAddr \in Nat /\ Addr = 0..LastAddr /\ LastAddr > FLASHSIZE
  <2>1. LastAddr \in Nat /\ Addr = 0..LastAddr /\ LastAddr > FLASHSIZE
    BY FlashAssumption DEF LastAddr, Addr, BYTE
  <2> QED BY <2>1, FlashAssumption
<1>2. Zero \in Word BY DEF Zero, Word, Byte, BYTE
<1>3. PICK program \in [Addr -> Word] :
        flash = [a \in Addr |-> IF a < PageWords THEN Zero ELSE program[a]]
  BY FlashAssumption DEF Init
<1>4. flash \in [Addr -> Word] BY <1>2, <1>3
<1>5. \A a \in 0..(PageWords - 1) : flash[a] = Zero
  <2>1. \A a \in 0..(PageWords - 1) : a \in Addr /\ a < PageWords BY <1>1
  <2> QED BY <1>3, <2>1
<1>6. writing \in [hdr : Addr \cup {Nowhere}, at : Nat, left : Nat, word : Word]
  BY <1>2 DEF Init, None, Nowhere
<1>7. writing = None /\ writes \in 0..MaxWrites /\ erased = FALSE BY <1>1 DEF Init
<1> QED BY <1>4, <1>5, <1>6, <1>7 DEF StoreInv, Unformatted

(* Before the page is erased the search for a free word leaves it.         *)
LEMMA NoRoomInZeros ==
  ASSUME flash \in [Addr -> Word], \A a \in 0..(PageWords - 1) : flash[a] = Zero
  PROVE  FreeFrom[0] = Nowhere \/ FreeFrom[0] \in PageWords..FLASHSIZE
<1> DEFINE S == {a \in 0..FLASHSIZE : FreeFrom[a] = Nowhere \/ FreeFrom[a] \in PageWords..FLASHSIZE}
<1>1. /\ FLASHSIZE \in Nat /\ PageWords \in Nat /\ \A a \in 0..FLASHSIZE : a \in Addr
      /\ \A a \in Addr : NextRecord(a) \in Nat /\ NextRecord(a) > a
  BY FlashAssumption, ScanGoesOn
<1>2. \A a \in 0..FLASHSIZE : (\A b \in 0..FLASHSIZE : b > a => b \in S) => a \in S
  <2> SUFFICES ASSUME NEW a \in 0..FLASHSIZE, \A b \in 0..FLASHSIZE : b > a => b \in S
               PROVE  FreeFrom[a] = Nowhere \/ FreeFrom[a] \in PageWords..FLASHSIZE
    OBVIOUS
  <2>1. a \in Addr /\ NextRecord(a) \in Nat /\ NextRecord(a) > a BY <1>1
  <2>2. CASE flash[a].appId = 255
    <3>1. a \notin 0..(PageWords - 1) BY <2>2 DEF Zero
    <3>2. a \in PageWords..FLASHSIZE BY <1>1, <3>1
    <3> QED BY <2>1, <2>2, <3>2, FreeFromEquation
  <2>3. CASE flash[a].appId # 255 /\ NextRecord(a) > FLASHSIZE
    BY <2>1, <2>3, FreeFromEquation
  <2>4. CASE flash[a].appId # 255 /\ ~(NextRecord(a) > FLASHSIZE)
    <3>1. NextRecord(a) \in S BY <1>1, <2>1, <2>4
    <3>2. FreeFrom[a] = FreeFrom[NextRecord(a)] BY <2>1, <2>4, FreeFromEquation
    <3> QED BY <3>1, <3>2
  <2> QED BY <2>2, <2>3, <2>4
<1>3. 0 \in S
  <2> HIDE DEF S
  <2>1. FLASHSIZE \in Nat /\ 0 \in 0..FLASHSIZE BY <1>1
  <2>2. \A a \in 0..FLASHSIZE : a \in S BY <1>2, <2>1, DownwardInduction
  <2> QED BY <2>1, <2>2
<1> QED BY <1>3

(* What two bytes have in common is a byte.                                *)
LEMMA AndIsByte ==
  ASSUME NEW m \in Byte, NEW n \in Byte
  PROVE  And(m, n) \in Byte
<1> DEFINE t(b) == ((m \div b) % 2) * ((n \div b) % 2)
<1>1. m \in Nat /\ n \in Nat BY DEF Byte, BYTE
<1>2. \A x, y \in Nat : (x % 2) * (y % 2) \in {0, 1}
  <2> SUFFICES ASSUME NEW x \in Nat, NEW y \in Nat PROVE (x % 2) * (y % 2) \in {0, 1} OBVIOUS
  <2>1. x % 2 \in {0, 1} /\ y % 2 \in {0, 1} OBVIOUS
  <2> QED BY <2>1
<1>3. t(1) \in {0, 1} BY <1>1, <1>2
<1>4. t(2) \in {0, 1} BY <1>1, <1>2
<1>5. t(4) \in {0, 1} BY <1>1, <1>2
<1>6. t(8) \in {0, 1} BY <1>1, <1>2
<1>7. t(16) \in {0, 1} BY <1>1, <1>2
<1>8. t(32) \in {0, 1} BY <1>1, <1>2
<1>9. t(64) \in {0, 1} BY <1>1, <1>2
<1>10. t(128) \in {0, 1} BY <1>1, <1>2
<1>11. And(m, n) = 1 * t(1) + 2 * t(2) + 4 * t(4) + 8 * t(8) + 16 * t(16) + 32 * t(32)
                   + 64 * t(64) + 128 * t(128)
  BY DEF And
<1> HIDE DEF t
<1> QED BY <1>3, <1>4, <1>5, <1>6, <1>7, <1>8, <1>9, <1>10, <1>11 DEF Byte, BYTE

(* Programming a word leaves the others alone.                             *)
LEMMA ProgramsOne ==
  ASSUME NEW a \in Addr, NEW w \in Word, flash \in [Addr -> Word], flash' = Programmed(a, w)
  PROVE  flash' \in [Addr -> Word] /\ \A b \in Addr : b # a => flash'[b] = flash[b]
<1> DEFINE both == [appId |-> And(flash[a].appId, w.appId),
                    dataId |-> And(flash[a].dataId, w.dataId),
                    dataSize |-> And(flash[a].dataSize, w.dataSize)]
<1>1. flash[a] \in Word OBVIOUS
<1>2. both \in Word
  <2>1. /\ flash[a].appId \in Byte /\ flash[a].dataId \in Byte /\ flash[a].dataSize \in Byte
        /\ w.appId \in Byte /\ w.dataId \in Byte /\ w.dataSize \in Byte
    BY <1>1 DEF Word
  <2> QED BY <2>1, AndIsByte DEF Word
<1>3. flash' = [flash EXCEPT ![a] = IF flash[a] = Erased THEN w ELSE both] BY DEF Programmed
<1> HIDE DEF both
<1> QED BY <1>2, <1>3

(* Before the page is erased for the first time no step but the erasure    *)
(* writes into it.                                                         *)
LEMMA PageIsLeftAlone ==
  ASSUME StoreInv, ~erased, (\E k \in Keys : NVwrite(k)) \/ NVwriteData \/ PowerLoss
  PROVE  StoreInv' /\ ~erased' /\ \A a \in 0..(PageWords - 1) : flash'[a] = flash[a]
<1> DEFINE Writing == [hdr : Addr \cup {Nowhere}, at : Nat, left : Nat, word : Word]
<1>1. /\ PageWords \in Nat /\ FLASHSIZE \in Nat /\ PageWords <= FLASHSIZE /\ MaxWrites \in Nat
      /\ DataWords \subseteq Word
      /\ flash \in [Addr -> Word] /\ writes \in 0..MaxWrites /\ writing \in Writing
      /\ Unformatted
  BY FlashAssumption DEF StoreInv
<1>2. LastAddr \in Nat /\ Addr = 0..LastAddr /\ LastAddr = FLASHSIZE + 65
  BY <1>1, ScanGoesOn DEF LastAddr, BYTE
<1>3. Zero \in Word BY DEF Zero, Word, Byte, BYTE
<1>4. SUFFICES /\ flash' \in [Addr -> Word] /\ writes' \in 0..MaxWrites /\ erased' = FALSE
               /\ writing' \in Writing
               /\ \A a \in 0..(PageWords - 1) : flash'[a] = flash[a]
               /\ writing' # None =>
                    /\ writing'.hdr \in PageWords..FLASHSIZE /\ writing'.at > writing'.hdr
                    /\ writing'.left \in Nat \ {0} /\ writing'.at + writing'.left <= LastAddr
                    /\ writing'.word \in DataWords
  BY <1>1 DEF StoreInv, Unformatted
<1> HIDE DEF LastAddr, Addr
<1>5. ASSUME NEW k \in Keys, NVwrite(k)
      PROVE  /\ flash' \in [Addr -> Word] /\ writes' \in 0..MaxWrites /\ erased' = FALSE
             /\ writing' \in Writing
             /\ \A a \in 0..(PageWords - 1) : flash'[a] = flash[a]
             /\ writing'.hdr \in PageWords..FLASHSIZE /\ writing'.at > writing'.hdr
             /\ writing'.left \in Nat \ {0} /\ writing'.at + writing'.left <= LastAddr
             /\ writing'.word \in DataWords
  <2>1. FreeFrom[0] \in PageWords..FLASHSIZE
    BY <1>1, <1>5, NoRoomInZeros DEF Unformatted, NVwrite
  <2>2. PICK w \in DataWords :
          writing' = [hdr |-> FreeFrom[0], at |-> FreeFrom[0] + 1,
                      left |-> WordsFor(Size[k]), word |-> w]
    BY <1>5 DEF NVwrite
  <2>3. /\ Size[k] \in 1..255 /\ k[1] \in Byte /\ k[2] \in Byte
    BY FlashAssumption DEF Byte, BYTE
  <2>4. WordsFor(Size[k]) \in 1..64 BY <2>3 DEF WordsFor
  <2> DEFINE header == [appId |-> k[1], dataId |-> k[2], dataSize |-> Size[k]]
  <2>5. header \in Word BY <2>3 DEF Word, Byte, BYTE
  <2>6. flash' = Programmed(FreeFrom[0], header) BY <1>5 DEF NVwrite
  <2>7. FreeFrom[0] \in Addr BY <1>1, <1>2, <2>1
  <2> HIDE DEF header, FreeFrom
  <2>8. flash' \in [Addr -> Word] /\ \A b \in Addr : b # FreeFrom[0] => flash'[b] = flash[b]
    BY <1>1, <2>5, <2>6, <2>7, ProgramsOne
  <2>9. \A a \in 0..(PageWords - 1) : a \in Addr /\ a # FreeFrom[0] BY <1>1, <1>2, <2>1
  <2>10. writes' \in 0..MaxWrites /\ erased' = FALSE BY <1>1, <1>5 DEF NVwrite, StoreInv
  <2>11. writing' \in Writing
    <3>1. /\ FreeFrom[0] + 1 \in Nat /\ WordsFor(Size[k]) \in Nat /\ w \in Word
      BY <1>1, <2>1, <2>4
    <3> HIDE DEF WordsFor
    <3> QED BY <2>2, <2>7, <3>1
  <2>12. /\ writing'.hdr = FreeFrom[0] /\ writing'.at = FreeFrom[0] + 1
         /\ writing'.left = WordsFor(Size[k]) /\ writing'.word = w
    BY <2>2
  <2> HIDE DEF WordsFor
  <2>13. /\ writing'.hdr \in PageWords..FLASHSIZE /\ writing'.at > writing'.hdr
         /\ writing'.left \in Nat \ {0} /\ writing'.at + writing'.left <= LastAddr
         /\ writing'.word \in DataWords
    <3>1. PICK f \in PageWords..FLASHSIZE : f = FreeFrom[0] BY <2>1
    <3>2. PICK n \in 1..64 : n = WordsFor(Size[k]) BY <2>4
    <3>3. PageWords \in Nat /\ FLASHSIZE \in Nat /\ LastAddr = FLASHSIZE + 65 BY <1>1, <1>2
    <3>4. f \in Nat /\ f + 1 > f /\ f <= FLASHSIZE BY <3>3
    <3>5. n \in Nat \ {0} /\ n <= 64 BY <3>3
    <3>6. f + 1 + n <= LastAddr BY <3>3, <3>4, <3>5
    <3> QED BY <2>12, <3>1, <3>2, <3>4, <3>5, <3>6
  <2>14. \A a \in 0..(PageWords - 1) : flash'[a] = flash[a] BY <2>8, <2>9
  <2> QED BY <2>8, <2>10, <2>11, <2>13, <2>14
<1>6. CASE NVwriteData
  <2> DEFINE at == writing.at
  <2>1. /\ writing # None /\ flash' = Programmed(at, writing.word)
        /\ writes' = writes /\ erased' = FALSE
    BY <1>6 DEF NVwriteData, StoreInv
  <2>2. /\ writing.hdr \in PageWords..FLASHSIZE /\ at > writing.hdr /\ at \in Nat
        /\ writing.left \in Nat \ {0} /\ at + writing.left <= LastAddr
        /\ writing.word \in DataWords
    BY <1>1, <2>1 DEF Unformatted
  <2>3. at \in Addr /\ writing.word \in Word BY <1>1, <1>2, <2>2
  <2>4. flash' \in [Addr -> Word] /\ \A b \in Addr : b # at => flash'[b] = flash[b]
    BY <1>1, <2>1, <2>3, ProgramsOne
  <2>5. \A a \in 0..(PageWords - 1) : a \in Addr /\ a # at BY <1>1, <1>2, <2>2
  <2>6. CASE writing' = None BY <1>1, <1>3, <2>1, <2>4, <2>5, <2>6 DEF None, Nowhere
  <2>7. CASE writing' # None
    <3>1. writing.left # 1
          /\ writing' = [writing EXCEPT !.at = at + 1, !.left = writing.left - 1]
      BY <1>6, <2>7 DEF NVwriteData
    <3>2. /\ writing'.hdr = writing.hdr /\ writing'.at = at + 1
          /\ writing'.left = writing.left - 1 /\ writing'.word = writing.word
      BY <1>1, <3>1
    <3>3. writing.left - 1 \in Nat \ {0} /\ at + 1 \in Nat BY <2>2, <3>1
    <3>4. writing' \in Writing BY <1>1, <3>1, <3>3
    <3> QED BY <1>1, <1>2, <2>1, <2>2, <2>4, <2>5, <3>2, <3>3, <3>4
  <2> QED BY <2>6, <2>7
<1>7. CASE PowerLoss
  <2>1. flash' = flash /\ writes' = writes /\ writing' = None /\ erased' = FALSE
    BY <1>7 DEF PowerLoss, StoreInv
  <2> QED BY <1>1, <1>3, <2>1 DEF None, Nowhere
<1> QED BY <1>5, <1>6, <1>7

(* A word that is erased takes what is written, and no other changes.      *)
LEMMA ErasedTakes ==
  ASSUME NEW a \in Addr, NEW w \in Word, flash \in [Addr -> Word], flash[a] = Erased,
         flash' = Programmed(a, w)
  PROVE  flash' = [flash EXCEPT ![a] = w] /\ flash' \in [Addr -> Word]
         /\ flash'[a] = w /\ \A b \in Addr : b # a => flash'[b] = flash[b]
BY DEF Programmed

(* A new record extends the chain.                                         *)
LEMMA NVwriteExtends ==
  ASSUME HasRoom, flash \in [Addr -> Word], writes \in 0..MaxWrites, writes < MaxWrites,
         NEW H \in SUBSET Addr, NEW F \in Addr, Filled(H, F), NEW k \in Keys, NVwrite(k)
  PROVE  /\ Filled(H \cup {F}, F + 1 + Skipped(Size[k]))'
         /\ F + 1 + Skipped(Size[k]) \in Addr
         /\ flash' \in [Addr -> Word]
         /\ flash'[F] = Header(k) /\ \A a \in Addr : a # F => flash'[a] = flash[a]
         /\ writing'.hdr = F /\ writing' # None
<1> DEFINE G == F + 1 + Skipped(Size[k])
           K == H \cup {F}
<1>1. FreeFrom[0] = F BY ChainEndsAtFree DEF Filled
<1>2. /\ F \in Nat /\ F < PageWords /\ F <= FLASHSIZE /\ 0..F \subseteq Addr
      /\ H \subseteq 0..(F - 1) /\ flash[F] = Erased
  BY ChainShape DEF Filled
<1>3. flash' = Programmed(F, Header(k)) BY <1>1 DEF NVwrite, Header
<1>4. PICK w \in DataWords :
        writing' = [hdr |-> F, at |-> F + 1, left |-> WordsFor(Size[k]), word |-> w]
  BY <1>1 DEF NVwrite
<1>5. /\ Header(k) \in Word /\ Header(k).dataSize = Size[k]
      /\ WordsFor(Size[k]) \in Nat \ {0} /\ Skipped(Size[k]) \in Nat
      /\ WordsFor(Size[k]) <= Skipped(Size[k])
  BY HeaderShape
<1> HIDE DEF Header, Skipped, WordsFor
<1>6. flash' \in [Addr -> Word] /\ flash'[F] = Header(k) /\ \A a \in Addr : a # F => flash'[a] = flash[a]
  BY <1>2, <1>3, <1>5, ErasedTakes
<1>7. writes' = writes + 1 /\ writing' # None /\ writing'.hdr = F
  BY <1>2, <1>4 DEF NVwrite, None
<1>8. G \in Nat /\ G <= writes' * Longest /\ G < PageWords /\ G > F
  <2>1. F <= writes * Longest BY DEF Filled
  <2>2. 1 + Skipped(Size[k]) <= Longest /\ Longest \in Nat BY RoomForLongest
  <2>3. (writes + 1) * Longest = writes * Longest + Longest BY <2>2
  <2>4. writes * Longest \in Nat BY <2>2
  <2>5. writes' \in 0..MaxWrites BY <1>7, FlashAssumption
  <2>6. writes' * Longest < PageWords BY <2>5, RoomForLongest
  <2>7. PageWords \in Nat BY FlashAssumption
  <2> HIDE DEF Longest
  <2>8. writes' * Longest = writes * Longest + Longest BY <1>7, <2>3
  <2> QED BY <1>2, <1>5, <2>1, <2>2, <2>4, <2>6, <2>7, <2>8
<1>9. G \in Addr /\ \A a \in 0..PageWords : a \in Addr
  <2>1. /\ PageWords \in Nat /\ FLASHSIZE \in Nat /\ PageWords <= FLASHSIZE
        /\ LastAddr \in Nat /\ Addr = 0..LastAddr /\ LastAddr > FLASHSIZE
    BY FlashAssumption, ScanGoesOn
  <2> QED BY <1>8, <2>1
<1>10. NextRecord(F)' = G /\ \A h \in H : NextRecord(h)' = NextRecord(h)
  <2>1. \A h \in H : h \in Addr /\ h # F BY <1>2
  <2> QED BY <1>5, <1>6, <2>1 DEF NextRecord
<1>11. Chain(K, G)'
  <2>1. K \subseteq 0..(G - 1) /\ G \in 0..(PageWords - 1)
    <3>1. \A x \in K : x \in Nat /\ x <= F BY <1>2
    <3>2. PageWords \in Nat BY FlashAssumption
    <3> HIDE DEF K, G
    <3> QED BY <1>2, <1>8, <3>1, <3>2
  <2>2. 0 \in K BY DEF Filled, Chain
  <2>3. ASSUME NEW h \in K
        PROVE  /\ \E j \in Keys : flash'[h] = Header(j)
               /\ NextRecord(h)' \in K \cup {G}
               /\ \A j \in K : j > h => j >= NextRecord(h)'
    <3>1. CASE h = F
      <4>1. \A j \in K : ~(j > F) BY <1>2
      <4> QED BY <1>6, <1>10, <3>1, <4>1
    <3>2. CASE h \in H /\ h # F
      <4>1. flash'[h] = flash[h] /\ NextRecord(h)' = NextRecord(h) BY <1>6, <1>10, <3>2
      <4>2. /\ \E j \in Keys : flash[h] = Header(j)
            /\ NextRecord(h) \in H \cup {F}
            /\ \A j \in H : j > h => j >= NextRecord(h)
        BY <3>2 DEF Filled, Chain
      <4>3. F >= NextRecord(h) BY <3>2, ChainShape DEF Filled
      <4> QED BY <4>1, <4>2, <4>3
    <3> QED BY <3>1, <3>2
  <2>4. \A a \in G..(PageWords - 1) : flash'[a] = Erased
    <3> SUFFICES ASSUME NEW a \in G..(PageWords - 1) PROVE flash'[a] = Erased OBVIOUS
    <3>1. a \in F..(PageWords - 1) /\ a # F /\ a \in 0..PageWords
      BY <1>2, <1>8, FlashAssumption
    <3>2. flash[a] = Erased BY <3>1 DEF Filled, Chain
    <3> QED BY <1>6, <1>9, <3>1, <3>2
  <2> HIDE DEF G, K
  <2> QED BY <2>1, <2>2, <2>3, <2>4 DEF Chain
<1>12. WritingInv(K, G)'
  <2>1. /\ writing'.hdr = F /\ writing'.at = F + 1 /\ writing'.left = WordsFor(Size[k])
        /\ writing'.word = w
    BY <1>4
  <2>2. flash'[F].dataSize = Size[k] BY <1>5, <1>6
  <2>3. \A a \in (F + 1)..(F + 1 + WordsFor(Size[k]) - 1) : flash'[a] = Erased
    <3> SUFFICES ASSUME NEW a \in (F + 1)..(F + 1 + WordsFor(Size[k]) - 1)
                 PROVE  flash'[a] = Erased
      OBVIOUS
    <3>1. a \in F..(PageWords - 1) /\ a # F /\ a \in 0..PageWords
      BY <1>2, <1>5, <1>8, FlashAssumption
    <3>2. flash[a] = Erased BY <3>1 DEF Filled, Chain
    <3> QED BY <1>6, <1>9, <3>1, <3>2
  <2>4. \A a \in (F + 1)..(F + 1 - 1) : flash'[a] = w BY <1>2
  <2> HIDE DEF G
  <2> QED BY <1>2, <1>5, <1>10, <2>1, <2>2, <2>3, <2>4 DEF WritingInv
<1> HIDE DEF K, G
<1>13. Filled(K, G)' BY <1>8, <1>11, <1>12 DEF Filled
<1> QED BY <1>6, <1>7, <1>9, <1>13 DEF K, G

(* A data word goes into the last record, between the headers.             *)
LEMMA NVwriteDataFills ==
  ASSUME HasRoom, flash \in [Addr -> Word],
         writing \in [hdr : Addr \cup {Nowhere}, at : Nat, left : Nat, word : Word],
         NEW H \in SUBSET Addr, NEW F \in Addr, Filled(H, F), NVwriteData
  PROVE  /\ Filled(H, F)'
         /\ flash' \in [Addr -> Word]
         /\ writing' \in [hdr : Addr \cup {Nowhere}, at : Nat, left : Nat, word : Word]
         /\ writing.at \in Addr /\ writing.at \notin H /\ flash[writing.at] = Erased
         /\ flash'[writing.at] = writing.word
         /\ \A a \in Addr : a # writing.at => flash'[a] = flash[a]
<1> DEFINE at == writing.at  hdr == writing.hdr  word == writing.word  left == writing.left
<1>1. /\ hdr \in H /\ NextRecord(hdr) = F /\ word \in Word
      /\ at \in Nat /\ left \in Nat \ {0} /\ at > hdr
      /\ at + left = hdr + 1 + WordsFor(flash[hdr].dataSize)
      /\ \A a \in (hdr + 1)..(at - 1) : flash[a] = word
      /\ \A a \in at..(at + left - 1) : flash[a] = Erased
  BY FlashAssumption DEF Filled, WritingInv, NVwriteData
<1>2. /\ F \in Nat /\ F < PageWords /\ F <= FLASHSIZE /\ 0..F \subseteq Addr
      /\ hdr \in Nat /\ hdr < F /\ WordsFor(flash[hdr].dataSize) \in Nat \ {0}
      /\ hdr + WordsFor(flash[hdr].dataSize) < F
      /\ \A h \in H : h \in Nat /\ h < F
  BY <1>1, ChainShape DEF Filled
<1> HIDE DEF NextRecord, WordsFor
<1>3. at < F /\ at \in Addr
  <2>1. at < F BY <1>1, <1>2
  <2>2. at \in 0..F BY <1>1, <1>2, <2>1
  <2> QED BY <1>2, <2>1, <2>2
<1>4. flash[at] = Erased
  <2>1. at \in at..(at + left - 1) BY <1>1
  <2> QED BY <1>1, <2>1
<1>5. at \notin H
  <2>1. \A j \in H : j > hdr => j >= F BY <1>1 DEF Filled, Chain
  <2> QED BY <1>1, <1>2, <1>3, <2>1
<1>6. flash' \in [Addr -> Word] /\ flash'[at] = word /\ \A a \in Addr : a # at => flash'[a] = flash[a]
  <2>1. flash' = Programmed(at, word) BY DEF NVwriteData
  <2> QED BY <1>1, <1>3, <1>4, <2>1, ErasedTakes
<1>7. \A h \in H : flash'[h] = flash[h] /\ NextRecord(h)' = NextRecord(h)
  BY <1>5, <1>6 DEF NextRecord
<1>8. writes' = writes BY DEF NVwriteData
<1>9. Chain(H, F)'
  <2>1. \A h \in H : /\ \E k \in Keys : flash'[h] = Header(k)
                     /\ NextRecord(h)' \in H \cup {F}
                     /\ \A j \in H : j > h => j >= NextRecord(h)'
    BY <1>7 DEF Filled, Chain
  <2>2. \A a \in F..(PageWords - 1) : flash'[a] = Erased
    <3> SUFFICES ASSUME NEW a \in F..(PageWords - 1) PROVE flash'[a] = Erased OBVIOUS
    <3>1. flash[a] = Erased BY DEF Filled, Chain
    <3>2. a # at BY <1>2, <1>3, FlashAssumption
    <3>3. a \in Addr
      <4>1. /\ PageWords \in Nat /\ FLASHSIZE \in Nat /\ PageWords <= FLASHSIZE
            /\ LastAddr \in Nat /\ Addr = 0..LastAddr /\ LastAddr > FLASHSIZE
        BY FlashAssumption, ScanGoesOn
      <4> QED BY <1>2, <4>1
    <3> QED BY <1>6, <3>1, <3>2, <3>3
  <2>3. H \subseteq 0..(F - 1) /\ F \in 0..(PageWords - 1) /\ 0 \in H \cup {F}
    BY DEF Filled, Chain
  <2> QED BY <2>1, <2>2, <2>3 DEF Chain
<1>10. \/ writing' = None
       \/ /\ left # 1
          /\ writing' = [writing EXCEPT !.at = at + 1, !.left = left - 1]
  BY DEF NVwriteData
<1>11. WritingInv(H, F)'
  <2>1. CASE writing' = None BY <2>1 DEF WritingInv
  <2>2. CASE left # 1 /\ writing' = [writing EXCEPT !.at = at + 1, !.left = left - 1]
    <3>1. /\ writing'.hdr = hdr /\ writing'.at = at + 1 /\ writing'.left = left - 1
          /\ writing'.word = word
      BY <2>2
    <3>2. left - 1 \in Nat \ {0} BY <1>1, <2>2
    <3>3. PICK h \in H : h = hdr BY <1>1
    <3>4. flash'[h] = flash[h] /\ NextRecord(h)' = F BY <1>1, <1>7, <3>3
    <3>5. \A a \in (hdr + 1)..(at + 1 - 1) : flash'[a] = word
      <4> SUFFICES ASSUME NEW a \in (hdr + 1)..(at + 1 - 1) PROVE flash'[a] = word OBVIOUS
      <4>1. CASE a = at BY <1>6, <4>1
      <4>2. CASE a # at
        <5>1. a \in (hdr + 1)..(at - 1) /\ a \in 0..F BY <1>1, <1>2, <1>3, <4>2
        <5> QED BY <1>1, <1>2, <1>6, <4>2, <5>1
      <4> QED BY <4>1, <4>2
    <3>6. \A a \in (at + 1)..(at + 1 + (left - 1) - 1) : flash'[a] = Erased
      <4> SUFFICES ASSUME NEW a \in (at + 1)..(at + 1 + (left - 1) - 1)
                   PROVE  flash'[a] = Erased
        OBVIOUS
      <4>1. a \in at..(at + left - 1) /\ a # at BY <1>1
      <4>2. a \in 0..F BY <1>1, <1>2, <4>1
      <4> QED BY <1>1, <1>2, <1>6, <4>1, <4>2
    <3>7. word \in DataWords BY DEF Filled, WritingInv, NVwriteData
    <3>8. /\ at + 1 \in Nat /\ at + 1 > hdr
          /\ at + 1 + (left - 1) = hdr + 1 + WordsFor(flash[hdr].dataSize)
      BY <1>1, <1>2
    <3>9. NextRecord(writing.hdr)' = F BY <3>1, <3>3, <3>4 DEF NextRecord
    <3> QED BY <1>1, <3>1, <3>2, <3>3, <3>5, <3>4, <3>6, <3>7, <3>8, <3>9 DEF WritingInv
  <2> QED BY <1>10, <2>1, <2>2
<1>12. writing' \in [hdr : Addr \cup {Nowhere}, at : Nat, left : Nat, word : Word]
  <2>1. Zero \in Word BY DEF Zero, Word, Byte, BYTE
  <2>2. None \in [hdr : Addr \cup {Nowhere}, at : Nat, left : Nat, word : Word]
    BY <2>1 DEF None, Nowhere
  <2>3. left # 1 => at + 1 \in Nat /\ left - 1 \in Nat BY <1>1
  <2> QED BY <1>10, <2>2, <2>3
<1>13. Filled(H, F)'
  <2>1. F <= writes * Longest BY DEF Filled
  <2> QED BY <1>8, <1>9, <1>11, <2>1 DEF Filled
<1> QED BY <1>3, <1>4, <1>5, <1>6, <1>12, <1>13

(* An erased page is an empty chain.                                       *)
LEMMA EraseEmpties ==
  ASSUME HasRoom, flash \in [Addr -> Word], writing = None, flashErasePage
  PROVE  Filled({}, 0)' /\ 0 \in Addr /\ flash' \in [Addr -> Word]
<1>1. /\ PageWords \in Nat \ {0} /\ FLASHSIZE \in Nat /\ PageWords <= FLASHSIZE
      /\ LastAddr \in Nat /\ Addr = 0..LastAddr /\ LastAddr > FLASHSIZE
  BY FlashAssumption, ScanGoesOn
<1>2. Erased \in Word BY DEF Erased, Word, Byte, BYTE
<1>3. flash' = [a \in Addr |-> IF a < PageWords THEN Erased ELSE flash[a]] BY DEF flashErasePage
<1>4. flash' \in [Addr -> Word] BY <1>2, <1>3
<1>5. \A a \in 0..(PageWords - 1) : flash'[a] = Erased
  <2>1. \A a \in 0..(PageWords - 1) : a \in Addr /\ a < PageWords BY <1>1
  <2> QED BY <1>3, <2>1
<1>6. Chain({}, 0)' BY <1>1, <1>5 DEF Chain
<1>7. writing' = None /\ writes' = 0 BY DEF flashErasePage
<1>8. 0 <= 0 * Longest BY RoomForLongest
<1> QED BY <1>1, <1>4, <1>6, <1>7, <1>8 DEF Filled, WritingInv

(* Nothing happens to the memory, but the write may be given up.           *)
LEMMA FlashKeepsFilled ==
  ASSUME NEW H, NEW F, Filled(H, F), flash' = flash, writes' = writes,
         writing' = writing \/ writing' = None
  PROVE  Filled(H, F)'
<1>1. \A h : NextRecord(h)' = NextRecord(h) BY DEF NextRecord
<1>2. Chain(H, F)' BY <1>1 DEF Filled, Chain
<1>3. WritingInv(H, F)'
  <2>1. CASE writing' = None BY <2>1 DEF WritingInv
  <2>2. CASE writing' = writing BY <1>1, <2>2 DEF Filled, WritingInv
  <2> QED BY <2>1, <2>2
<1> QED BY <1>2, <1>3 DEF Filled

(* Every step keeps the invariant.                                         *)
LEMMA NextInv ==
  ASSUME HasRoom, StoreInv, [Next]_vars
  PROVE  StoreInv'
<1> USE DEF StoreInv
<1>1. CASE UNCHANGED vars
  <2>1. flash' = flash /\ writing' = writing /\ writes' = writes /\ erased' = erased
    BY <1>1 DEF vars
  <2>2. Unformatted => Unformatted' BY <2>1 DEF Unformatted
  <2>3. ASSUME NEW H \in SUBSET Addr, NEW F \in Addr, Filled(H, F) PROVE Filled(H, F)'
    BY <2>1, <2>3, FlashKeepsFilled
  <2> HIDE DEF Filled
  <2> QED BY <2>1, <2>2, <2>3
<1>2. CASE flashErasePage
  <2>1. writing' = writing /\ writes' = 0 /\ writing = None /\ erased' = TRUE
    BY <1>2 DEF flashErasePage
  <2>2. Filled({}, 0)' /\ 0 \in Addr /\ flash' \in [Addr -> Word] BY <1>2, <2>1, EraseEmpties
  <2>3. writes' \in 0..MaxWrites BY <2>1, FlashAssumption
  <2> HIDE DEF Filled
  <2> QED BY <2>1, <2>2, <2>3
<1>3. CASE ~erased /\ ~flashErasePage /\ Next
  <2>1. (\E k \in Keys : NVwrite(k)) \/ NVwriteData \/ PowerLoss BY <1>3 DEF Next
  <2> HIDE DEF StoreInv
  <2> QED BY <1>3, <2>1, PageIsLeftAlone
<1>4. ASSUME erased, NEW k \in Keys, NVwrite(k) PROVE StoreInv'
  <2>1. PICK H \in SUBSET Addr, F \in Addr : Filled(H, F) BY <1>4
  <2>2. writes < MaxWrites /\ writes' = writes + 1 /\ writes' \in 0..MaxWrites /\ erased' = erased
    BY <1>4, FlashAssumption DEF NVwrite
  <2>3. /\ Filled(H \cup {F}, F + 1 + Skipped(Size[k]))'
        /\ F + 1 + Skipped(Size[k]) \in Addr /\ flash' \in [Addr -> Word]
    BY <1>4, <2>1, <2>2, NVwriteExtends
  <2>4. writing' \in [hdr : Addr \cup {Nowhere}, at : Nat, left : Nat, word : Word]
    <3>1. FreeFrom[0] = F /\ F \in Nat BY <2>1, ChainEndsAtFree, ChainShape DEF Filled
    <3>2. WordsFor(Size[k]) \in Nat BY HeaderShape
    <3> QED BY <1>4, <3>1, <3>2, FlashAssumption DEF NVwrite
  <2> HIDE DEF Filled
  <2> QED BY <1>4, <2>2, <2>3, <2>4
<1>5. CASE erased /\ NVwriteData
  <2>1. PICK H \in SUBSET Addr, F \in Addr : Filled(H, F) BY <1>5
  <2>2. writes' = writes /\ erased' = erased BY <1>5 DEF NVwriteData
  <2> HIDE DEF Filled
  <2> QED BY <1>5, <2>1, <2>2, NVwriteDataFills
<1>6. CASE erased /\ PowerLoss
  <2>1. PICK H \in SUBSET Addr, F \in Addr : Filled(H, F) BY <1>6
  <2>2. flash' = flash /\ writes' = writes /\ writing' = None /\ erased' = erased
    BY <1>6 DEF PowerLoss
  <2>3. Zero \in Word BY DEF Zero, Word, Byte, BYTE
  <2>4. writing' \in [hdr : Addr \cup {Nowhere}, at : Nat, left : Nat, word : Word]
    BY <2>2, <2>3 DEF None, Nowhere
  <2>5. Filled(H, F)' BY <2>1, <2>2, FlashKeepsFilled
  <2> HIDE DEF Filled
  <2> QED BY <1>6, <2>2, <2>4, <2>5
<1> QED BY <1>1, <1>2, <1>3, <1>4, <1>5, <1>6 DEF Next

\* Writes, erasures and losses of power keep the chain of records whole, and
\* short enough for the page (NVwrite, flashErasePage, power loss).
THEOREM StoreInvariant == ASSUME HasRoom PROVE Spec => []StoreInv
<1>1. StoreInv /\ [Next]_vars => StoreInv' BY NextInv
<1> QED BY <1>1, InitInv, PTL DEF Spec

-----------------------------------------------------------------------------
(* What is read.                                                           *)

\* A record that is not being written gives all the words of its value.
ReadsInFull ==
  HasRoom /\ flash \in [Addr -> Word] =>
    \A H, F : Chain(H, F) => \A k \in Keys :
      /\ IsFirst(H, k, RecordOf(k))
      /\ Settled(k) = IF RecordOf(k) = Nowhere \/ (writing # None /\ RecordOf(k) = writing.hdr)
                      THEN <<>>
                      ELSE [i \in 1..WordsFor(Size[k]) |-> flash[RecordOf(k) + i]]

\* Settled is what is read from the first record of the key (NVread).
LEMMA SettledIsRead == ReadsInFull
<1> SUFFICES ASSUME HasRoom, flash \in [Addr -> Word], NEW H, NEW F, Chain(H, F), NEW k \in Keys
             PROVE  /\ IsFirst(H, k, RecordOf(k))
                    /\ Settled(k) = IF RecordOf(k) = Nowhere \/ (writing # None /\ RecordOf(k) = writing.hdr)
                                    THEN <<>>
                                    ELSE [i \in 1..WordsFor(Size[k]) |-> flash[RecordOf(k) + i]]
  BY DEF ReadsInFull
<1>1. IsFirst(H, k, RecordOf(k)) BY ChainHasFirst
<1> DEFINE r == RecordOf(k)
<1> HIDE DEF r
<1>2. CASE r = Nowhere BY <1>1, <1>2 DEF Settled, NVread, r
<1>3. CASE r # Nowhere
  <2>1. r \in H /\ Matches(r, k) BY <1>1, <1>3 DEF IsFirst, r
  <2>2. PICK j \in Keys : flash[r] = Header(j) BY <2>1 DEF Chain
  <2>3. j = k
    <3>1. j[1] = k[1] /\ j[2] = k[2] BY <2>1, <2>2 DEF Matches, Header
    <3>2. j \in (0..254) \X Byte /\ k \in (0..254) \X Byte BY FlashAssumption
    <3> QED BY <3>1, <3>2
  <2>4. Smaller(flash[r].dataSize, Size[k]) = Size[k] BY <2>2, <2>3, HeaderShape DEF Smaller
  <2> QED BY <1>1, <1>3, <2>4 DEF Settled, NVread, r
<1> QED BY <1>1, <1>2, <1>3 DEF r

(* ... nor does it after a step.                                           *)
LEMMA SettledIsReadNext == ReadsInFull'
BY SettledIsRead, PTL

-----------------------------------------------------------------------------
(* FlashStore implements RecordStore.                                      *)

\* r is what a search for k finds: in the memory f, with the headers H.
FoundIn(f, H, k, r) ==
  \/ r = Nowhere /\ \A h \in H : ~(f[h].appId = k[1] /\ f[h].dataId = k[2])
  \/ /\ r \in H /\ f[r].appId = k[1] /\ f[r].dataId = k[2]
     /\ \A h \in H : f[h].appId = k[1] /\ f[h].dataId = k[2] => r <= h

\* Likewise, and v is what is read, with the write under way at wr.
ReadIn(f, H, wr, k, r, v) ==
  /\ FoundIn(f, H, k, r)
  /\ v = IF r = Nowhere \/ (wr # None /\ r = wr.hdr) THEN <<>>
         ELSE [i \in 1..WordsFor(Size[k]) |-> f[r + i]]

(* What is read before and after a step.                                   *)
LEMMA ReadBefore ==
  ASSUME HasRoom, flash \in [Addr -> Word], NEW H, NEW F, Chain(H, F), NEW k \in Keys
  PROVE  \E r : ReadIn(flash, H, writing, k, r, Settled(k))
<1>1. IsFirst(H, k, RecordOf(k)) BY SettledIsRead DEF ReadsInFull
<1>2. FoundIn(flash, H, k, RecordOf(k)) BY <1>1 DEF IsFirst, FoundIn, Matches
<1>3. Settled(k) = IF RecordOf(k) = Nowhere \/ (writing # None /\ RecordOf(k) = writing.hdr)
                   THEN <<>>
                   ELSE [i \in 1..WordsFor(Size[k]) |-> flash[RecordOf(k) + i]]
  BY SettledIsRead DEF ReadsInFull
<1>4. ReadIn(flash, H, writing, k, RecordOf(k), Settled(k)) BY <1>2, <1>3 DEF ReadIn
<1> QED BY <1>4

\* The same after a step.
LEMMA ReadAfter ==
  ASSUME HasRoom, flash' \in [Addr -> Word], NEW H, NEW F, Chain(H, F)', NEW k \in Keys
  PROVE  \E r : ReadIn(flash', H, writing', k, r, Settled(k)')
<1>1. IsFirst(H, k, RecordOf(k))' BY SettledIsReadNext DEF ReadsInFull
<1>2. FoundIn(flash', H, k, RecordOf(k)') BY <1>1 DEF IsFirst, FoundIn, Matches
<1>3. Settled(k)' = IF RecordOf(k)' = Nowhere \/ (writing' # None /\ RecordOf(k)' = writing'.hdr)
                    THEN <<>>
                    ELSE [i \in 1..WordsFor(Size[k]) |-> flash'[RecordOf(k)' + i]]
  BY SettledIsReadNext DEF ReadsInFull
<1>4. ReadIn(flash', H, writing', k, RecordOf(k)', Settled(k)') BY <1>2, <1>3 DEF ReadIn
<1> QED BY <1>4

(* A search finds at most one record.                                      *)
LEMMA FoundIsOne ==
  ASSUME NEW f, NEW H \in SUBSET Nat, NEW k, NEW r, NEW s, FoundIn(f, H, k, r), FoundIn(f, H, k, s)
  PROVE  r = s
<1> DEFINE m(h) == f[h].appId = k[1] /\ f[h].dataId = k[2]
<1>1. (r = Nowhere /\ \A h \in H : ~m(h)) \/ (r \in H /\ m(r) /\ \A h \in H : m(h) => r <= h)
  BY DEF FoundIn
<1>2. (s = Nowhere /\ \A h \in H : ~m(h)) \/ (s \in H /\ m(s) /\ \A h \in H : m(h) => s <= h)
  BY DEF FoundIn
<1> HIDE DEF m
<1>3. CASE r = Nowhere /\ \A h \in H : ~m(h) BY <1>2, <1>3
<1>4. CASE s = Nowhere /\ \A h \in H : ~m(h) BY <1>1, <1>4
<1>5. CASE r \in H /\ m(r) /\ s \in H /\ m(s)
  <2>1. r \in Nat /\ s \in Nat /\ r # Nowhere /\ s # Nowhere BY <1>5 DEF Nowhere
  <2>2. r <= s /\ s <= r BY <1>1, <1>2, <1>5, <2>1
  <2> QED BY <2>1, <2>2
<1> QED BY <1>1, <1>2, <1>3, <1>4, <1>5

(* Beginning a record changes nothing that is read.                        *)
LEMMA NVwriteIsUnseen ==
  ASSUME HasRoom, StoreInv, erased, NEW k0 \in Keys, NVwrite(k0), NEW k \in Keys
  PROVE  Settled(k)' = Settled(k)
<1>1. flash \in [Addr -> Word] /\ writes \in 0..MaxWrites /\ writes < MaxWrites /\ writing = None
  BY DEF StoreInv, NVwrite
<1>3. PICK H \in SUBSET Addr, F \in Addr : Filled(H, F) BY DEF StoreInv
<1> DEFINE K == H \cup {F}
           G == F + 1 + Skipped(Size[k0])
<1>4. /\ Filled(K, G)' /\ flash' \in [Addr -> Word] /\ flash'[F] = Header(k0)
      /\ \A a \in Addr : a # F => flash'[a] = flash[a]
      /\ writing'.hdr = F /\ writing' # None
  BY <1>1, <1>3, NVwriteExtends
<1>5. PICK r : ReadIn(flash, H, writing, k, r, Settled(k)) BY <1>1, <1>3, ReadBefore DEF Filled
<1>6. PICK s : ReadIn(flash', K, writing', k, s, Settled(k)')
  <2> HIDE DEF K, G
  <2> QED BY <1>4, ReadAfter DEF Filled
<1>7. /\ F \in Nat /\ 0..F \subseteq Addr
      /\ \A h \in H : /\ h \in Nat /\ h < F
                      /\ NextRecord(h) \in Nat /\ NextRecord(h) <= F
                      /\ WordsFor(flash[h].dataSize) \in Nat
                      /\ h + WordsFor(flash[h].dataSize) < NextRecord(h)
  BY <1>1, <1>3, ChainShape DEF Filled
<1>8. \A h \in H : h \in Addr /\ flash'[h] = flash[h] BY <1>4, <1>7
<1>9. CASE r = Nowhere
  <2>1. Settled(k) = <<>> BY <1>5, <1>9 DEF ReadIn
  <2>2. s \in {Nowhere, F}
    <3>1. \A h \in H : ~(flash'[h].appId = k[1] /\ flash'[h].dataId = k[2])
      BY <1>5, <1>7, <1>8, <1>9 DEF ReadIn, FoundIn, Nowhere
    <3> QED BY <1>6, <3>1 DEF ReadIn, FoundIn
  <2>3. Settled(k)' = <<>> BY <1>4, <1>6, <2>2 DEF ReadIn
  <2> QED BY <2>1, <2>3
<1>10. CASE r # Nowhere
  <2>1. /\ r \in H /\ flash[r].appId = k[1] /\ flash[r].dataId = k[2]
        /\ \A h \in H : flash[h].appId = k[1] /\ flash[h].dataId = k[2] => r <= h
    BY <1>5, <1>10 DEF ReadIn, FoundIn
  <2>2. FoundIn(flash', K, k, r) BY <1>7, <1>8, <2>1 DEF FoundIn
  <2>3. K \in SUBSET Nat BY <1>7
  <2>4. FoundIn(flash', K, k, s) BY <1>6 DEF ReadIn
  <2>5. s = r
    <3> HIDE DEF K
    <3> QED BY <2>2, <2>3, <2>4, FoundIsOne
  <2>6. r # F /\ r # Nowhere BY <1>7, <1>10, <2>1
  <2>7. Settled(k)' = [i \in 1..WordsFor(Size[k]) |-> flash'[r + i]]
    BY <1>4, <1>6, <2>5, <2>6 DEF ReadIn
  <2>8. Settled(k) = [i \in 1..WordsFor(Size[k]) |-> flash[r + i]]
    BY <1>1, <1>5, <2>6 DEF ReadIn
  <2>9. flash[r].dataSize = Size[k]
    <3>1. PICK j \in Keys : flash[r] = Header(j) BY <1>3, <2>1 DEF Filled, Chain
    <3>2. j[1] = k[1] /\ j[2] = k[2] BY <2>1, <3>1 DEF Header
    <3>3. j = k
      <4>1. j \in (0..254) \X Byte /\ k \in (0..254) \X Byte BY FlashAssumption
      <4> QED BY <3>2, <4>1
    <3> QED BY <3>1, <3>3 DEF Header
  <2>10. \A i \in 1..WordsFor(Size[k]) : flash'[r + i] = flash[r + i]
    <3> SUFFICES ASSUME NEW i \in 1..WordsFor(Size[k]) PROVE flash'[r + i] = flash[r + i]
      OBVIOUS
    <3>1. /\ r \in Nat /\ WordsFor(Size[k]) \in Nat
          /\ r + WordsFor(Size[k]) < NextRecord(r) /\ NextRecord(r) <= F /\ NextRecord(r) \in Nat
      BY <1>7, <2>1, <2>9
    <3> HIDE DEF WordsFor, NextRecord
    <3>2. r + i \in 0..F /\ r + i # F BY <1>7, <3>1
    <3> QED BY <1>4, <1>7, <3>2
  <2> QED BY <2>7, <2>8, <2>10
<1> QED BY <1>9, <1>10

(* A data word changes what is read only if it ends the first record of a  *)
(* key, which is then there as a whole.                                    *)
LEMMA NVwriteDataIsSeen ==
  ASSUME HasRoom, StoreInv, erased, NVwriteData, NEW k \in Keys
  PROVE  \/ Settled(k)' = Settled(k)
         \/ /\ Settled(k) = <<>> /\ Settled(k)' \in Values(k)
            /\ flash[writing.hdr] = Header(k)
<1>1. /\ flash \in [Addr -> Word] /\ writing # None
      /\ writing \in [hdr : Addr \cup {Nowhere}, at : Nat, left : Nat, word : Word]
  BY DEF StoreInv, NVwriteData
<1>2. PICK H \in SUBSET Addr, F \in Addr : Filled(H, F) BY DEF StoreInv
<1>3. /\ Filled(H, F)' /\ flash' \in [Addr -> Word]
      /\ writing.at \in Addr /\ writing.at \notin H
      /\ flash'[writing.at] = writing.word
      /\ \A a \in Addr : a # writing.at => flash'[a] = flash[a]
  BY <1>1, <1>2, NVwriteDataFills
<1>4. PICK r : ReadIn(flash, H, writing, k, r, Settled(k)) BY <1>1, <1>2, ReadBefore DEF Filled
<1>5. PICK s : ReadIn(flash', H, writing', k, s, Settled(k)') BY <1>3, ReadAfter DEF Filled
<1>6. /\ F \in Nat /\ 0..F \subseteq Addr
      /\ \A h \in H : /\ h \in Nat /\ h < F
                      /\ NextRecord(h) \in Nat /\ NextRecord(h) <= F
                      /\ WordsFor(flash[h].dataSize) \in Nat
                      /\ h + WordsFor(flash[h].dataSize) < NextRecord(h)
  BY <1>1, <1>2, ChainShape DEF Filled
<1>7. /\ writing.hdr \in H /\ NextRecord(writing.hdr) = F /\ writing.word \in DataWords
      /\ writing.at \in Nat /\ writing.left \in Nat \ {0} /\ writing.at > writing.hdr
      /\ writing.at + writing.left = writing.hdr + 1 + WordsFor(flash[writing.hdr].dataSize)
      /\ \A a \in (writing.hdr + 1)..(writing.at - 1) : flash[a] = writing.word
  BY <1>1, <1>2 DEF Filled, WritingInv
<1>8. \A h \in H : h \in Addr /\ flash'[h] = flash[h] BY <1>3, <1>6
<1>9. r = s
  <2>1. FoundIn(flash', H, k, r) BY <1>4, <1>8 DEF ReadIn, FoundIn
  <2>2. FoundIn(flash', H, k, s) BY <1>5 DEF ReadIn
  <2>3. H \in SUBSET Nat BY <1>6
  <2> QED BY <2>1, <2>2, <2>3, FoundIsOne
<1>10. CASE r = Nowhere BY <1>4, <1>5, <1>9, <1>10 DEF ReadIn
<1>11. CASE r # Nowhere
  <2>1. r \in H /\ flash[r].appId = k[1] /\ flash[r].dataId = k[2]
    BY <1>4, <1>11 DEF ReadIn, FoundIn
  <2>2. flash[r] = Header(k) /\ flash[r].dataSize = Size[k]
    <3>1. PICK j \in Keys : flash[r] = Header(j) BY <1>2, <2>1 DEF Filled, Chain
    <3>2. j[1] = k[1] /\ j[2] = k[2] BY <2>1, <3>1 DEF Header
    <3>3. j = k
      <4>1. j \in (0..254) \X Byte /\ k \in (0..254) \X Byte BY FlashAssumption
      <4> QED BY <3>2, <4>1
    <3> QED BY <3>1, <3>3 DEF Header
  <2>3. /\ r \in Nat /\ WordsFor(Size[k]) \in Nat
        /\ r + WordsFor(Size[k]) < NextRecord(r) /\ NextRecord(r) <= F /\ NextRecord(r) \in Nat
    BY <1>6, <2>1, <2>2
  <2> HIDE DEF WordsFor, NextRecord
  <2>4. CASE r # writing.hdr
    <3>1. ~(writing' # None /\ r = writing'.hdr)
      <4>1. writing' = None \/ writing'.hdr = writing.hdr BY <1>1 DEF NVwriteData
      <4> QED BY <2>4, <4>1
    <3>2. Settled(k) = [i \in 1..WordsFor(Size[k]) |-> flash[r + i]]
      BY <1>4, <1>11, <2>4 DEF ReadIn
    <3>3. Settled(k)' = [i \in 1..WordsFor(Size[k]) |-> flash'[r + i]]
      BY <1>5, <1>9, <1>11, <3>1 DEF ReadIn
    <3>4. NextRecord(r) <= writing.hdr
      <4>1. \A j \in H : j > r => j >= NextRecord(r) BY <1>2, <2>1 DEF Filled, Chain
      <4>2. r > writing.hdr => r >= F BY <1>2, <1>7, <2>1 DEF Filled, Chain
      <4>3. writing.hdr \in Nat /\ r < F BY <1>6, <1>7, <2>1
      <4>4. writing.hdr > r BY <1>6, <2>3, <2>4, <4>2, <4>3
      <4> QED BY <1>7, <2>3, <4>1, <4>3, <4>4
    <3>5. \A i \in 1..WordsFor(Size[k]) : flash'[r + i] = flash[r + i]
      <4> SUFFICES ASSUME NEW i \in 1..WordsFor(Size[k]) PROVE flash'[r + i] = flash[r + i]
        OBVIOUS
      <4>1. PICK hdr \in H : hdr = writing.hdr BY <1>7
      <4>2. hdr \in Nat /\ hdr < F /\ F \in Nat /\ r + i < hdr BY <1>6, <2>3, <3>4, <4>1
      <4>3. r + i \in 0..F /\ r + i # writing.at BY <1>7, <2>3, <4>1, <4>2
      <4> QED BY <1>3, <1>6, <4>3
    <3> QED BY <3>2, <3>3, <3>5
  <2>5. CASE r = writing.hdr
    <3>1. Settled(k) = <<>> BY <1>1, <1>4, <2>5 DEF ReadIn
    <3>2. CASE writing' # None
      <4>1. writing'.hdr = writing.hdr BY <1>1, <3>2 DEF NVwriteData
      <4> QED BY <1>5, <1>9, <2>5, <3>1, <3>2, <4>1 DEF ReadIn
    <3>3. CASE writing' = None
      <4>1. writing.left = 1
        <5>1. writing'.hdr \notin H BY <1>6, <3>3 DEF None
        <5>2. CASE writing.left # 1
          <6>1. writing' = [writing EXCEPT !.at = writing.at + 1, !.left = writing.left - 1]
            BY <5>2 DEF NVwriteData
          <6>2. writing'.hdr = writing.hdr BY <1>1, <6>1
          <6> QED BY <1>7, <5>1, <6>2
        <5> QED BY <5>2
      <4>2. Settled(k)' = [i \in 1..WordsFor(Size[k]) |-> flash'[r + i]]
        <5>1. ~(writing' # None /\ r = writing'.hdr) BY <3>3
        <5> QED BY <1>5, <1>9, <1>11, <5>1 DEF ReadIn
      <4>3. writing.at = r + WordsFor(Size[k]) BY <1>7, <2>2, <2>3, <2>5, <4>1
      <4>4. \A i \in 1..WordsFor(Size[k]) : flash'[r + i] = writing.word
        <5> SUFFICES ASSUME NEW i \in 1..WordsFor(Size[k]) PROVE flash'[r + i] = writing.word
          OBVIOUS
        <5>1. CASE i = WordsFor(Size[k]) BY <1>3, <4>3, <5>1
        <5>2. CASE i # WordsFor(Size[k])
          <6>1. r + i \in (writing.hdr + 1)..(writing.at - 1) /\ r + i \in 0..F /\ r + i # writing.at
            BY <1>6, <2>3, <2>5, <4>3, <5>2
          <6> QED BY <1>3, <1>6, <1>7, <6>1
        <5> QED BY <5>1, <5>2
      <4>5. Settled(k)' = [i \in 1..WordsFor(Size[k]) |-> writing.word] BY <4>2, <4>4
      <4>6. Settled(k)' \in Values(k) BY <1>7, <4>5 DEF Values
      <4> QED BY <2>2, <2>5, <3>1, <4>6
    <3> QED BY <3>2, <3>3
  <2> QED BY <2>4, <2>5
<1> QED BY <1>10, <1>11

(* After power was lost a value may be there as far as it was written.     *)
LEMMA PowerLossIsSeen ==
  ASSUME HasRoom, StoreInv, erased, PowerLoss, NEW k \in Keys
  PROVE  \/ Settled(k)' = Settled(k)
         \/ /\ Settled(k) = <<>> /\ flash[writing.hdr] = Header(k)
            /\ \E value \in Values(k) : \E n \in 0..(Len(value) - 1) :
                 Settled(k)' = Records!Begun(value, n)
<1>1. /\ flash \in [Addr -> Word] /\ writing # None /\ flash' = flash /\ writing' = None
      /\ writes' = writes
  BY DEF StoreInv, PowerLoss
<1>2. PICK H \in SUBSET Addr, F \in Addr : Filled(H, F) BY DEF StoreInv
<1>3. Filled(H, F)' /\ flash' \in [Addr -> Word] BY <1>1, <1>2, FlashKeepsFilled
<1>4. PICK r : ReadIn(flash, H, writing, k, r, Settled(k)) BY <1>1, <1>2, ReadBefore DEF Filled
<1>5. PICK s : ReadIn(flash', H, writing', k, s, Settled(k)') BY <1>3, ReadAfter DEF Filled
<1>6. H \in SUBSET Nat BY <1>1, <1>2, ChainShape DEF Filled
<1>7. r = s BY <1>1, <1>4, <1>5, <1>6, FoundIsOne DEF ReadIn
<1>8. Settled(k)' = IF r = Nowhere THEN <<>> ELSE [i \in 1..WordsFor(Size[k]) |-> flash[r + i]]
  BY <1>1, <1>5, <1>7 DEF ReadIn
<1>9. CASE r = Nowhere \/ r # writing.hdr BY <1>4, <1>8, <1>9 DEF ReadIn
<1>10. CASE r # Nowhere /\ r = writing.hdr
  <2>1. Settled(k) = <<>> BY <1>1, <1>4, <1>10 DEF ReadIn
  <2>2. r \in H /\ flash[r].appId = k[1] /\ flash[r].dataId = k[2]
    BY <1>4, <1>10 DEF ReadIn, FoundIn
  <2>3. flash[r] = Header(k) /\ flash[r].dataSize = Size[k]
    <3>1. PICK j \in Keys : flash[r] = Header(j) BY <1>2, <2>2 DEF Filled, Chain
    <3>2. j[1] = k[1] /\ j[2] = k[2] BY <2>2, <3>1 DEF Header
    <3>3. j = k
      <4>1. j \in (0..254) \X Byte /\ k \in (0..254) \X Byte BY FlashAssumption
      <4> QED BY <3>2, <4>1
    <3> QED BY <3>1, <3>3 DEF Header
  <2> DEFINE n == WordsFor(Size[k])
             at == writing.at
             value == [i \in 1..n |-> writing.word]
             m == at - r - 1
  <2>4. /\ r \in Nat /\ n \in Nat \ {0} /\ at \in Nat /\ writing.left \in Nat \ {0} /\ at > r
        /\ at + writing.left = r + 1 + n /\ writing.word \in DataWords
        /\ \A a \in (r + 1)..(at - 1) : flash[a] = writing.word
        /\ \A a \in at..(at + writing.left - 1) : flash[a] = Erased
    BY <1>1, <1>2, <1>6, <1>10, <2>2, <2>3, HeaderShape DEF Filled, WritingInv
  <2>5. value \in Values(k) BY <2>4 DEF Values
  <2> HIDE DEF n
  <2>6. Len(value) = n /\ DOMAIN value = 1..n BY <2>4
  <2>7. m \in 0..(Len(value) - 1)
    <3> HIDE DEF value
    <3> QED BY <2>4, <2>6
  <2>8. \A i \in 1..n : flash[r + i] = IF i <= m THEN writing.word ELSE Erased
    <3> SUFFICES ASSUME NEW i \in 1..n
                 PROVE  flash[r + i] = IF i <= m THEN writing.word ELSE Erased
      OBVIOUS
    <3>1. CASE i <= m
      <4>1. r + i \in (r + 1)..(at - 1) BY <2>4, <3>1
      <4> QED BY <2>4, <3>1, <4>1
    <3>2. CASE ~(i <= m)
      <4>1. r + i \in at..(at + writing.left - 1) BY <2>4, <3>2
      <4> QED BY <2>4, <3>2, <4>1
    <3> QED BY <3>1, <3>2
  <2>9. Settled(k)' = [i \in 1..n |-> flash[r + i]] BY <1>8, <1>10 DEF n
  <2>10. Settled(k)' = Records!Begun(value, m)
    <3> HIDE DEF m
    <3> QED BY <2>6, <2>8, <2>9 DEF Records!Begun
  <2> HIDE DEF value, m
  <2> QED BY <1>10, <2>1, <2>3, <2>5, <2>7, <2>10
<1> QED BY <1>9, <1>10

(* Nothing is read from an erased page.                                    *)
LEMMA EraseIsSeen ==
  ASSUME HasRoom, StoreInv, flashErasePage, NEW k \in Keys
  PROVE  Settled(k)' = <<>>
<1>1. flash \in [Addr -> Word] /\ writing = None BY DEF StoreInv, flashErasePage
<1>2. Filled({}, 0)' /\ flash' \in [Addr -> Word] BY <1>1, EraseEmpties
<1>3. PICK s : ReadIn(flash', {}, writing', k, s, Settled(k)') BY <1>2, ReadAfter DEF Filled
<1> QED BY <1>3 DEF ReadIn, FoundIn

(* A header belongs to one key.                                            *)
LEMMA HeaderIsOfOne ==
  ASSUME NEW j \in Keys, NEW k \in Keys, Header(j) = Header(k)
  PROVE  j = k
<1>1. j[1] = k[1] /\ j[2] = k[2] BY DEF Header
<1>2. j \in (0..254) \X Byte /\ k \in (0..254) \X Byte BY FlashAssumption
<1> QED BY <1>1, <1>2

\* What the page holds: nothing that counts before it is erased.
Stored == [k \in Keys |-> IF erased THEN Settled(k) ELSE <<>>]

(* A change of one value is a step of the store.                           *)
LEMMA OneIsStored ==
  ASSUME NEW k \in Keys, NEW value, erased = TRUE, erased' = TRUE,
         Settled(k) = <<>>, Settled(k)' = value,
         \A j \in Keys : j # k => Settled(j)' = Settled(j)
  PROVE  Records!Store(k, value)
<1>1. Stored[k] = <<>> /\ Stored' = [Stored EXCEPT ![k] = value] BY DEF Stored
<1> QED BY <1>1 DEF Records!Store, Stored

(* Every step is one of the store, or none.                                *)
LEMMA StoreStep ==
  ASSUME HasRoom, StoreInv, [Next]_vars
  PROVE  [Records!Next]_<<Stored, erased>>
<1>1. CASE UNCHANGED vars
  <2>1. flash' = flash /\ writing' = writing /\ erased' = erased BY <1>1 DEF vars
  <2>2. \A k \in Keys : Settled(k)' = Settled(k)
    BY <2>1 DEF Settled, NVread, RecordOf, Matches, NextRecord
  <2> QED BY <2>1, <2>2 DEF Stored
<1>2. CASE flashErasePage
  <2>1. \A k \in Keys : Settled(k)' = <<>> BY <1>2, EraseIsSeen
  <2>2. erased' = TRUE BY <1>2 DEF flashErasePage
  <2>3. Stored' = [k \in Keys |-> <<>>] BY <2>1, <2>2 DEF Stored
  <2>4. Records!Erase BY <2>2, <2>3 DEF Records!Erase, Stored
  <2> QED BY <2>4 DEF Records!Next
<1>3. CASE ~erased /\ ~flashErasePage /\ Next
  <2>1. ~erased'
    <3>1. (\E k \in Keys : NVwrite(k)) \/ NVwriteData \/ PowerLoss BY <1>3 DEF Next
    <3> QED BY <1>3, <3>1, PageIsLeftAlone
  <2>2. erased = FALSE /\ erased' = FALSE
    <3>1. erased \in BOOLEAN /\ erased' \in BOOLEAN BY NextInv DEF StoreInv
    <3> QED BY <1>3, <2>1, <3>1
  <2> QED BY <2>2 DEF Stored
<1>4. CASE erased /\ ~flashErasePage /\ Next /\ Stored' # Stored
  <2>1. erased = TRUE /\ erased' = TRUE
    BY <1>4 DEF StoreInv, Next, NVwrite, NVwriteData, PowerLoss
  <2> DEFINE Same(k) == Settled(k)' = Settled(k)
  <2>2. \E k \in Keys : ~Same(k) BY <1>4, <2>1 DEF Stored
  <2>3. ASSUME NEW k0 \in Keys, NVwrite(k0) PROVE FALSE BY <1>4, <2>2, <2>3, NVwriteIsUnseen
  <2>4. CASE NVwriteData
    <3>1. PICK k \in Keys : ~Same(k) BY <2>2
    <3>2. Settled(k) = <<>> /\ Settled(k)' \in Values(k) /\ flash[writing.hdr] = Header(k)
      BY <1>4, <2>4, <3>1, NVwriteDataIsSeen
    <3>3. \A j \in Keys : j # k => Same(j)
      BY <1>4, <2>4, <3>2, NVwriteDataIsSeen, HeaderIsOfOne
    <3>4. Records!Store(k, Settled(k)') BY <2>1, <3>2, <3>3, OneIsStored
    <3> QED BY <3>2, <3>4 DEF Records!Next, Records!Write
  <2>5. CASE PowerLoss
    <3>1. PICK k \in Keys : ~Same(k) BY <2>2
    <3>2. /\ Settled(k) = <<>> /\ flash[writing.hdr] = Header(k)
          /\ \E value \in Values(k) : \E n \in 0..(Len(value) - 1) :
               Settled(k)' = Records!Begun(value, n)
      BY <1>4, <2>5, <3>1, PowerLossIsSeen
    <3>3. \A j \in Keys : j # k => Same(j)
      BY <1>4, <2>5, <3>2, PowerLossIsSeen, HeaderIsOfOne
    <3>4. PICK value \in Values(k) :
            \E n \in 0..(Len(value) - 1) : Settled(k)' = Records!Begun(value, n)
      BY <3>2
    <3>5. PICK n \in 0..(Len(value) - 1) : Settled(k)' = Records!Begun(value, n) BY <3>4
    <3>6. Records!Store(k, Records!Begun(value, n)) BY <2>1, <3>2, <3>3, <3>5, OneIsStored
    <3>7. Records!PowerLost(k) BY <3>6 DEF Records!PowerLost
    <3> QED BY <3>7 DEF Records!Next
  <2> QED BY <1>4, <2>3, <2>4, <2>5 DEF Next
<1>5. CASE erased /\ ~flashErasePage /\ Next /\ Stored' = Stored
  <2>1. erased' = erased BY <1>5 DEF Next, NVwrite, NVwriteData, PowerLoss
  <2> QED BY <1>5, <2>1
<1> QED BY <1>1, <1>2, <1>3, <1>4, <1>5

\* As long as the page has room, the flash is a store that begins when its page
\* is erased, in which the first value of a key stays, whatever is written later
\* and wherever power is lost (FirstWriteIsKept: NVwrite, NVread,
\* flashErasePage).
THEOREM FirstValueStays == ASSUME HasRoom PROVE Spec => FirstWriteIsKept
<1>1. Init => Records!Init BY DEF Init, Records!Init
<1>2. StoreInv /\ [Next]_vars => [Records!Next]_(Records!vars)
  <2>1. Records!vars = <<Stored, erased>> BY DEF Records!vars, Stored
  <2>2. Records!vars' = <<Stored, erased>>' BY DEF Records!vars, Stored
  <2> QED BY <2>1, <2>2, StoreStep
<1> QED BY <1>1, <1>2, StoreInvariant, PTL DEF Spec, FirstWriteIsKept, Records!Spec

-----------------------------------------------------------------------------
(* The other properties.                                                   *)

\* Every word and counter keeps its range, and once the page was erased a write
\* ends where its record does.
THEOREM FlashTypeCorrect == ASSUME HasRoom PROVE Spec => []TypeOK
<1>1. StoreInv => TypeOK
  <2> SUFFICES ASSUME StoreInv, writing # None PROVE TypeOK BY DEF StoreInv, TypeOK
  <2>1. /\ flash \in [Addr -> Word] /\ writes \in 0..MaxWrites /\ erased \in BOOLEAN
        /\ writing \in [hdr : Addr \cup {Nowhere}, at : Nat, left : Nat, word : Word]
    BY DEF StoreInv
  <2>2. CASE erased
    <3>1. PICK H \in SUBSET Addr, F \in Addr : Filled(H, F) BY <2>2 DEF StoreInv
    <3>2. /\ writing.hdr \in H /\ NextRecord(writing.hdr) = F
          /\ writing.word \in DataWords
          /\ writing.at \in Nat /\ writing.left \in Nat \ {0} /\ writing.at > writing.hdr
          /\ writing.at + writing.left = writing.hdr + 1 + WordsFor(flash[writing.hdr].dataSize)
      BY <3>1 DEF Filled, WritingInv
    <3>3. /\ F \in Nat /\ 0..F \subseteq Addr /\ writing.hdr \in Nat
          /\ WordsFor(flash[writing.hdr].dataSize) \in Nat
          /\ writing.hdr + WordsFor(flash[writing.hdr].dataSize) < F
      BY <2>1, <3>1, <3>2, ChainShape DEF Filled
    <3> HIDE DEF WordsFor, NextRecord
    <3>4. writing.at \in 0..F BY <3>2, <3>3
    <3> QED BY <2>1, <3>1, <3>2, <3>3, <3>4 DEF TypeOK
  <2>3. CASE ~erased
    <3>1. /\ writing.hdr \in PageWords..FLASHSIZE /\ writing.at > writing.hdr
          /\ writing.left \in Nat \ {0} /\ writing.at + writing.left <= LastAddr
          /\ writing.word \in DataWords
      BY <2>3 DEF StoreInv, Unformatted
    <3>2. /\ PageWords \in Nat /\ FLASHSIZE \in Nat /\ LastAddr \in Nat
          /\ Addr = 0..LastAddr /\ LastAddr > FLASHSIZE
      BY <2>1, FlashAssumption, ScanGoesOn
    <3> HIDE DEF LastAddr, Addr
    <3>3. writing.hdr \in Addr /\ writing.at \in Addr /\ writing.left > 0 BY <2>1, <3>1, <3>2
    <3> QED BY <2>1, <2>3, <3>1, <3>3 DEF TypeOK
  <2> QED BY <2>2, <2>3
<1> QED BY <1>1, StoreInvariant, PTL

\* A word that was written is not written again before the page is erased, in
\* the whole memory once the page was erased and in the page before
\* (ProgramsErasedWords: NVwrite's search for the end of the data).
THEOREM WrittenOnce == ASSUME HasRoom PROVE Spec => ProgramsErasedWords
<1> DEFINE Fresh == \A a \in Addr : erased \/ a < PageWords =>
                      flash'[a] = flash[a] \/ flash[a] = Erased \/ flash'[a] = Erased
<1>1. StoreInv /\ [Next]_vars => [Fresh]_flash
  <2> SUFFICES ASSUME StoreInv, [Next]_vars, flash' # flash PROVE Fresh OBVIOUS
  <2>1. flash \in [Addr -> Word] BY DEF StoreInv
  <2>2. ASSUME erased, NEW k \in Keys, NVwrite(k) PROVE Fresh
    <3>1. writes \in 0..MaxWrites /\ writes < MaxWrites BY <2>2 DEF StoreInv, NVwrite
    <3>2. PICK H \in SUBSET Addr, F \in Addr : Filled(H, F) BY <2>2 DEF StoreInv
    <3>3. \A a \in Addr : a # F => flash'[a] = flash[a]
      BY <2>1, <2>2, <3>1, <3>2, NVwriteExtends
    <3>4. flash[F] = Erased BY <2>1, <3>2, ChainShape DEF Filled
    <3> QED BY <3>3, <3>4
  <2>3. CASE erased /\ NVwriteData
    <3>1. writing # None
          /\ writing \in [hdr : Addr \cup {Nowhere}, at : Nat, left : Nat, word : Word]
      BY <2>3 DEF StoreInv, NVwriteData
    <3>2. PICK H \in SUBSET Addr, F \in Addr : Filled(H, F) BY <2>3 DEF StoreInv
    <3>3. /\ flash[writing.at] = Erased
          /\ \A a \in Addr : a # writing.at => flash'[a] = flash[a]
      BY <2>1, <2>3, <3>1, <3>2, NVwriteDataFills
    <3> QED BY <3>3
  <2>4. CASE flashErasePage BY <2>1, <2>4 DEF flashErasePage
  <2>5. CASE ~erased /\ ~flashErasePage
    <3>1. (\E k \in Keys : NVwrite(k)) \/ NVwriteData \/ PowerLoss BY <2>5 DEF Next, vars
    <3>2. \A a \in 0..(PageWords - 1) : flash'[a] = flash[a] BY <2>5, <3>1, PageIsLeftAlone
    <3>3. \A a \in Addr : a < PageWords => a \in 0..(PageWords - 1)
      BY FlashAssumption, ScanGoesOn, <2>1
    <3> QED BY <2>5, <3>2, <3>3
  <2> QED BY <2>2, <2>3, <2>4, <2>5 DEF Next, PowerLoss, vars
<1> QED BY <1>1, StoreInvariant, PTL DEF Spec, ProgramsErasedWords

\* Once the page was erased, and as long as it has room, no record is written
\* past its end (WritesInPage: NVwrite never asks).
THEOREM NothingPastThePage == ASSUME HasRoom PROVE Spec => []WritesInPage
<1>1. StoreInv => WritesInPage
  <2> SUFFICES ASSUME StoreInv, erased, writing # None PROVE writing.at < PageWords
    BY DEF WritesInPage
  <2>1. flash \in [Addr -> Word] BY DEF StoreInv
  <2>2. PICK H \in SUBSET Addr, F \in Addr : Filled(H, F) BY DEF StoreInv
  <2>3. /\ writing.hdr \in H /\ NextRecord(writing.hdr) = F
        /\ writing.at \in Nat /\ writing.left \in Nat \ {0}
        /\ writing.at + writing.left = writing.hdr + 1 + WordsFor(flash[writing.hdr].dataSize)
    BY <2>2 DEF Filled, WritingInv
  <2>4. /\ F \in Nat /\ F < PageWords /\ writing.hdr \in Nat
        /\ WordsFor(flash[writing.hdr].dataSize) \in Nat
        /\ writing.hdr + WordsFor(flash[writing.hdr].dataSize) < F
    BY <2>1, <2>2, <2>3, ChainShape DEF Filled
  <2> HIDE DEF WordsFor, NextRecord
  <2> QED BY <2>3, <2>4, FlashAssumption
<1> QED BY <1>1, StoreInvariant, PTL
=============================================================================
