---------------------------- MODULE RecordStore -----------------------------
(***************************************************************************)
(* What flash.c gives its callers: a store in which the first value        *)
(* written under a pair of identifiers stays until the page is erased.     *)
(* Power lost during a write leaves a beginning of the value.  <<>> stands *)
(* for nothing (NVread returns 0).  The page must be erased before it is   *)
(* used: until then nothing is said of what is read or written.            *)
(***************************************************************************)
EXTENDS Naturals, Sequences

CONSTANTS
  Keys,           \* pairs of an appId and a dataId
  Contents(_),    \* the values a caller writes under a key
  Blank           \* a word that was not written

VARIABLES
  stored,
  formatted       \* the page was erased

vars == <<stored, formatted>>

Init == stored = [k \in Keys |-> <<>>] /\ formatted = FALSE

Store(k, value) ==
  /\ formatted /\ stored[k] = <<>>
  /\ stored' = [stored EXCEPT ![k] = value]
  /\ UNCHANGED formatted

Write(k) == \E value \in Contents(k) : Store(k, value)

Begun(value, n) == [i \in DOMAIN value |-> IF i <= n THEN value[i] ELSE Blank]

PowerLost(k) ==
  \E value \in Contents(k) : \E n \in 0..(Len(value) - 1) : Store(k, Begun(value, n))

Erase == stored' = [k \in Keys |-> <<>>] /\ formatted' = TRUE

Next == Erase \/ \E k \in Keys : Write(k) \/ PowerLost(k)

Spec == Init /\ [][Next]_vars
=============================================================================
