---------------------------- MODULE MCFlashStore ----------------------------
(***************************************************************************)
(* Small instances of FlashStore: the keys in use, with the settings       *)
(* (identifiers 0, 0) cut from 52 bytes to 12.                             *)
(***************************************************************************)
EXTENDS FlashStore, TLC

Settings == <<0, 0>>
Console0 == <<1, 0>>
Console1 == <<1, 1>>
BirdScore == <<3, 0>>

UsedKeys == {Settings, Console0, Console1, BirdScore}

KeySizes == (Settings :> 12) @@ (Console0 :> 8) @@ (Console1 :> 8) @@ (BirdScore :> 1)

\* Data that looks like a header, and data that looks like an erased one.
Misleading == {[appId |-> 3, dataId |-> 0, dataSize |-> 1],
               [appId |-> 255, dataId |-> 0, dataSize |-> 0]}

\* Memory after the page: zeros, but for a record that nobody wrote and a word
\* that ends a search although it is not erased.
Instruction == [appId |-> 255, dataId |-> 171, dataSize |-> 205]
FalseRecord == [appId |-> 1, dataId |-> 0, dataSize |-> 8]
ProgramWith(words) == [a \in Addr |-> IF a \in DOMAIN words THEN words[a] ELSE Zero]
SomePrograms == {ProgramWith(55 :> Instruction),
                 ProgramWith((45 :> FalseRecord) @@ (70 :> Instruction))}

\* Three writes fit, whatever they write; four may not.
ASSUME ThreeHaveRoom == HasRoom <=> MaxWrites <= 3
=============================================================================
