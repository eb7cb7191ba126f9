SPECIFICATION Spec
CONSTANTS
  Keys <- UsedKeys
  Size <- KeySizes
  DataWords <- Misleading
  PageWords = 40
  FLASHSIZE = 160
  Programs <- SomePrograms
  MaxWrites = 3
INVARIANT TypeOK
PROPERTIES FirstWriteIsKept ProgramsErasedWords
