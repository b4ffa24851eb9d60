SPECIFICATION Spec
CONSTANTS
  Words <- MC_Words
  Names <- MC_Names
  HELP = "HELP"
  INFO = "INFO"
  Requests <- MC_Requests
  Junk <- MC_Junk
  Kinds <- MC_Kinds
  MaxRegistered = 3
INVARIANTS
  TypeOK
  NamesUnique
PROPERTIES
  ImplementsTable
