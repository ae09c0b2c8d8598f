SPECIFICATION Spec
CONSTANTS
  None = None
  File <- MCFile
  Descriptor <- MCDescriptor
  Argv <- MCArgv
  Env <- MCEnv
  TestCases = 3
INVARIANTS TypeOK CasesAsAsked ThreadsAreJoined
PROPERTY Ends
