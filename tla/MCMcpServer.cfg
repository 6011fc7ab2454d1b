\* Three lines to the server; the other agent makes any number of calls.
SPECIFICATION ServerSpec
CONSTANTS
  server = server
  builder = builder
  Agents = {server, builder}
  Server = server
  Operations <- MCOperations
  Texts <- MCTexts
  Lines <- MCLines
  MaxChanges = 1
  MaxFailures = 1
  MaxLines = 3
INVARIANTS
  FilesWhole
  AnsweredOnce
PROPERTIES
  EditReplacesOne
CHECK_DEADLOCK FALSE
