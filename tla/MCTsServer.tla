----------------------------- MODULE MCTsServer -----------------------------
(***************************************************************************)
(* Small instances of TsServer for TLC: the kinds of request the extension *)
(* executes.                                                               *)
(***************************************************************************)
EXTENDS TsServer

Kind(type, expects, async, writable) ==
  [queueingType |-> type, expectsResponse |-> expects, isAsync |-> async, writable |-> writable]

Query    == Kind("Normal", TRUE, FALSE, TRUE)        \* 'quickinfo', 'completionInfo', ...
CodeLens == Kind("LowPriority", TRUE, FALSE, TRUE)   \* 'references' of a code lens
Edit     == Kind("Fence", TRUE, FALSE, TRUE)         \* 'updateOpen'
OldEdit  == Kind("Fence", FALSE, FALSE, TRUE)        \* 'open', 'change', 'close'
GetErr   == Kind("Normal", TRUE, TRUE, TRUE)         \* 'geterr'
BadQuery == Kind("Normal", TRUE, FALSE, FALSE)       \* arguments that do not serialise
BadEdit  == Kind("Fence", FALSE, FALSE, FALSE)

QueueKinds  == {Query, CodeLens, Edit}
AnswerKinds == {Query, OldEdit, GetErr, BadQuery, BadEdit}
=============================================================================
