--------------------------- MODULE EngineSession ---------------------------
(***************************************************************************)
(* engine_client.py: one EngineClient object under `async with`, entered   *)
(* any number of times, with a failure (or a cancellation) possible at     *)
(* each of its awaits.                                                     *)
(*                                                                         *)
(* External: the two SDK contexts (a transport, a session over it), closed *)
(* by their __aexit__ whether or not that raises, and AsyncExitStack, which *)
(* closes last in first out and goes on when a close raises.               *)
(***************************************************************************)
EXTENDS Naturals, Sequences

CONSTANTS
  None,
  MaxEntries   \* bound: uses of the object in `async with`

ASSUME BoundAssumption == MaxEntries \in Nat

VARIABLES
  pc,        \* "out", "transport", "session", "initialize", "body" or "closing"
  entry,     \* which use of the object this is
  stack,     \* _stack: the contexts it would close, or None
  sess,      \* _sess: the session of some entry, or None
  open,      \* the contexts that are open in the world
  abandoned, \* history: the entries whose __aenter__ raised
  request,   \* the entry whose session the last request went out on
  raised     \* how the last method ended: None, an exception, or what _call() returned

vars == <<pc, entry, stack, sess, open, abandoned, request, raised>>

Transport(e) == <<"transport", e>>
Session(e)   == <<"session", e>>

Init ==
  /\ pc = "out" /\ entry = 0 /\ stack = None /\ sess = None
  /\ open = {} /\ abandoned = {} /\ request = None /\ raised = None

----------------------------------------------------------------------------
(* __aenter__ *)

Enter ==
  /\ pc = "out" /\ entry < MaxEntries
  /\ pc' = "transport" /\ entry' = entry + 1 /\ stack' = <<>> /\ raised' = None
  /\ UNCHANGED <<sess, open, abandoned, request>>

OpenTransport ==
  /\ pc = "transport" /\ pc' = "session"
  /\ open' = open \cup {Transport(entry)} /\ stack' = Append(stack, Transport(entry))
  /\ UNCHANGED <<entry, sess, abandoned, request, raised>>

OpenSessionOnce ==
  /\ pc = "session" /\ pc' = "initialize"
  /\ open' = open \cup {Session(entry)} /\ stack' = Append(stack, Session(entry))
  /\ sess' = IF sess = None THEN entry ELSE sess
  /\ UNCHANGED <<entry, abandoned, request, raised>>
OpenSessionUnstacked ==
  /\ pc = "session" /\ pc' = "initialize"
  /\ open' = open \cup {Session(entry)} /\ sess' = entry
  /\ UNCHANGED <<entry, stack, abandoned, request, raised>>
OpenSession ==
  /\ pc = "session" /\ pc' = "initialize"
  /\ open' = open \cup {Session(entry)} /\ stack' = Append(stack, Session(entry))
  /\ sess' = entry
  /\ UNCHANGED <<entry, abandoned, request, raised>>

Initialize ==
  /\ pc = "initialize" /\ pc' = "body"
  /\ UNCHANGED <<entry, stack, sess, open, abandoned, request, raised>>

\* An await of __aenter__ raises: `async with` does not call __aexit__ then.
EnterFails ==
  /\ pc \in {"transport", "session", "initialize"}
  /\ pc' = "out" /\ abandoned' = abandoned \cup {entry} /\ raised' = "enter"
  /\ UNCHANGED <<entry, stack, sess, open, request>>

----------------------------------------------------------------------------
(* _call() and the methods over it *)

\* What _call() makes of a result: its structured content, {} for none, or an
\* EngineError with the engine's code, "ERROR" for none.
Results == {"content", "{}", "EngineError(code)", "EngineError(ERROR)", "connection"}

\* None is no session and no outcome of a method.
ASSUME NoneAssumption == None \notin Nat /\ None \notin Results \cup {"AssertionError", "close"}

Call ==
  /\ pc = "body"
  /\ IF sess = None THEN raised' = "AssertionError" /\ UNCHANGED request
     ELSE raised' \in Results /\ request' = sess
  /\ UNCHANGED <<pc, entry, stack, sess, open, abandoned>>

----------------------------------------------------------------------------
(* __aexit__ *)

LeaveBody ==
  /\ pc = "body" /\ pc' = "closing"
  /\ UNCHANGED <<entry, stack, sess, open, abandoned, request, raised>>

\* aclose() closes the newest context, which may raise.
CloseOldest ==
  /\ pc = "closing" /\ stack # <<>>
  /\ open' = open \ {Head(stack)} /\ stack' = Tail(stack)
  /\ raised' \in {raised, "close"}
  /\ UNCHANGED <<pc, entry, sess, abandoned, request>>
CloseNewestOrStop ==
  /\ pc = "closing" /\ stack # <<>> /\ raised # "close"
  /\ open' = open \ {stack[Len(stack)]} /\ stack' = SubSeq(stack, 1, Len(stack) - 1)
  /\ raised' \in {raised, "close"}
  /\ UNCHANGED <<pc, entry, sess, abandoned, request>>
CloseNewest ==
  /\ pc = "closing" /\ stack # <<>>
  /\ open' = open \ {stack[Len(stack)]} /\ stack' = SubSeq(stack, 1, Len(stack) - 1)
  /\ raised' \in {raised, "close"}
  /\ UNCHANGED <<pc, entry, sess, abandoned, request>>

\* When a close raised, aclose() does, and the two attributes stay as they are.
Exit ==
  /\ pc = "closing" /\ stack = <<>> /\ pc' = "out"
  /\ IF raised = "close" THEN UNCHANGED <<stack, sess>> ELSE stack' = None /\ sess' = None
  /\ UNCHANGED <<entry, open, abandoned, request, raised>>

Next ==
  \/ Enter \/ OpenTransport \/ OpenSession \/ Initialize \/ EnterFails
  \/ Call \/ LeaveBody \/ CloseNewest \/ Exit

Spec == Init /\ [][Next]_vars

\* aclose() awaits each close, and every close returns or raises.
FairSpec == Spec /\ WF_vars(CloseNewest)

----------------------------------------------------------------------------
Entries == 1..MaxEntries

\* No session outlives the transport it speaks over, at any await of any entry
\* or exit, failed ones included.
SessionsHaveTransports == \A e \in Entries : Session(e) \in open => Transport(e) \in open

\* A request goes out on the session of the entry it is made in, and that one
\* is open; the assertion of _call() (line 46) cannot fail under `async with`,
\* though a failed exit leaves _sess of a dead session behind.
CallsReachTheOpenSession ==
  /\ pc = "body" => Session(entry) \in open
  /\ pc = "body" /\ raised \in Results => request = entry
  /\ raised # "AssertionError"

\* After the block nothing is open that it opened, however the body and the
\* closes ended: the one leak is an __aenter__ that raised, whose contexts no
\* one closes.
OnlyAbandonedEntriesLeak ==
  /\ pc = "out" => \A e \in Entries : {Transport(e), Session(e)} \cap open # {} => e \in abandoned
  /\ \A e \in Entries : Transport(e) \in open => e = entry \/ e \in abandoned

\* Leaving the block does end in everything of that entry being closed: a close
\* that raises does not keep the ones below it from being made.
ExitReleases ==
  \A e \in Entries :
    pc = "closing" /\ entry = e ~> {Transport(e), Session(e)} \cap open = {}
=============================================================================
