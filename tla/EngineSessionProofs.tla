------------------------ MODULE EngineSessionProofs ------------------------
(***************************************************************************)
(* Proofs about EngineSession, for any number of entries: what is open, by *)
(* where the object is in its `async with`, is what its stack would close. *)
(***************************************************************************)
EXTENDS EngineSession, SequenceTheorems, TLAPS

SessionTyped ==
  /\ pc \in {"out", "transport", "session", "initialize", "body", "closing"}
  /\ entry \in 0..MaxEntries

\* The current entry: its stack holds exactly what it has open.
StackIsOpen ==
  LET T == Transport(entry)
      S == Session(entry)
  IN /\ pc = "transport" => stack = <<>> /\ T \notin open /\ S \notin open
     /\ pc = "session" => stack = <<T>> /\ T \in open /\ S \notin open
     /\ pc \in {"initialize", "body"} => stack = <<T, S>> /\ T \in open /\ S \in open
     /\ pc = "closing" => \/ stack = <<T, S>> /\ T \in open /\ S \in open
                          \/ stack = <<T>> /\ T \in open /\ S \notin open
                          \/ stack = <<>> /\ T \notin open /\ S \notin open

\* The entries before it left behind only what an __aenter__ that raised did,
\* and those after it have opened nothing.
OthersAreClosed ==
  \A e \in Nat :
    /\ Session(e) \in open => Transport(e) \in open
    /\ e > entry => Transport(e) \notin open
    /\ Transport(e) \in open => (e = entry /\ pc # "out") \/ e \in abandoned

\* A request can only be the body's, and _sess is its session then.
RequestsAreOurs ==
  /\ pc \in {"initialize", "body"} => sess = entry
  /\ pc \in {"transport", "session", "initialize"} => raised = None
  /\ pc = "body" /\ raised # None => request = entry
  /\ raised # "AssertionError"

SessionInv == SessionTyped /\ StackIsOpen /\ OthersAreClosed /\ RequestsAreOurs

----------------------------------------------------------------------------
LEMMA ContextsDiffer ==
  \A d, e : /\ Transport(d) # Session(e)
            /\ Transport(d) = Transport(e) <=> d = e
            /\ Session(d) = Session(e) <=> d = e
  BY DEF Transport, Session

\* aclose() takes the last context entered off the stack.
LEMMA PopOne ==
  ASSUME NEW a
  PROVE  <<a>>[Len(<<a>>)] = a /\ SubSeq(<<a>>, 1, Len(<<a>>) - 1) = <<>>
  OBVIOUS

LEMMA PopTwo ==
  ASSUME NEW a, NEW b
  PROVE  <<a, b>>[Len(<<a, b>>)] = b /\ SubSeq(<<a, b>>, 1, Len(<<a, b>>) - 1) = <<a>>
<1>1. Len(<<a, b>>) = 2 /\ <<a, b>>[2] = b /\ <<a, b>>[1] = a
  OBVIOUS
<1>2. <<a>> \in Seq({a, b}) /\ Len(<<a>>) = 1 /\ <<a>>[1] = a
  OBVIOUS
<1>3. /\ SubSeq(<<a, b>>, 1, 1) \in Seq({a, b}) /\ Len(SubSeq(<<a, b>>, 1, 1)) = 1
      /\ SubSeq(<<a, b>>, 1, 1)[1] = a
  <2>1. \A i \in 1..1 : <<a, b>>[i] \in {a, b}
    BY <1>1
  <2>2. 1 \in Int /\ 1 \in 1..(1 - 1 + 1) /\ 1 + 1 - 1 = 1
    OBVIOUS
  <2>3. QED
    BY <1>1, <2>1, <2>2, SubSeqProperties
<1>4. SubSeq(<<a, b>>, 1, 1) = <<a>>
  <2>1. \A i \in 1..Len(<<a>>) : <<a>>[i] = SubSeq(<<a, b>>, 1, 1)[i]
    BY <1>2, <1>3
  <2> HIDE <1>1
  <2>2. QED
    BY <1>2, <1>3, <2>1, SeqEqual
<1>5. QED
  BY <1>1, <1>4

LEMMA PushSecond ==
  ASSUME NEW a, NEW b
  PROVE  Append(<<a>>, b) = <<a, b>>
<1>1. <<a>> \in Seq({a, b}) /\ b \in {a, b} /\ Len(<<a>>) = 1 /\ <<a>>[1] = a
  OBVIOUS
<1>2. <<a, b>> \in Seq({a, b}) /\ Len(<<a, b>>) = 2 /\ <<a, b>>[1] = a /\ <<a, b>>[2] = b
  OBVIOUS
<1> DEFINE s == Append(<<a>>, b)
           t == <<a, b>>
<1>3. s \in Seq({a, b}) /\ Len(s) = 2 /\ s[1] = a /\ s[2] = b
  <2>1. s \in Seq({a, b}) /\ Len(s) = Len(<<a>>) + 1 /\ s[Len(<<a>>) + 1] = b
    BY <1>1, AppendProperties
  <2>2. s[1] = <<a>>[1]
    BY <1>1, AppendProperties
  <2>3. QED
    BY <1>1, <2>1, <2>2
<1> HIDE DEF s, t
<1>4. t \in Seq({a, b}) /\ Len(t) = 2 /\ t[1] = a /\ t[2] = b
  BY <1>2 DEF t
<1>5. \A i \in 1..Len(s) : s[i] = t[i]
  BY <1>3, <1>4
<1>6. s = t
  BY <1>3, <1>4, <1>5, SeqEqual
<1>7. QED
  BY <1>6 DEF s, t

\* What one close does, in terms of the stack it finds.
LEMMA CloseEffect ==
  ASSUME StackIsOpen, CloseNewest
  PROVE  \/ /\ stack = <<Transport(entry), Session(entry)>> /\ stack' = <<Transport(entry)>>
            /\ open' = open \ {Session(entry)}
         \/ /\ stack = <<Transport(entry)>> /\ stack' = <<>>
            /\ open' = open \ {Transport(entry)}
<1> DEFINE T == Transport(entry)
           S == Session(entry)
<1>1. pc = "closing" /\ stack # <<>>
  BY DEF CloseNewest
<1>2. stack = <<T, S>> \/ stack = <<T>>
  BY <1>1 DEF StackIsOpen
<1> HIDE DEF T, S
<1>3. CASE stack = <<T, S>>
  BY <1>3, PopTwo DEF CloseNewest, T, S
<1>4. CASE stack = <<T>>
  BY <1>4, PopOne DEF CloseNewest, T, S
<1>5. QED
  BY <1>2, <1>3, <1>4

LEMMA SessionInit == Init => SessionInv
  BY BoundAssumption, NoneAssumption
     DEF Init, SessionInv, SessionTyped, StackIsOpen, OthersAreClosed, RequestsAreOurs

LEMMA SessionStep ==
  ASSUME SessionInv, [Next]_vars
  PROVE  SessionInv'
<1> USE DEF SessionInv
<1>1. CASE Enter
  <2>1. /\ pc = "out" /\ pc' = "transport" /\ entry' = entry + 1 /\ stack' = <<>>
        /\ entry' \in 0..MaxEntries /\ entry \in Nat /\ entry' \in Nat
        /\ UNCHANGED <<sess, open, abandoned, request>> /\ raised' = None
    BY <1>1, BoundAssumption DEF Enter, SessionTyped
  <2>2. StackIsOpen'
    BY <2>1 DEF StackIsOpen, OthersAreClosed
  <2>3. OthersAreClosed'
    BY <2>1 DEF OthersAreClosed
  <2>4. QED
    BY <2>1, <2>2, <2>3, NoneAssumption DEF SessionTyped, RequestsAreOurs
<1>2. CASE OpenTransport
  <2>1. stack' = <<Transport(entry)>> /\ open' = open \cup {Transport(entry)}
    BY <1>2 DEF OpenTransport, StackIsOpen
  <2>2. StackIsOpen'
    BY <1>2, <2>1, ContextsDiffer DEF OpenTransport, StackIsOpen
  <2>3. OthersAreClosed'
    BY <1>2, <2>1, ContextsDiffer DEF OpenTransport, OthersAreClosed, SessionTyped
  <2>4. QED
    BY <1>2, <2>2, <2>3 DEF OpenTransport, SessionTyped, RequestsAreOurs
<1>3. CASE OpenSession
  <2>1. /\ stack' = <<Transport(entry), Session(entry)>> /\ open' = open \cup {Session(entry)}
        /\ Transport(entry) \in open
    <3>1. stack = <<Transport(entry)>> /\ Transport(entry) \in open
      BY <1>3 DEF OpenSession, StackIsOpen
    <3>2. QED
      BY <1>3, <3>1, PushSecond DEF OpenSession
  <2>2. StackIsOpen'
    BY <1>3, <2>1, ContextsDiffer DEF OpenSession, StackIsOpen
  <2>3. OthersAreClosed'
    BY <1>3, <2>1, ContextsDiffer DEF OpenSession, OthersAreClosed, SessionTyped
  <2>4. QED
    BY <1>3, <2>2, <2>3 DEF OpenSession, SessionTyped, RequestsAreOurs
<1>4. CASE Initialize
  BY <1>4 DEF Initialize, SessionTyped, StackIsOpen, OthersAreClosed, RequestsAreOurs
<1>5. CASE EnterFails
  BY <1>5, NoneAssumption
     DEF EnterFails, SessionTyped, StackIsOpen, OthersAreClosed, RequestsAreOurs
<1>6. CASE Call
  <2>1. sess = entry /\ sess # None
    BY <1>6, NoneAssumption DEF Call, RequestsAreOurs, SessionTyped
  <2>2. raised' \in Results /\ request' = entry
    BY <1>6, <2>1 DEF Call
  <2>3. RequestsAreOurs'
    BY <1>6, <2>1, <2>2 DEF Call, RequestsAreOurs, Results
  <2>4. QED
    BY <1>6, <2>3 DEF Call, SessionTyped, StackIsOpen, OthersAreClosed
<1>7. CASE LeaveBody
  BY <1>7 DEF LeaveBody, SessionTyped, StackIsOpen, OthersAreClosed, RequestsAreOurs
<1>8. CASE CloseNewest
  <2>1. pc = "closing" /\ UNCHANGED <<pc, entry, sess, abandoned, request>>
    BY <1>8 DEF CloseNewest
  <2>2. StackIsOpen'
    BY <1>8, <2>1, CloseEffect, ContextsDiffer DEF StackIsOpen
  <2>3. OthersAreClosed'
    <3>1. CASE open' = open \ {Session(entry)}
      BY <2>1, <3>1, ContextsDiffer DEF OthersAreClosed, SessionTyped
    <3>2. CASE stack = <<Transport(entry)>> /\ open' = open \ {Transport(entry)}
      <4>1. Session(entry) \notin open
        BY <2>1, <3>2 DEF StackIsOpen
      <4>2. QED
        BY <2>1, <3>2, <4>1, ContextsDiffer DEF OthersAreClosed, SessionTyped
    <3>3. QED
      BY <1>8, <3>1, <3>2, CloseEffect
  <2>4. QED
    BY <1>8, <2>1, <2>2, <2>3, NoneAssumption DEF CloseNewest, SessionTyped, RequestsAreOurs
<1>9. CASE Exit
  <2>1. Transport(entry) \notin open /\ pc' = "out" /\ UNCHANGED <<entry, open, abandoned, request, raised>>
    BY <1>9 DEF Exit, StackIsOpen
  <2>2. OthersAreClosed'
    BY <2>1 DEF OthersAreClosed
  <2>3. QED
    BY <2>1, <2>2 DEF SessionTyped, StackIsOpen, RequestsAreOurs
<1>10. CASE UNCHANGED vars
  BY <1>10 DEF vars, SessionTyped, StackIsOpen, OthersAreClosed, RequestsAreOurs
<1>11. QED
  BY <1>1, <1>2, <1>3, <1>4, <1>5, <1>6, <1>7, <1>8, <1>9, <1>10 DEF Next

THEOREM SessionInvariance == Spec => []SessionInv
  BY SessionInit, SessionStep, PTL DEF Spec

----------------------------------------------------------------------------
\* No session is ever open without the transport it speaks over, wherever
\* __aenter__ or __aexit__ stands (engine_client.py:30-42).
THEOREM SessionsAlwaysHaveTransports == Spec => []SessionsHaveTransports
<1>1. SessionInv => SessionsHaveTransports
  BY BoundAssumption DEF SessionInv, OthersAreClosed, SessionsHaveTransports, Entries
<1>2. QED
  BY <1>1, SessionInvariance, PTL

\* Requests go out on the entry's own open session, and the assertion of
\* _call() never fails in the block (engine_client.py:45-47).
THEOREM CallsAlwaysReachTheOpenSession == Spec => []CallsReachTheOpenSession
<1>1. SessionInv => CallsReachTheOpenSession
  BY NoneAssumption DEF SessionInv, StackIsOpen, RequestsAreOurs, CallsReachTheOpenSession
<1>2. QED
  BY <1>1, SessionInvariance, PTL

\* The contexts of an entry whose __aenter__ raised are the only ones that
\* outlive their block, whatever the closes do (engine_client.py:38-42).
THEOREM OnlyAbandonedEntriesEverLeak == Spec => []OnlyAbandonedEntriesLeak
<1>1. SessionInv => OnlyAbandonedEntriesLeak
  BY BoundAssumption DEF SessionInv, OthersAreClosed, OnlyAbandonedEntriesLeak, Entries
<1>2. QED
  BY <1>1, SessionInvariance, PTL
=============================================================================
