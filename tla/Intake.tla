------------------------------- MODULE Intake -------------------------------
(***************************************************************************)
(* intake.py: extract_report() on one contact after another, and what      *)
(* _parse() makes of the text a model wrote.                               *)
(*                                                                         *)
(* Abstractions: text is a sequence of tokens (braces are "obj", "endobj", *)
(* brackets "list", "endlist"; a key with its colon; a scalar; a run of    *)
(* prose without braces); the report is the JSON value it was read from,   *)
(* `usage` the number of provider calls                                    *)
(* it pays for.  External: the provider, and _finalize, which raises as    *)
(* shipped and, when "finalize" \in Built, returns any report or raises.   *)
(***************************************************************************)
EXTENDS Naturals, Sequences, SequencesExt, FiniteSetsExt

CONSTANTS
  None,
  Built,     \* {} or {"finalize"}: see Runner
  Depth,     \* bound: nesting of the JSON values models write
  MaxCalls   \* bound: calls of extract_report()

ASSUME BoundsAssumption == Depth \in Nat /\ MaxCalls \in Nat /\ Built \subseteq {"finalize"}

VARIABLES
  reply,    \* what the provider answered the last call with, or None
  fields,   \* what the last call returned as its report, or None
  usage,    \* and as its usage
  raised,   \* the exception that left it, or None
  calls,    \* history: calls of extract_report(), provider calls, those
  billed,   \*   whose answer came with a bill, and the usage returned so far
  counted

vars == <<reply, fields, usage, raised, calls, billed, counted>>

Object(members) == <<"obj">> \o members \o <<"endobj">>
List(elements)  == <<"list">> \o elements \o <<"endlist">>

\* The JSON texts, nested up to n deep: a scalar, an object of no or one
\* member, a list of one or two elements.
Nested(S) ==
  {Object(<<"key">> \o v) : v \in S} \cup {List(v) : v \in S}
    \cup UNION {{List(v \o <<"comma">> \o w) : w \in S} : v \in S}
Values[n \in 0..Depth] ==
  {<<"scalar">>, Object(<<>>)} \cup IF n = 0 THEN {} ELSE Nested(Values[n - 1])

IsJSON(text) == text \in Values[Depth]
IsObject(text) == IsJSON(text) /\ Head(text) = "obj"

\* A model writes a JSON value among prose (with or without stray braces), and
\* its completion budget may cut the text off anywhere.
Prose   == {<<>>, <<"prose">>}
Remarks == Prose \cup {<<"obj", "prose", "endobj">>, <<"prose", "endobj">>}
Replies == {r \in [before: Remarks, value: Values[Depth], after: Remarks, length: 0..(3 + 5 * 2^Depth)] :
              r.length <= Len(r.before \o r.value \o r.after)}

\* None is no text of a model and no exception.
ASSUME NoneAssumption ==
  None \notin Replies \cup {"KeyError", "hole", "NotImplementedError", "ValueError",
                           "RuntimeError", "provider", "IndexError", "RecursionError"}
Written(r) == r.before \o r.value \o r.after
Content(r) == SubSeq(Written(r), 1, r.length)

----------------------------------------------------------------------------
\* The default report, {"incident_type": "unknown"}.
Unknown == Object(<<"unknown">>)

\* content.find("{") and content.rfind("}"), as positions.
Find(text, ch)  == Min({k \in DOMAIN text : text[k] = ch})
RFind(text, ch) == Max({k \in DOMAIN text : text[k] = ch})

ParseInnermost(text) ==
  IF text = <<>> THEN Unknown
  ELSE IF IsJSON(text) THEN text
  ELSE IF {"obj", "endobj"} \subseteq ToSet(text) /\ IsJSON(SubSeq(text, RFind(text, "obj"), RFind(text, "endobj")))
  THEN SubSeq(text, RFind(text, "obj"), RFind(text, "endobj"))
  ELSE Unknown
ParseLastValue(text) ==
  IF text = <<>> THEN Unknown
  ELSE IF IsJSON(text) THEN text
  ELSE IF Last(text) = "scalar" THEN <<Last(text)>> ELSE Unknown
\* _parse(): the text itself, what lies between its outermost braces, or the
\* default.  An end before the start makes an empty slice, which is no JSON.
Parse(text) ==
  IF text = <<>> THEN Unknown
  ELSE IF IsJSON(text) THEN text
  ELSE IF {"obj", "endobj"} \subseteq ToSet(text) /\ IsJSON(SubSeq(text, Find(text, "obj"), RFind(text, "endobj")))
  THEN SubSeq(text, Find(text, "obj"), RFind(text, "endobj"))
  ELSE Unknown

----------------------------------------------------------------------------
Init ==
  /\ reply = None /\ fields = None /\ usage = 0 /\ raised = None
  /\ calls = 0 /\ billed = 0 /\ counted = 0

Raise(error) == raised' = error /\ fields' = None /\ usage' = 0 /\ UNCHANGED counted
Return(report, u) ==
  raised' = None /\ fields' = report /\ usage' = u /\ counted' = counted + u
NoProvider == reply' = None /\ UNCHANGED billed

\* A structured claim: projected, and finalized, without a model.
ProjectClaim ==
  /\ NoProvider
  /\ \/ Raise("KeyError")   \* the payload has no claim
     \/ Raise(IF "finalize" \in Built THEN "hole" ELSE "NotImplementedError")
     \/ "finalize" \in Built /\ Return(Unknown, 0)

\* What is neither a claim nor text is refused; so is text without a key.
Refuse == NoProvider /\ (Raise("ValueError") \/ Raise("RuntimeError"))

\* The model call: it raises, billed or not; or it answers, with text, with no
\* choice to index, or with JSON nested too deep for json.loads.
AskModelUncounted(r) ==
  /\ reply' = r /\ billed' = billed + 1
  /\ Return(Parse(Content(r)), IF Parse(Content(r)) = Unknown THEN 0 ELSE 1)
AskModel(r) ==
  /\ reply' = r /\ billed' = billed + 1
  /\ Return(Parse(Content(r)), 1)
ModelFails ==
  /\ reply' = None /\ billed' \in {billed, billed + 1}
  /\ Raise("provider") \/ (billed' # billed /\ (Raise("IndexError") \/ Raise("RecursionError")))

Extract(contact) ==
  /\ calls < MaxCalls /\ calls' = calls + 1
  /\ CASE contact = "structured_report" -> ProjectClaim
       [] contact = "human_text"        -> (\E r \in Replies : AskModel(r)) \/ ModelFails \/ Refuse
       [] OTHER                         -> Refuse

Next == \E contact \in {"structured_report", "human_text", "other"} : Extract(contact)

Spec == Init /\ [][Next]_vars

----------------------------------------------------------------------------
\* An object among prose is found whole, or not at all: nested objects come back
\* as written, whatever brace-free text stands around; and no inner object of
\* one that was cut off, itself complete, passes for the report.
WholeObjectOrUnknown ==
  reply # None /\ IsObject(reply.value) /\ reply.before \in Prose =>
    IF reply.length < Len(reply.before \o reply.value) THEN fields = Unknown
    ELSE reply.after \in Prose => fields = reply.value

\* Nothing is invented, and nothing passed over: a report that is not the
\* default is a stretch of the text as the model wrote it, before which no
\* object begins and after which none ends; so a text of two objects never
\* gives one of them as the report.
NothingInvented ==
  reply # None /\ fields # Unknown =>
    LET text == Content(reply)
    IN \E i, j \in DOMAIN text :
         /\ fields = SubSeq(text, i, j)
         /\ \A k \in DOMAIN text :
              (text[k] = "obj" => i <= k) /\ (text[k] = "endobj" => k <= j)

\* intake.py:86 "_parse(content: str | None) -> dict" and intake.py:52
\* "-> tuple[dict, TokenUse]": the report of a call that returns is an object.
ReportIsObject == fields # None => IsObject(fields) \/ fields = Unknown

\* The bill: every provider call is in the usage some call returned, except
\* where the call raised, which returns none; and what needs no model costs
\* nothing ("Structured claims skip the model (zero usage)", intake.py:53).
UsageIsReturned ==
  [][/\ raised' = None => billed' - billed = usage' /\ counted' - counted = usage'
     /\ reply' = None /\ raised' = None => billed' = billed]_vars
=============================================================================
