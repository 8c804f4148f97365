---------------------------- MODULE SseAssembly ----------------------------
(***************************************************************************)
(* internal/sseutil: what AssembleFinalState makes of the captured bytes   *)
(* of a stream.  The capture is a sequence of events; of the JSON in an    *)
(* event's data only the fields the assembly looks at are kept.  An absent *)
(* field is Nil, and so is a null one but for "response"; the text of a    *)
(* delta is a sequence of tokens.  A JSON number is counted in halves, so  *)
(* that there are fractions.                                               *)
(***************************************************************************)
EXTENDS Integers, Sequences, FiniteSets
LOCAL INSTANCE SequencesExt

CONSTANTS
    Tokens,     \* what the texts of deltas consist of
    Values,     \* what any other field may hold
    MaxInt      \* the largest int

Nil == "nil"
JsonNull == "null"

ASSUME AssemblyAssumption == Nil \in Values /\ MaxInt \in Nat

\* What an event is to sse.Read and to the assembly: "unreadable" (over the size
\* limit of the parser), "blank" (no data), "done" ([DONE]), "text" (data that does
\* not fit into a map), "null" (JSON's null, which fits and gives a nil map) or
\* "object".
EventKinds == {"unreadable", "blank", "done", "text", "null", "object"}

\* The index of a choice; it is not numeric when it is missing or no number.
Delta == [numeric : BOOLEAN, index : Int, role : Values, text : Seq(Tokens),
          tools : Values, finish : Values]
Event ==
    {e \in [kind : EventKinds, completed : BOOLEAN, response : Values \cup {JsonNull},
            chat : BOOLEAN, id : Values, usage : Values, choices : Seq(Delta)] :
        e.kind = "null" => ~e.chat /\ e.id = Nil /\ e.usage = Nil /\ e.choices = <<>>}

\* DataLines and parseSSEEvents stop at the first event they cannot read.
ReadableEvents(events) ==
    LET bad == SelectInSeq(events, LAMBDA e : e.kind = "unreadable")
    IN  IF bad = 0 THEN events ELSE SubSeq(events, 1, bad - 1)

HasDone(events) ==
    \E i \in DOMAIN ReadableEvents(events) : events[i].kind = "done"

Null == [kind |-> "null"]
Nothing == [kind |-> "nothing"]     \* no bytes at all, after a recovered panic

\* The response of a response.completed event, null though it may be, or all of its
\* payload.
ExtractResponse(e) ==
    IF e.kind # "object" \/ e.response = JsonNull THEN Null
    ELSE IF e.response = Nil THEN [kind |-> "payload", payload |-> e]
    ELSE [kind |-> "response", response |-> e.response]

-----------------------------------------------------------------------------
(* Chat completions: deltas merged by choice index.                        *)

Payloads(events) ==
    FlattenSeq([i \in DOMAIN events |->
                  IF events[i].kind \in {"object", "null"} THEN <<events[i]>> ELSE <<>>])
Deltas(chunks) == FlattenSeq([i \in DOMAIN chunks |-> chunks[i].choices])

NewChoice == [role |-> Nil, text |-> <<>>, tools |-> Nil, finish |-> Nil]
Latest(new, old) == IF new = Nil THEN old ELSE new

\* Bug variant: the latest content replaces what came before.
MergeDeltaReplaces(c, d) ==
    [role |-> Latest(d.role, c.role), text |-> IF d.text = <<>> THEN c.text ELSE d.text,
     tools |-> Latest(d.tools, c.tools), finish |-> Latest(d.finish, c.finish)]

\* Text is appended; roles, tool calls and finish reasons replace the last ones.
MergeDelta(c, d) ==
    [role |-> Latest(d.role, c.role), text |-> c.text \o d.text,
     tools |-> Latest(d.tools, c.tools), finish |-> Latest(d.finish, c.finish)]

\* int(float64): the fraction is dropped, and a number out of range becomes the
\* smallest int (as on amd64).
IntOf(x) ==
    LET whole == IF x < 0 THEN -((-x) \div 2) ELSE x \div 2
    IN  IF whole \in -(MaxInt + 1)..MaxInt THEN whole ELSE -(MaxInt + 1)

\* The choice a delta belongs to, which may be a negative one.
Key(d) == IntOf(d.index)

MergeInto(m, d) ==
    [i \in DOMAIN m \cup {Key(d)} |->
        IF i # Key(d) THEN m[i]
        ELSE MergeDelta(IF i \in DOMAIN m THEN m[i] ELSE NewChoice, d)]

MergeChoices(deltas) == FoldLeft(MergeInto, <<>>, deltas)

\* The choices array counts from zero up to the number of choices, so it leaves out
\* a negative choice and any choice behind a gap.
ShownChoices(m) ==
    [i \in DOMAIN m \cap 0..(Cardinality(DOMAIN m) - 1) |-> m[i]]

LastUsage(chunks) ==
    LET last == SelectLastInSeq(chunks, LAMBDA c : c.usage # Nil)
    IN  IF last = 0 THEN Nil ELSE chunks[last].usage

\* Without a chat chunk the last payload stands for all; a choice without a numeric
\* index makes the assembly panic, which AssembleFinalState recovers into Nothing.
AssembleChat(chunks) ==
    IF chunks = <<>> THEN Null
    ELSE IF \A i \in DOMAIN chunks : ~chunks[i].chat
    THEN IF Last(chunks).kind = "null" THEN Null
         ELSE [kind |-> "last", chunk |-> Last(chunks)]
    ELSE IF \E i \in DOMAIN Deltas(chunks) : ~Deltas(chunks)[i].numeric
    THEN Nothing
    ELSE [kind |-> "chat", id |-> chunks[1].id, usage |-> LastUsage(chunks),
          choices |-> ShownChoices(MergeChoices(Deltas(chunks)))]

-----------------------------------------------------------------------------

\* Bug variant: the last response.completed event decides.
AssembleFinalStateLast(events) ==
    LET es == ReadableEvents(events)
        completed == SelectLastInSeq(es, LAMBDA e : e.completed)
    IN  IF completed # 0 THEN ExtractResponse(es[completed])
        ELSE AssembleChat(Payloads(es))

\* The first response.completed event decides, even if nothing can be extracted
\* from it; without one the payloads are taken for chat chunks.
AssembleFinalState(events) ==
    LET es == ReadableEvents(events)
        completed == SelectInSeq(es, LAMBDA e : e.completed)
    IN  IF completed # 0 THEN ExtractResponse(es[completed])
        ELSE AssembleChat(Payloads(es))
=============================================================================
