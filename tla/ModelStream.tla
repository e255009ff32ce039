---------------------------- MODULE ModelStream ----------------------------
(***************************************************************************)
(* One model call of the agent: the provider streams content and reasoning *)
(* in fragments cut anywhere, ThinkingFilter sorts them into the visible   *)
(* answer and the reasoning while they arrive, and what is stored is       *)
(* computed separately, by strip_thinking from the assembled message.  A   *)
(* stream can break at any point and be tried again.                       *)
(*                                                                         *)
(* The filter's loop over its buffer is a step per iteration.  Characters  *)
(* that occur in no tag behave like those that do out of place.            *)
(***************************************************************************)
EXTENDS Naturals, Sequences, FiniteSets, FiniteSetsExt

CONSTANTS Characters,
          Open, Close,  \* the tags, sequences of characters
          Field,        \* a fragment of the provider's own reasoning field
          MaxText,      \* bound on the characters of a response
          MaxFields,    \* bound on the reasoning fragments of a response
          Retries       \* _MALFORMED_RETRIES

ASSUME StreamAssumption ==
    /\ Open \in Seq(Characters) \ {<<>>} /\ Close \in Seq(Characters) \ {<<>>}
    /\ Field \notin Characters
    /\ MaxText \in Nat /\ MaxFields \in Nat /\ Retries \in Nat

VARIABLES
    phase,      \* "stream", "drain", "assemble", "done" or "failed"
    attempt,
    content,    \* all content of this attempt the filter was fed
    chunk,      \* the fragment still being received
    fields,     \* reasoning fragments of this attempt
    buffer, inThinking, final,  \* ThinkingFilter, and _drain's argument
    visible, thinking,          \* what the callbacks showed in this attempt
    stored      \* the message complete() returns

filterVars == <<buffer, inThinking, final>>
shownVars == <<visible, thinking>>
vars == <<phase, attempt, content, chunk, fields, filterVars, shownVars, stored>>

Init ==
    /\ phase = "stream" /\ attempt = 0
    /\ content = <<>> /\ chunk = <<>> /\ fields = 0
    /\ buffer = <<>> /\ inThinking = FALSE /\ final = FALSE
    /\ visible = <<>> /\ thinking = <<>>
    /\ stored = <<>>

-----------------------------------------------------------------------------
(* str.find, from a position on; 0 for not found. *)

OccursAt(marker, text, i) == SubSeq(text, i, i + Len(marker) - 1) = marker

Find(marker, text, from) ==
    LET hits == {i \in from .. Len(text) + 1 - Len(marker) :
                    OccursAt(marker, text, i)}
    IN IF hits = {} THEN 0 ELSE Min(hits)

From(text, i) == SubSeq(text, i, Len(text))

\* strip_thinking: visible[i] is what it keeps of the text from i on.
StripThinking(text) ==
    LET kept[i \in 1 .. Len(text) + 1] ==
            LET start == Find(Open, text, i)
                end == Find(Close, text, start + Len(Open))
            IN IF start = 0 THEN From(text, i)
               ELSE SubSeq(text, i, start - 1)
                    \o (IF end = 0 THEN <<>> ELSE kept[end + Len(Close)])
    IN kept[1]

-----------------------------------------------------------------------------
(* The provider: characters arrive, and a fragment ends anywhere. *)

Receive(c) ==
    /\ phase = "stream"
    /\ Len(content) + Len(chunk) < MaxText
    /\ chunk' = Append(chunk, c)
    /\ UNCHANGED <<phase, attempt, content, fields, filterVars, shownVars, stored>>

\* feed: the fragment joins the buffer.
Feed ==
    /\ phase = "stream" /\ chunk # <<>>
    /\ buffer' = buffer \o chunk
    /\ content' = content \o chunk
    /\ chunk' = <<>>
    /\ phase' = "drain"
    /\ UNCHANGED <<attempt, fields, inThinking, final, shownVars, stored>>

\* Bug: a reasoning field is shown as answer.
FieldShownAsAnswer(channel) == IF channel = "visible" THEN <<Field>> ELSE <<>>

FieldFor(channel) == IF channel = "thinking" THEN <<Field>> ELSE <<>>

\* A fragment of reasoning_content bypasses the filter.
ReasoningField ==
    /\ phase = "stream" /\ fields < MaxFields
    /\ fields' = fields + 1
    /\ visible' = visible \o FieldFor("visible")
    /\ thinking' = thinking \o FieldFor("thinking")
    /\ UNCHANGED <<phase, attempt, content, chunk, filterVars, stored>>

\* The stream is over: flush.  Fragments of tool calls carry no text, so there
\* may have been none.
EndOfStream ==
    /\ phase = "stream" /\ chunk = <<>>
    /\ final' = TRUE
    /\ phase' = "drain"
    /\ UNCHANGED <<attempt, content, chunk, fields, buffer, inThinking, shownVars,
                   stored>>

-----------------------------------------------------------------------------
(* ThinkingFilter._drain, one iteration per step. *)

Marker == IF inThinking THEN Close ELSE Open

Route(text) ==
    IF inThinking
    THEN thinking' = thinking \o text /\ UNCHANGED visible
    ELSE visible' = visible \o text /\ UNCHANGED thinking

TailSizes(marker, smallest) ==
    {size \in smallest .. Min({Len(buffer), Max({Len(Open), Len(Close)})}) :
        /\ size <= Len(marker)
        /\ SubSeq(marker, 1, size) = From(buffer, Len(buffer) - size + 1)}

\* Bug: a tail of one character is never held back.
PartialTailLenAbove1(marker) == Max({0} \cup TailSizes(marker, 2))

\* _partial_tail_len: the longest tail of the buffer that may start the marker.
PartialTailLen(marker) == Max({0} \cup TailSizes(marker, 1))

\* Bug: the tail is held back at the end of the stream too.
KeepAlways == PartialTailLen(Marker)

Keep == IF final THEN 0 ELSE PartialTailLen(Marker)

\* Bug: as many characters are skipped whichever tag it was.
SkipOpen == Len(Open)

Skip == Len(Marker)

\* A tag is in the buffer: what precedes it is released, and the channel changes.
DrainToTag ==
    /\ phase = "drain"
    /\ LET index == Find(Marker, buffer, 1)
       IN /\ index > 0
          /\ Route(SubSeq(buffer, 1, index - 1))
          /\ buffer' = From(buffer, index + Skip)
    /\ inThinking' = ~inThinking
    /\ UNCHANGED <<phase, attempt, content, chunk, fields, final, stored>>

\* No tag is: all but the tail that may become one is released.
DrainRest ==
    /\ phase = "drain"
    /\ Find(Marker, buffer, 1) = 0
    /\ Route(SubSeq(buffer, 1, Len(buffer) - Keep))
    /\ buffer' = From(buffer, Len(buffer) - Keep + 1)
    /\ phase' = IF final THEN "assemble" ELSE "stream"
    /\ UNCHANGED <<attempt, content, chunk, fields, inThinking, final, stored>>

-----------------------------------------------------------------------------
(* complete() and _complete_with_retry. *)

\* The assembled message is stripped; it may also turn out not to assemble.  The
\* messages of LiteLLM can be changed, so that the case of one that refuses its
\* new content, and keeps the old, is left out.
Assemble ==
    /\ phase = "assemble"
    /\ stored' = StripThinking(content)
    /\ phase' = "done"
    /\ UNCHANGED <<attempt, content, chunk, fields, filterVars, shownVars>>

\* Malformed output is tried again with a filter of its own.
Retry ==
    /\ phase \in {"stream", "assemble"}
    /\ attempt < Retries
    /\ attempt' = attempt + 1
    /\ phase' = "stream"
    /\ content' = <<>> /\ chunk' = <<>> /\ fields' = 0
    /\ buffer' = <<>> /\ inThinking' = FALSE /\ final' = FALSE
    /\ visible' = <<>> /\ thinking' = <<>>
    /\ UNCHANGED stored

\* Another failure, an empty response, or no retry left.
Fail ==
    /\ phase \in {"stream", "assemble"}
    /\ phase' = "failed"
    /\ UNCHANGED <<attempt, content, chunk, fields, filterVars, shownVars, stored>>

-----------------------------------------------------------------------------

Next ==
    \/ \E c \in Characters : Receive(c)
    \/ Feed \/ ReasoningField \/ EndOfStream
    \/ DrainToTag \/ DrainRest
    \/ Assemble \/ Retry \/ Fail

Spec == Init /\ [][Next]_vars

-----------------------------------------------------------------------------
(* Properties. *)

\* Reasoning fields never reach the visible channel.
TypeOK ==
    /\ phase \in {"stream", "drain", "assemble", "done", "failed"}
    /\ attempt \in 0 .. Retries /\ fields \in 0 .. MaxFields
    /\ {content, chunk, buffer, visible, stored} \subseteq Seq(Characters)
    /\ thinking \in Seq(Characters \cup {Field})
    /\ inThinking \in BOOLEAN /\ final \in BOOLEAN

\* thinking.py:10-12, the filter "buffers only the shortest tail that might be the
\* start of a tag": between fragments it withholds nothing else, and what it has
\* shown together with that tail is what strip_thinking keeps of the text so far.
ReleasesPromptly ==
    (phase = "stream") =>
        /\ Len(buffer) < Len(Marker)
        /\ buffer = SubSeq(Marker, 1, Len(buffer))
        /\ visible \o (IF inThinking THEN <<>> ELSE buffer) = StripThinking(content)

\* What streamed past the user is what is stored and replayed to the model,
\* wherever the fragments were cut, for unterminated tags and after retries: two
\* pieces of code that never see each other's work agree on every text.
ShownIsStored == phase = "done" => visible = stored

\* The rest of the text between the tags is on the reasoning channel, in order,
\* and no reasoning field is lost among it.
ReasoningOf(text) ==
    LET inside[i \in 1 .. Len(text) + 1] ==
            LET start == Find(Open, text, i)
                body == start + Len(Open)
                end == Find(Close, text, body)
            IN IF start = 0 THEN <<>>
               ELSE IF end = 0 THEN From(text, body)
               ELSE SubSeq(text, body, end - 1) \o inside[end + Len(Close)]
    IN inside[1]

\* The text among what a channel was shown.
TextOf(shown) ==
    LET text[i \in 1 .. Len(shown) + 1] ==
            IF i > Len(shown) THEN <<>>
            ELSE (IF shown[i] = Field THEN <<>> ELSE <<shown[i]>>) \o text[i + 1]
    IN text[1]

\* Nothing the model says is lost: what is not visible is shown as reasoning.
ReasoningIsKept ==
    phase = "done" =>
        /\ TextOf(thinking) = ReasoningOf(content)
        /\ Cardinality({i \in DOMAIN thinking : thinking[i] = Field}) = fields

=============================================================================
