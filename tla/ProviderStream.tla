--------------------------- MODULE ProviderStream ---------------------------
(***************************************************************************)
(* How the adapters of src/src/model-provider/providers turn what a        *)
(* provider writes into the chunks of one answer.  There are seven: one    *)
(* for each provider, and of Alibaba one for Chat Completions and one for  *)
(* Responses.                                                              *)
(*                                                                         *)
(* One answer, because answers share nothing here.  A text is the number   *)
(* of its pieces; what a provider may write, and in which order, is        *)
(* external and follows the events that the adapters tell apart.           *)
(***************************************************************************)
EXTENDS Naturals

CONSTANT MaxPieces  \* bound: pieces of text, of reasoning, and usage reports

ASSUME MaxPiecesAssumption == MaxPieces \in Nat

Alibaba == {"alibabaChat", "alibabaResponses"}
Adapters == {"openai", "grok", "google", "deepseek", "claude"} \cup Alibaba

VARIABLES
  adapter,  \* who answers
  conn,     \* the connection to the provider, read by the loop: "open", "closed"
  sub,      \* the subscriber: "open", "complete", "error", or "gone"
  acc,      \* the local variables of the loop
  out,      \* what the subscriber has been given
  wrote     \* history: what the provider has written

vars == <<adapter, conn, sub, acc, out, wrote>>

\* id: is responseId set?  full: the pieces in fullContent.  started is
\* isOutputStarted (Google), finished is Alibaba's.
Locals == [id : BOOLEAN, full : Nat, started : BOOLEAN, finished : BOOLEAN]

\* The chunks given, by type; size and id are those of the complete one.
Chunks == [thinking : Nat, text : Nat, meta : Nat, size : Nat, id : BOOLEAN]

\* How a provider ends its answer: "truncated" at a limit of tokens, "cut" for
\* another reason.
Ends == {"completed", "truncated", "cut", "error"}

\* tail: did a piece of text come with the end?  step: the open step of a Google
\* interaction.
Written == [text : Nat, thinking : Nat, usage : Nat, begun : BOOLEAN,
            last : Ends \cup {"none"}, tail : BOOLEAN,
            step : {"none", "output", "thought"}]

\* The adapters whose first event announces the id.
Announced == Adapters \ {"deepseek", "alibabaChat"}

\* The adapters that do not read why the answer has ended: any finish_reason, a
\* message_stop after any stop_reason, an interaction completed in any status.
Heedless == {"google", "deepseek", "claude", "alibabaChat"}

Init ==
  /\ adapter \in Adapters
  /\ conn = "open" /\ sub = "open"
  /\ acc = [id |-> FALSE, full |-> 0, started |-> FALSE, finished |-> FALSE]
  /\ out = [thinking |-> 0, text |-> 0, meta |-> 0, size |-> 0, id |-> FALSE]
  /\ wrote = [text |-> 0, thinking |-> 0, usage |-> 0,
              begun |-> adapter \notin Announced, last |-> "none", tail |-> FALSE,
              step |-> "none"]

-----------------------------------------------------------------------------
(* The provider.  A "bare" report lacks what the adapter reads from its    *)
(* usage; an "empty" chunk has no choices.                                 *)

Vocabulary ==
  {"text", "thinking"} \cup
  CASE adapter \in {"openai", "grok", "alibabaResponses"} ->
         {"created", "completed", "bare", "failed", "error"}
    [] adapter = "google" ->
         {"created", "output", "thought", "stop", "completed", "bare", "error"}
    [] adapter = "deepseek" -> {"plain", "completed", "bare", "empty"}
    [] adapter = "claude" -> {"created", "usage", "bareUsage", "completed"}
    [] adapter = "alibabaChat" -> {"completed", "filtered", "usage"}

\* The kinds of events that count towards a bound.
Counter ==
  [e \in {"text", "plain", "thinking", "usage", "bareUsage", "empty"} |->
     CASE e \in {"text", "plain"} -> "text"
       [] e = "thinking" -> "thinking"
       [] OTHER -> "usage"]

\* What an event that ends the answer may mean: the same event tells Heedless of a
\* whole answer and of a truncated one.
Ending(e) ==
  CASE e \in {"completed", "bare"} ->
         IF adapter \in Heedless THEN {"completed", "truncated"} ELSE {"completed"}
    [] e = "failed" -> {"cut", "truncated"}
    [] e = "filtered" -> {"cut"}
    [] e = "error" -> {"error"}
    [] OTHER -> {}

\* Steps of an interaction follow each other; text is written in the step of the
\* output, and the interaction ends between two steps.
InStep(e) ==
  adapter = "google" =>
    wrote.step \in CASE e \in {"text"} -> {"output"}
                     [] e = "thinking" -> {"thought"}
                     [] e = "stop" -> {"output", "thought"}
                     [] OTHER -> {"none"}

Writes(e) ==
  /\ e \in Vocabulary
  /\ wrote.begun <=> e # "created"
  /\ wrote.last # "none" => e \in {"usage", "empty"}
  /\ InStep(e)
  /\ \/ e = "created" /\ wrote' = [wrote EXCEPT !.begun = TRUE]
     \/ /\ e \in DOMAIN Counter
        /\ wrote[Counter[e]] < MaxPieces
        /\ wrote' = [wrote EXCEPT ![Counter[e]] = @ + 1]
     \/ \E last \in Ending(e), tail \in BOOLEAN :
          /\ tail => adapter = "deepseek"
          /\ wrote' = [wrote EXCEPT !.last = last, !.tail = tail]
     \/ e \in {"output", "thought"} /\ wrote' = [wrote EXCEPT !.step = e]
     \/ e = "stop" /\ wrote' = [wrote EXCEPT !.step = "none"]

-----------------------------------------------------------------------------
(* The subscriber: once it is not open, it ignores what it is given.       *)

Given(kinds) ==
  [k \in DOMAIN out |-> IF k \in kinds THEN out[k] + 1 ELSE out[k]]

Ignore == UNCHANGED <<conn, sub, out>>

\* subscriber.next, with a chunk of each of these types.
Show(kinds) ==
  /\ out' = IF sub = "open" THEN Given(kinds) ELSE out
  /\ UNCHANGED <<conn, sub>>

\* The complete chunk, after chunks of these types, and subscriber.complete.
Finish(kinds) ==
  IF sub = "open"
  THEN /\ out' = [Given(kinds) EXCEPT !.size = acc'.full, !.id = acc'.id]
       /\ sub' = "complete"
  ELSE UNCHANGED <<sub, out>>

\* subscriber.error.
Fail == sub' = (IF sub = "open" THEN "error" ELSE sub) /\ UNCHANGED out

\* An exception leaves the loop for the catch clause.
Throw == Fail /\ conn' = "closed"

SetId == acc' = [acc EXCEPT !.id = TRUE]
AddText == acc' = [acc EXCEPT !.full = @ + 1]

-----------------------------------------------------------------------------
(* The loops.  Those of the first five adapters go on after the answer has *)
(* ended, until the provider closes the stream.                            *)

OpenAIEvent(e) ==
  \/ e = "created" /\ SetId /\ Ignore
  \/ e = "thinking" /\ Show({"thinking"}) /\ UNCHANGED acc
  \/ e = "text" /\ AddText /\ Show({"text"})
  \/ e = "completed" /\ UNCHANGED <<acc, conn>> /\ Finish({"meta"})
  \/ e = "bare" /\ Throw /\ UNCHANGED acc
  \/ e = "error" /\ Fail /\ UNCHANGED <<acc, conn>>
  \/ e = "failed" /\ Ignore /\ UNCHANGED acc

GrokEvent(e) == OpenAIEvent(e)

GoogleEvent(e) ==
  \/ e = "created" /\ SetId /\ Ignore
  \/ e = "output" /\ acc' = [acc EXCEPT !.started = TRUE] /\ Ignore
  \/ e = "stop" /\ acc' = [acc EXCEPT !.started = FALSE] /\ Ignore
  \/ e = "text" /\ acc.started /\ AddText /\ Show({"text"})
  \/ e = "text" /\ ~acc.started /\ Ignore /\ UNCHANGED acc
  \/ e \in {"thinking", "thought"} /\ Ignore /\ UNCHANGED acc
  \/ e = "completed" /\ UNCHANGED <<acc, conn>> /\ Finish({"meta"})
  \/ e = "bare" /\ Throw /\ UNCHANGED acc
  \/ e = "error" /\ Fail /\ UNCHANGED <<acc, conn>>

\* The text of the chunk that has a finish_reason is dropped (wrote.tail).
\* "plain": a chunk without the field reasoning_content, which is not null.
DeepSeekEvent(e) ==
  \/ e = "text" /\ Show({"text"})
     /\ acc' = [acc EXCEPT !.full = @ + 1, !.id = TRUE]
  \/ e = "plain" /\ Show({"thinking", "text"})
     /\ acc' = [acc EXCEPT !.full = @ + 1, !.id = TRUE]
  \/ e = "thinking" /\ Show({"thinking"}) /\ SetId
  \/ e = "completed" /\ SetId /\ UNCHANGED conn
     /\ (Finish({"meta"}) \/ Finish({"thinking", "meta"}))
  \/ e \in {"bare", "empty"} /\ Throw /\ UNCHANGED acc

\* Mutant of ClaudeEvent: reasoning becomes part of the text.
ClaudeEventMixed(e) ==
  \/ e = "created" /\ SetId /\ Ignore
  \/ e = "text" /\ AddText /\ Show({"text"})
  \/ e = "thinking" /\ AddText /\ Show({"thinking"})
  \/ e = "usage" /\ Show({"meta"}) /\ UNCHANGED acc
  \/ e = "bareUsage" /\ Throw /\ UNCHANGED acc
  \/ e = "completed" /\ UNCHANGED <<acc, conn>> /\ Finish({})

ClaudeEvent(e) ==
  \/ e = "created" /\ SetId /\ Ignore
  \/ e = "text" /\ AddText /\ Show({"text"})
  \/ e = "thinking" /\ Show({"thinking"}) /\ UNCHANGED acc
  \/ e = "usage" /\ Show({"meta"}) /\ UNCHANGED acc
  \/ e = "bareUsage" /\ Throw /\ UNCHANGED acc
  \/ e = "completed" /\ UNCHANGED <<acc, conn>> /\ Finish({})

-----------------------------------------------------------------------------
(* Alibaba's generators, read by observe, which returns at the first chunk *)
(* after its subscriber has closed.                                        *)

Yield(kinds) ==
  IF sub = "open" THEN Show(kinds) ELSE conn' = "closed" /\ UNCHANGED <<sub, out>>

AlibabaChatEvent(e) ==
  \/ e = "text" /\ Yield({"text"})
     /\ acc' = [acc EXCEPT !.full = @ + 1, !.id = TRUE]
  \/ e = "thinking" /\ SetId /\ Yield({"thinking"})
  \/ e = "usage" /\ SetId /\ Yield({"meta"})
  \/ e = "filtered" /\ SetId /\ Throw
  \/ e = "completed" /\ acc' = [acc EXCEPT !.finished = TRUE, !.id = TRUE] /\ Ignore

AlibabaResponsesEvent(e) ==
  \/ e = "created" /\ SetId /\ Ignore
  \/ e = "thinking" /\ UNCHANGED acc /\ Yield({"thinking"})
  \/ e = "text" /\ AddText /\ Yield({"text"})
  \/ e = "completed" /\ SetId /\ Finish({"meta"}) /\ conn' = "closed"
  \/ e = "bare" /\ SetId /\ Finish({}) /\ conn' = "closed"
  \/ e \in {"failed", "error"} /\ UNCHANGED acc /\ Throw

\* Mutant of AlibabaChatEnds: a broken off answer passes for a whole one.
AlibabaChatEndsAnyhow == Finish({})

\* The stream of Chat Completions has ended.
AlibabaChatEnds == IF acc.finished THEN Finish({}) ELSE Fail

\* Mutant of AlibabaResponsesEnds: the generator just ends.
AlibabaResponsesEndsSilently == UNCHANGED <<sub, out>>

\* The stream of Responses has ended without the event that completes it.
AlibabaResponsesEnds == Fail

-----------------------------------------------------------------------------
Receive(e) ==
  /\ conn = "open"
  /\ Writes(e)
  /\ \/ adapter = "openai" /\ OpenAIEvent(e)
     \/ adapter = "grok" /\ GrokEvent(e)
     \/ adapter = "google" /\ GoogleEvent(e)
     \/ adapter = "deepseek" /\ DeepSeekEvent(e)
     \/ adapter = "claude" /\ ClaudeEvent(e)
     \/ adapter = "alibabaChat" /\ AlibabaChatEvent(e)
     \/ adapter = "alibabaResponses" /\ AlibabaResponsesEvent(e)
  /\ UNCHANGED adapter

\* The provider closes the stream, after its answer or in the middle of it.
ProviderCloses ==
  /\ conn = "open"
  /\ conn' = "closed"
  /\ UNCHANGED <<adapter, acc, wrote>>
  /\ \/ adapter \notin Alibaba /\ UNCHANGED <<sub, out>>
     \/ adapter = "alibabaChat" /\ AlibabaChatEnds
     \/ adapter = "alibabaResponses" /\ AlibabaResponsesEnds

\* Reading fails; every adapter catches that.
ConnectionBreaks ==
  /\ conn = "open"
  /\ Throw
  /\ UNCHANGED <<adapter, acc, wrote>>

\* The client has closed its connection.
Unsubscribe ==
  /\ sub = "open"
  /\ sub' = "gone"
  /\ UNCHANGED <<adapter, conn, acc, out, wrote>>

\* Mutant of Aborts: observe without its teardown.
NeverAborts == FALSE

\* The teardown of observe aborts the request; nobody hears the AbortError.
Aborts == adapter \in Alibaba /\ sub = "gone"

AbortRead ==
  /\ Aborts
  /\ conn = "open"
  /\ conn' = "closed"
  /\ UNCHANGED <<adapter, sub, acc, out, wrote>>

Next ==
  \/ \E e \in Vocabulary : Receive(e)
  \/ ProviderCloses \/ ConnectionBreaks
  \/ Unsubscribe \/ AbortRead

Spec == Init /\ [][Next]_vars /\ WF_vars(AbortRead)

-----------------------------------------------------------------------------
(* Properties.                                                             *)

TypeOK ==
  /\ adapter \in Adapters
  /\ conn \in {"open", "closed"}
  /\ sub \in {"open", "complete", "error", "gone"}
  /\ acc \in Locals /\ out \in Chunks /\ wrote \in Written

\* Has the answer ended as its adapter takes a whole answer to end?
EndsWell ==
  \/ wrote.last = "completed"
  \/ wrote.last = "truncated" /\ adapter \in Heedless

\* While somebody listens, the loop has the text that the provider has written
\* before the end, and has passed it on; only the loop of a Google answer waits for
\* its step.
KeepsUp ==
  /\ acc.full = wrote.text
  /\ sub = "open" => out.text = wrote.text
  /\ adapter = "google" => (acc.started <=> wrote.step = "output")
  /\ adapter \in Announced => (acc.id <=> wrote.begun)
  /\ acc.finished => EndsWell /\ acc.id

\* A provider that has finished its answer leaves nobody waiting (the chat of
\* Alibaba still waits for the token counts), and when Alibaba's stream ends,
\* however it does, so does the answer (the throws at the ends of streamChat and
\* streamResponses).
NobodyWaits ==
  sub = "open" =>
    /\ conn = "closed" => adapter \notin Alibaba
    /\ EndsWell => adapter = "alibabaChat"
    /\ wrote.last # "error"

StreamInv == TypeOK /\ KeepsUp /\ NobodyWaits

\* An answer that is complete for the subscriber is one that its provider has ended
\* of itself, and has all the text written before the end, and its id.  Truncated
\* answers pass for whole ones with the four adapters that do not look (deepseek
\* :119, claude :121, alibaba :271, google), and with no other.  Text that comes with
\* the end itself is not counted: DeepSeek's loop drops it (:108).
CompleteIsEnded ==
  sub = "complete" =>
    /\ EndsWell
    /\ out.size = wrote.text /\ out.text = wrote.text
    /\ out.id

\* The chunks are an answer as module AnswerStream promises it.
Answer == INSTANCE AnswerStream WITH text <- out.text, size <- out.size, end <- sub

ImplementsAnswerStream == Answer!Spec

\* When the client leaves, the request to Alibaba is given up, without the help of
\* the provider (observe).
UnsubscribeStops == adapter \in Alibaba /\ sub = "gone" ~> conn = "closed"

=============================================================================
