--------------------------- MODULE ProviderProofs ---------------------------
(* Theorems about the two modules on the providers, each on its own:       *)
(* ProviderStream, for answers of every length, and ImageTask, for every   *)
(* deadline.                                                               *)
EXTENDS ProviderStream, ImageTask, TLAPS

-----------------------------------------------------------------------------
(* ProviderStream.                                                         *)

EndingEvents == {"completed", "bare", "failed", "filtered", "error"}

(* What the provider writes, field by field. *)
LEMMA WritesEffect ==
  ASSUME TypeOK, NEW e \in Vocabulary, Writes(e)
  PROVE  /\ wrote' \in Written
         /\ wrote'.text = IF e \in {"text", "plain"} THEN wrote.text + 1 ELSE wrote.text
         /\ IF e \in EndingEvents THEN wrote'.last \in Ending(e)
                                  ELSE wrote'.last = wrote.last
         /\ (wrote'.begun <=> wrote.begun \/ e = "created")
         /\ wrote'.step = IF e \in {"output", "thought"} THEN e
                          ELSE IF e = "stop" THEN "none" ELSE wrote.step
<1> USE DEF TypeOK, Written, Writes, EndingEvents
<1>1. CASE e = "created"
  BY <1>1 DEF Counter, Ending
<1>2. CASE e \in DOMAIN Counter
  <2>1. wrote' = [wrote EXCEPT ![Counter[e]] = @ + 1]
    BY <1>2 DEF Counter, Ending
  <2>2. /\ Counter[e] \in {"text", "thinking", "usage"}
        /\ Counter[e] = "text" <=> e \in {"text", "plain"}
    BY <1>2 DEF Counter
  <2>3. e \notin EndingEvents \cup {"created", "output", "thought", "stop"}
    BY <1>2 DEF Counter
  <2>4. /\ wrote' \in Written /\ wrote'.last = wrote.last
        /\ wrote'.begun = wrote.begun /\ wrote'.step = wrote.step
        /\ wrote'.text = IF Counter[e] = "text" THEN wrote.text + 1 ELSE wrote.text
    <3> wrote \in Written
      OBVIOUS
    <3> HIDE DEF Writes, TypeOK
    <3>1. CASE Counter[e] = "text"
      <4>1. wrote' = [wrote EXCEPT !.text = @ + 1]
        BY <2>1, <3>1
      <4> QED
        BY <3>1, <4>1
    <3>2. CASE Counter[e] = "thinking"
      <4>1. wrote' = [wrote EXCEPT !.thinking = @ + 1]
        BY <2>1, <3>2
      <4> QED
        BY <3>2, <4>1
    <3>3. CASE Counter[e] = "usage"
      <4>1. wrote' = [wrote EXCEPT !.usage = @ + 1]
        BY <2>1, <3>3
      <4> QED
        BY <3>3, <4>1
    <3> QED
      BY <2>2, <3>1, <3>2, <3>3
  <2> HIDE DEF Written, Writes, TypeOK
  <2> QED
    BY <2>2, <2>3, <2>4
<1>3. CASE e \in EndingEvents
  <2>1. PICK last \in Ending(e), tail \in BOOLEAN :
               wrote' = [wrote EXCEPT !.last = last, !.tail = tail]
    BY <1>3 DEF Counter
  <2>2. last \in Ends
    BY <1>3 DEF Ending, Ends
  <2>3. wrote' = [[wrote EXCEPT !.last = last] EXCEPT !.tail = tail]
    BY <2>1
  <2>4. /\ wrote' \in Written /\ wrote'.text = wrote.text /\ wrote'.last = last
        /\ wrote'.begun = wrote.begun /\ wrote'.step = wrote.step
    BY <2>2, <2>3
  <2> QED
    BY <1>3, <2>4
<1>4. CASE e \in {"output", "thought"}
  BY <1>4 DEF Counter, Ending
<1>5. CASE e = "stop"
  BY <1>5 DEF Counter, Ending
<1>6. e \in EndingEvents \/ Ending(e) = {}
  BY DEF Ending
<1> QED
  BY <1>1, <1>2, <1>3, <1>4, <1>5, <1>6

(* What the subscriber is given, field by field. *)
LEMMA GivenEffect ==
  ASSUME out \in Chunks, NEW kinds \in SUBSET {"thinking", "text", "meta"}
  PROVE  /\ Given(kinds) \in Chunks
         /\ Given(kinds).text = IF "text" \in kinds THEN out.text + 1 ELSE out.text
         /\ Given(kinds).size = out.size
BY DEF Given, Chunks

-----------------------------------------------------------------------------
Inv == StreamInv /\ CompleteIsEnded

AnswerStep == [Answer!Next]_<<out.text, out.size, sub>>

(* What a step has to show before its effect on the subscriber matters: the *)
(* locals keep up with the provider, and a finished answer stays as it is.  *)
Follows ==
  /\ adapter' = adapter /\ wrote' \in Written /\ acc' \in Locals
  /\ acc'.full = wrote'.text
  /\ adapter = "google" => (acc'.started <=> wrote'.step = "output")
  /\ adapter \in Announced => (acc'.id <=> wrote'.begun)
  /\ acc'.finished => EndsWell' /\ acc'.id
  /\ sub = "complete" => wrote'.text = wrote.text /\ wrote'.last = wrote.last

(* The answer goes on, or the client has left: nobody is left waiting. *)
GoesOn ==
  sub = "open" =>
    /\ conn' = "closed" => adapter \notin Alibaba
    /\ EndsWell' => adapter = "alibabaChat"
    /\ wrote'.last # "error"

USE DEF StreamInv, TypeOK, KeepsUp, NobodyWaits, CompleteIsEnded, EndsWell, EndingEvents, Inv

(* The event is not passed on. *)
LEMMA IgnoreStep ==
  ASSUME Inv, Follows, GoesOn, UNCHANGED <<sub, out>>, conn' \in {"open", "closed"},
         sub = "open" => wrote'.text = wrote.text
  PROVE  Inv' /\ AnswerStep
<1>1. Inv'
  BY DEF Follows, GoesOn
<1> QED
  BY <1>1 DEF AnswerStep

(* Chunks of some types are passed on. *)
LEMMA ShowStep ==
  ASSUME Inv, Follows, GoesOn, NEW kinds \in SUBSET {"thinking", "text", "meta"},
         Show(kinds) \/ Yield(kinds), conn = "open",
         wrote'.text = IF "text" \in kinds THEN wrote.text + 1 ELSE wrote.text
  PROVE  Inv' /\ AnswerStep
<1>1. CASE sub = "open"
  <2>1. /\ out' = Given(kinds) /\ sub' = "open" /\ conn' = "open"
        /\ out' \in Chunks /\ out'.size = out.size /\ out'.text = wrote'.text
    BY <1>1, GivenEffect DEF Show, Yield
  <2>2. Inv'
    BY <1>1, <2>1 DEF Follows, GoesOn
  <2>3. out'.text = out.text \/ out'.text = out.text + 1
    BY <1>1, <2>1, GivenEffect
  <2> QED
    BY <1>1, <2>1, <2>2, <2>3 DEF AnswerStep, Answer!Next, Answer!Piece
<1>2. CASE sub # "open"
  <2>1. UNCHANGED <<sub, out>> /\ conn' \in {"open", "closed"}
    BY <1>2 DEF Show, Yield
  <2> QED
    BY <1>2, <2>1, IgnoreStep
<1> QED
  BY <1>1, <1>2

(* The answer is complete. *)
LEMMA FinishStep ==
  ASSUME Inv, Follows, NEW kinds \in SUBSET {"thinking", "meta"},
         Finish(kinds), conn' \in {"open", "closed"},
         wrote'.text = wrote.text, EndsWell', acc'.id
  PROVE  Inv' /\ AnswerStep
<1>1. CASE sub = "open"
  <2>1. /\ out' = [Given(kinds) EXCEPT !.size = acc'.full, !.id = acc'.id]
        /\ sub' = "complete"
    BY <1>1 DEF Finish
  <2>2. Given(kinds) \in Chunks /\ Given(kinds).text = out.text
    BY GivenEffect
  <2>3. acc' \in Locals /\ acc'.full = wrote.text /\ out.text = wrote.text
    BY <1>1 DEF Follows
  <2>4. /\ out' \in Chunks /\ out'.id
        /\ out'.text = out.text /\ out'.size = out.text
    BY <2>1, <2>2, <2>3 DEF Chunks, Locals
  <2>5. Inv'
    BY <2>1, <2>3, <2>4 DEF Follows
  <2> QED
    BY <1>1, <2>1, <2>4, <2>5 DEF AnswerStep, Answer!Next, Answer!Complete
<1>2. CASE sub # "open"
  BY <1>2, IgnoreStep DEF Finish, GoesOn
<1> QED
  BY <1>1, <1>2

(* The answer fails. *)
LEMMA FailStep ==
  ASSUME Inv, Follows, Fail, conn' \in {"open", "closed"}
  PROVE  Inv' /\ AnswerStep
<1>1. CASE sub = "open"
  <2>1. sub' = "error" /\ UNCHANGED out
    BY <1>1 DEF Fail
  <2>2. Inv'
    BY <1>1, <2>1 DEF Follows
  <2> QED
    BY <1>1, <2>1, <2>2 DEF AnswerStep, Answer!Next, Answer!Stop
<1>2. CASE sub # "open"
  BY <1>2, IgnoreStep DEF Fail, GoesOn
<1> QED
  BY <1>1, <1>2

-----------------------------------------------------------------------------
(* The adapters, event by event. *)

(* What the facts about the provider say of one event. *)
LEMMA EventEffect ==
  ASSUME Inv, NEW e \in Vocabulary, Writes(e)
  PROVE  /\ wrote' \in Written
         /\ wrote'.text = IF e \in {"text", "plain"} THEN wrote.text + 1 ELSE wrote.text
         /\ e \in {"completed", "bare"} =>
              \/ wrote'.last = "completed"
              \/ wrote'.last = "truncated" /\ adapter \in Heedless
         /\ e = "failed" => wrote'.last \in {"cut", "truncated"} /\ adapter \notin Heedless
         /\ e \notin EndingEvents => wrote'.last = wrote.last
         /\ (wrote'.begun <=> wrote.begun \/ e = "created")
         /\ e # "created" => wrote.begun
         /\ e \notin {"output", "thought", "stop"} => wrote'.step = wrote.step
         /\ e \in {"output", "thought"} => wrote'.step = e
         /\ e = "stop" => wrote'.step = "none"
         /\ wrote.last # "none" =>
              e \in {"usage", "empty"} /\ wrote'.last = wrote.last
<1>1. e = "failed" => adapter \notin Heedless
  BY DEF Vocabulary, Heedless
<1>2. wrote.begun <=> e # "created"
  BY DEF Writes
<1>3. wrote.last # "none" => e \in {"usage", "empty"}
  BY DEF Writes
<1>4. /\ e \in {"completed", "bare"} =>
           Ending(e) = IF adapter \in Heedless THEN {"completed", "truncated"}
                                               ELSE {"completed"}
      /\ e = "failed" => Ending(e) = {"cut", "truncated"}
  BY DEF Ending
<1>5. /\ wrote' \in Written
      /\ wrote'.text = IF e \in {"text", "plain"} THEN wrote.text + 1 ELSE wrote.text
      /\ IF e \in EndingEvents THEN wrote'.last \in Ending(e)
                                ELSE wrote'.last = wrote.last
      /\ (wrote'.begun <=> wrote.begun \/ e = "created")
      /\ wrote'.step = IF e \in {"output", "thought"} THEN e
                       ELSE IF e = "stop" THEN "none" ELSE wrote.step
  BY WritesEffect
<1> HIDE DEF StreamInv, TypeOK, KeepsUp, NobodyWaits, CompleteIsEnded, EndsWell, Inv
<1> QED
  BY <1>1, <1>2, <1>3, <1>4, <1>5 DEF Written

(* What an event does to the locals of the loop: the id is set, a piece is  *)
(* added, the other locals are left alone.                                  *)
Sets(id, n) ==
  /\ acc' \in Locals
  /\ IF id THEN acc'.id ELSE (acc'.id <=> acc.id)
  /\ acc'.full = acc.full + n
  /\ acc'.started <=> acc.started
  /\ acc'.finished <=> acc.finished

LEMMA LocalsEffect ==
  ASSUME Inv
  PROVE  /\ SetId => Sets(TRUE, 0)
         /\ AddText => Sets(FALSE, 1)
         /\ acc' = [acc EXCEPT !.full = @ + 1, !.id = TRUE] => Sets(TRUE, 1)
         /\ UNCHANGED acc => Sets(FALSE, 0)
<1>1. ASSUME SetId PROVE Sets(TRUE, 0)
  <2>1. acc' \in Locals /\ acc'.id
    BY <1>1 DEF SetId, Locals
  <2>2. (acc'.started <=> acc.started) /\ (acc'.finished <=> acc.finished)
    BY <1>1 DEF SetId, Locals
  <2>3. acc'.full = acc.full + 0
    BY <1>1 DEF SetId, Locals
  <2> QED
    BY <2>1, <2>2, <2>3 DEF Sets
<1>2. ASSUME AddText PROVE Sets(FALSE, 1)
  BY <1>2 DEF AddText, Sets, Locals
<1>3. ASSUME acc' = [acc EXCEPT !.full = @ + 1, !.id = TRUE] PROVE Sets(TRUE, 1)
  <2>1. acc' \in Locals /\ acc'.id
    <3>1. acc' = [[acc EXCEPT !.full = @ + 1] EXCEPT !.id = TRUE]
      BY <1>3
    <3>2. [acc EXCEPT !.full = @ + 1] \in Locals
      BY DEF Locals
    <3> QED
      BY <3>1, <3>2 DEF Locals
  <2>2. (acc'.started <=> acc.started) /\ (acc'.finished <=> acc.finished)
    BY <1>3 DEF Locals
  <2>3. acc'.full = acc.full + 1
    BY <1>3 DEF Locals
  <2> QED
    BY <2>1, <2>2, <2>3 DEF Sets
<1>4. ASSUME UNCHANGED acc PROVE Sets(FALSE, 0)
  BY <1>4 DEF Sets, Locals
<1> QED
  BY <1>1, <1>2, <1>3, <1>4

(* Locals that are set as the provider writes keep up with it. *)
LEMMA FollowsEvent ==
  ASSUME Inv, NEW e \in Vocabulary, Writes(e), UNCHANGED adapter,
         NEW id \in BOOLEAN, NEW n \in {0, 1}, Sets(id, n),
         n = IF e \in {"text", "plain"} THEN 1 ELSE 0,
         adapter \in Announced => (id => wrote'.begun) /\ (e = "created" => id),
         adapter = "google" => wrote'.step = wrote.step
  PROVE  Follows
<1>1. acc'.full = wrote'.text
  <2>1. wrote'.text = wrote.text + n
    BY EventEffect DEF Written
  <2> QED
    BY <2>1 DEF Sets
<1>2. adapter \in Announced => (acc'.id <=> wrote'.begun)
  BY EventEffect DEF Sets
<1>3. acc'.finished => EndsWell' /\ acc'.id
  BY EventEffect DEF Sets
<1>4. sub = "complete" => wrote'.text = wrote.text /\ wrote'.last = wrote.last
  BY EventEffect
<1>5. adapter = "google" => (acc'.started <=> wrote'.step = "output")
  BY DEF Sets
<1> QED
  BY <1>1, <1>2, <1>3, <1>4, <1>5, EventEffect DEF Follows, Sets

(* OpenAI, and Grok. *)
LEMMA OpenAIStep ==
  ASSUME Inv, NEW e \in Vocabulary, Writes(e), conn = "open", UNCHANGED adapter,
         adapter \in {"openai", "grok"}, OpenAIEvent(e)
  PROVE  Inv' /\ AnswerStep
<1>1. Follows
  BY EventEffect, LocalsEffect, FollowsEvent DEF OpenAIEvent
<1>2. CASE e \in {"created", "failed"}
  BY <1>1, <1>2, EventEffect, IgnoreStep DEF OpenAIEvent, Ignore, GoesOn
<1>3. CASE e = "thinking"
  BY <1>1, <1>3, EventEffect, ShowStep DEF OpenAIEvent, Show, GoesOn
<1>4. CASE e = "text"
  BY <1>1, <1>4, EventEffect, ShowStep DEF OpenAIEvent, Show, GoesOn
<1>5. CASE e = "completed"
  BY <1>1, <1>5, EventEffect, FinishStep DEF OpenAIEvent, Follows, Announced, Adapters
<1>6. CASE e \in {"bare", "error"}
  BY <1>1, <1>6, EventEffect, FailStep DEF OpenAIEvent, Throw
<1> QED
  BY <1>2, <1>3, <1>4, <1>5, <1>6 DEF OpenAIEvent

(* Google: text comes in the step of the output, when the loop waits for it. *)
LEMMA GoogleStep ==
  ASSUME Inv, NEW e \in Vocabulary, Writes(e), conn = "open", UNCHANGED adapter,
         adapter = "google", GoogleEvent(e)
  PROVE  Inv' /\ AnswerStep
<1>1. Follows
  <2>1. CASE e \in {"output", "stop"}
    <3>1. /\ acc' \in Locals /\ acc'.full = acc.full
          /\ (acc'.id <=> acc.id) /\ (acc'.finished <=> acc.finished)
          /\ acc'.started <=> e = "output"
      BY <2>1 DEF GoogleEvent, Locals
    <3> QED
      BY <2>1, <3>1, EventEffect DEF Follows
  <2>2. CASE e = "thought"
    <3>1. ~acc.started
      BY <2>2 DEF Writes, InStep
    <3> QED
      BY <2>2, <3>1, EventEffect DEF GoogleEvent, Follows
  <2>3. CASE e \notin {"output", "stop", "thought"}
    <3>1. e = "text" => acc.started
      BY DEF Writes, InStep
    <3>2. wrote'.step = wrote.step
      BY <2>3, EventEffect
    <3> QED
      BY <2>3, <3>1, <3>2, EventEffect, LocalsEffect, FollowsEvent DEF GoogleEvent
  <2> QED
    BY <2>1, <2>2, <2>3
<1>2. CASE e \in {"created", "output", "stop", "thinking", "thought"}
  BY <1>1, <1>2, EventEffect, IgnoreStep DEF GoogleEvent, Ignore, GoesOn
<1>3. CASE e = "text"
  <2>1. Show({"text"}) /\ acc.started
    BY <1>3 DEF GoogleEvent, Writes, InStep
  <2>2. GoesOn /\ wrote'.text = wrote.text + 1
    BY <1>3, <2>1, EventEffect DEF Show, GoesOn
  <2> QED
    BY <1>1, <2>1, <2>2, ShowStep
<1>4. CASE e = "completed"
  <2>1. EndsWell' /\ wrote'.text = wrote.text /\ acc'.id
    BY <1>1, <1>4, EventEffect DEF GoogleEvent, Follows, Announced, Adapters, Alibaba
  <2>2. Finish({"meta"}) /\ conn' = "open"
    BY <1>4 DEF GoogleEvent
  <2> QED
    BY <1>1, <2>1, <2>2, FinishStep
<1>5. CASE e \in {"bare", "error"}
  BY <1>1, <1>5, EventEffect, FailStep DEF GoogleEvent, Throw
<1> QED
  BY <1>2, <1>3, <1>4, <1>5 DEF GoogleEvent

(* DeepSeek. *)
LEMMA DeepSeekStep ==
  ASSUME Inv, NEW e \in Vocabulary, Writes(e), conn = "open", UNCHANGED adapter,
         adapter = "deepseek", DeepSeekEvent(e)
  PROVE  Inv' /\ AnswerStep
<1>1. Follows
  BY EventEffect, LocalsEffect, FollowsEvent DEF DeepSeekEvent, Announced
<1>2. CASE e = "text"
  BY <1>1, <1>2, EventEffect, ShowStep DEF DeepSeekEvent, Show, GoesOn
<1>3. CASE e = "plain"
  BY <1>1, <1>3, EventEffect, ShowStep DEF DeepSeekEvent, Show, GoesOn
<1>4. CASE e = "thinking"
  BY <1>1, <1>4, EventEffect, ShowStep DEF DeepSeekEvent, Show, GoesOn
<1>5. CASE e = "completed"
  BY <1>1, <1>5, EventEffect, FinishStep, LocalsEffect DEF DeepSeekEvent, Sets
<1>6. CASE e \in {"bare", "empty"}
  BY <1>1, <1>6, EventEffect, FailStep DEF DeepSeekEvent, Throw
<1> QED
  BY <1>2, <1>3, <1>4, <1>5, <1>6 DEF DeepSeekEvent

(* Claude. *)
LEMMA ClaudeStep ==
  ASSUME Inv, NEW e \in Vocabulary, Writes(e), conn = "open", UNCHANGED adapter,
         adapter = "claude", ClaudeEvent(e)
  PROVE  Inv' /\ AnswerStep
<1>1. Follows
  BY EventEffect, LocalsEffect, FollowsEvent DEF ClaudeEvent
<1>2. CASE e = "created"
  BY <1>1, <1>2, EventEffect, IgnoreStep DEF ClaudeEvent, Ignore, GoesOn
<1>3. CASE e = "text"
  BY <1>1, <1>3, EventEffect, ShowStep DEF ClaudeEvent, Show, GoesOn
<1>4. CASE e = "thinking"
  BY <1>1, <1>4, EventEffect, ShowStep DEF ClaudeEvent, Show, GoesOn
<1>5. CASE e = "usage"
  BY <1>1, <1>5, EventEffect, ShowStep DEF ClaudeEvent, Show, GoesOn
<1>6. CASE e = "completed"
  BY <1>1, <1>6, EventEffect, FinishStep DEF ClaudeEvent, Follows, Announced, Adapters, Alibaba
<1>7. CASE e = "bareUsage"
  BY <1>1, <1>7, EventEffect, FailStep DEF ClaudeEvent, Throw
<1> QED
  BY <1>2, <1>3, <1>4, <1>5, <1>6, <1>7 DEF ClaudeEvent

(* Chat Completions of Alibaba: the answer ends with its stream. *)
LEMMA AlibabaChatStep ==
  ASSUME Inv, NEW e \in Vocabulary, Writes(e), conn = "open", UNCHANGED adapter,
         adapter = "alibabaChat", AlibabaChatEvent(e)
  PROVE  Inv' /\ AnswerStep
<1>1. Follows
  <2>1. CASE e = "completed"
    <3>1. /\ acc' \in Locals /\ acc'.full = acc.full
          /\ acc'.id /\ acc'.finished
      BY <2>1 DEF AlibabaChatEvent, Locals
    <3> QED
      BY <2>1, <3>1, EventEffect DEF Follows, Announced
  <2>2. CASE e # "completed"
    BY <2>2, EventEffect, LocalsEffect, FollowsEvent DEF AlibabaChatEvent, Announced
  <2> QED
    BY <2>1, <2>2
<1>2. CASE e = "text"
  BY <1>1, <1>2, EventEffect, ShowStep DEF AlibabaChatEvent, Yield, Show, GoesOn
<1>3. CASE e = "thinking"
  BY <1>1, <1>3, EventEffect, ShowStep DEF AlibabaChatEvent, Yield, Show, GoesOn
<1>4. CASE e = "usage"
  BY <1>1, <1>4, EventEffect, ShowStep DEF AlibabaChatEvent, Yield, Show, GoesOn
<1>5. CASE e = "completed"
  BY <1>1, <1>5, EventEffect, IgnoreStep DEF AlibabaChatEvent, Ignore, GoesOn
<1>6. CASE e = "filtered"
  BY <1>1, <1>6, EventEffect, FailStep DEF AlibabaChatEvent, Throw
<1> QED
  BY <1>2, <1>3, <1>4, <1>5, <1>6 DEF AlibabaChatEvent

(* Responses of Alibaba. *)
LEMMA AlibabaResponsesStep ==
  ASSUME Inv, NEW e \in Vocabulary, Writes(e), conn = "open", UNCHANGED adapter,
         adapter = "alibabaResponses", AlibabaResponsesEvent(e)
  PROVE  Inv' /\ AnswerStep
<1>1. Follows
  BY EventEffect, LocalsEffect, FollowsEvent DEF AlibabaResponsesEvent
<1>2. CASE e = "created"
  BY <1>1, <1>2, EventEffect, IgnoreStep DEF AlibabaResponsesEvent, Ignore, GoesOn
<1>3. CASE e = "text"
  BY <1>1, <1>3, EventEffect, ShowStep DEF AlibabaResponsesEvent, Yield, Show, GoesOn
<1>4. CASE e = "thinking"
  BY <1>1, <1>4, EventEffect, ShowStep DEF AlibabaResponsesEvent, Yield, Show, GoesOn
<1>5. CASE e \in {"completed", "bare"}
  BY <1>1, <1>5, EventEffect, FinishStep, LocalsEffect DEF AlibabaResponsesEvent, Sets
<1>6. CASE e \in {"failed", "error"}
  BY <1>1, <1>6, EventEffect, FailStep DEF AlibabaResponsesEvent, Throw
<1> QED
  BY <1>2, <1>3, <1>4, <1>5, <1>6 DEF AlibabaResponsesEvent

-----------------------------------------------------------------------------
LEMMA ReceiveStep ==
  ASSUME Inv, NEW e \in Vocabulary, Receive(e)
  PROVE  Inv' /\ AnswerStep
BY OpenAIStep, GoogleStep, DeepSeekStep, ClaudeStep, AlibabaChatStep, AlibabaResponsesStep
   DEF Receive, GrokEvent

(* The end of the stream ends Alibaba's answer, and nobody else's. *)
LEMMA ProviderClosesStep ==
  ASSUME Inv, ProviderCloses
  PROVE  Inv' /\ AnswerStep
<1>1. Follows /\ conn' = "closed"
  BY DEF ProviderCloses, Follows
<1>2. CASE adapter \notin Alibaba
  BY <1>1, <1>2, IgnoreStep DEF ProviderCloses, GoesOn, Alibaba
<1>3. CASE adapter = "alibabaChat"
  <2>1. CASE acc.finished
    BY <1>1, <1>3, <2>1, FinishStep DEF ProviderCloses, AlibabaChatEnds, Alibaba
  <2>2. CASE ~acc.finished
    BY <1>1, <1>3, <2>2, FailStep DEF ProviderCloses, AlibabaChatEnds, Alibaba
  <2> QED
    BY <2>1, <2>2
<1>4. CASE adapter = "alibabaResponses"
  BY <1>1, <1>4, FailStep DEF ProviderCloses, AlibabaResponsesEnds, Alibaba
<1> QED
  BY <1>2, <1>3, <1>4 DEF Alibaba

(* Every step keeps the invariant and is one of an answer. *)
LEMMA NextStep == Inv /\ [Next]_vars => Inv' /\ AnswerStep
<1> SUFFICES ASSUME Inv, [Next]_vars PROVE Inv' /\ AnswerStep
  OBVIOUS
<1>1. ASSUME NEW e \in Vocabulary, Receive(e) PROVE Inv' /\ AnswerStep
  BY <1>1, ReceiveStep
<1>2. CASE ProviderCloses
  BY <1>2, ProviderClosesStep
<1>3. CASE ConnectionBreaks
  BY <1>3, FailStep DEF ConnectionBreaks, Throw, Follows
<1>4. CASE Unsubscribe
  <2>1. Inv'
    BY <1>4 DEF Unsubscribe
  <2> QED
    BY <1>4, <2>1 DEF Unsubscribe, AnswerStep, Answer!Next, Answer!Stop
<1>5. CASE AbortRead
  BY <1>5, IgnoreStep DEF AbortRead, Aborts, Follows, GoesOn
<1>6. CASE UNCHANGED vars
  BY <1>6 DEF vars, AnswerStep
<1> QED
  BY <1>1, <1>2, <1>3, <1>4, <1>5, <1>6 DEF Next

LEMMA InitInv == Init => Inv /\ Answer!Init
<1> SUFFICES ASSUME Init PROVE Inv /\ Answer!Init
  OBVIOUS
<1>1. acc \in Locals /\ out \in Chunks /\ wrote \in Written
  BY DEF Init, Locals, Chunks, Written
<1>2. KeepsUp /\ NobodyWaits /\ CompleteIsEnded
  BY DEF Init
<1> QED
  BY <1>1, <1>2 DEF Init, Answer!Init

HIDE DEF StreamInv, TypeOK, KeepsUp, NobodyWaits, CompleteIsEnded, EndsWell, EndingEvents, Inv

LEMMA Always == Spec => []Inv
BY InitInv, NextStep, PTL DEF Spec

(* While the client listens it has every piece of text the provider has     *)
(* written, and is left waiting neither by a provider that has finished     *)
(* nor, with Alibaba, by a stream that has ended.                           *)
THEOREM Invariance == Spec => []StreamInv
<1>1. Inv => StreamInv
  BY DEF Inv
<1> QED
  BY Always, <1>1, PTL

(* No adapter completes an answer that its provider has not ended, and      *)
(* OpenAI's, Grok's and Alibaba's Responses none that is truncated, however *)
(* long the answer and wherever it breaks off.                              *)
THEOREM EndedAnswers == Spec => []CompleteIsEnded
<1>1. Inv => CompleteIsEnded
  BY DEF Inv
<1> QED
  BY Always, <1>1, PTL

(* Seven adapters, one promise: the chunks they pass on are pieces of text  *)
(* and then one end, and the chunk that completes holds all of them.        *)
THEOREM Refinement == Spec => ImplementsAnswerStream
<1>1. Inv /\ [Next]_vars => AnswerStep
  BY NextStep
<1> QED
  BY InitInv, Always, <1>1, PTL DEF Spec, ImplementsAnswerStream, Answer!Spec, AnswerStep

-----------------------------------------------------------------------------
(* ImageTask.                                                              *)

(* Before the images are read, nothing has begun. *)
NotBegun == at \in {"check", "read"} => clock = 0 /\ tasks = 0 /\ task = "none"

(* There is a task once one has been accepted, and the call polls only then. *)
TaskIsAccepted ==
  /\ tasks = IF task = "none" THEN 0 ELSE 1
  /\ at \in {"ask", "wait", "due"} => task # "none"
  /\ at = "download" => task = "succeeded"

ImageInd == /\ ImageInv /\ DeadlineHolds /\ OneTaskForAnImage
       /\ NotBegun /\ TaskIsAccepted

USE DEF ImageInv, ImageTypeOK, NothingLeftBehind, LeavingAborts, AnsweredAtTheEnd,
        DeadlineHolds, OneTaskForAnImage, NotBegun, TaskIsAccepted, ImageInd,
        Job, Requests, Active

(* The invariant holds initially. *)
LEMMA ImageInitInv == ImageInit => ImageInd
<1> SUFFICES ASSUME ImageInit PROVE ImageInd
  OBVIOUS
<1>1. ImageTypeOK
  BY DEF ImageInit
<1>2. NothingLeftBehind /\ LeavingAborts /\ AnsweredAtTheEnd
  BY DEF ImageInit
<1>3. DeadlineHolds /\ OneTaskForAnImage /\ NotBegun /\ TaskIsAccepted
  BY DEF ImageInit
<1> QED
  BY <1>1, <1>2, <1>3

(* The end of a call that has begun, in success only with its task's image. *)
LEMMA SettleInv ==
  ASSUME ImageInd, NEW outcome \in {"complete", "error"}, Settle(outcome),
         UNCHANGED <<task, tasks>>,
         outcome = "complete" => task = "succeeded"
  PROVE  ImageInd'
BY DEF Settle, CleanUp

(* The next await of a call that waits for something. *)
LEMMA AwaitInv ==
  ASSUME ImageInd, at \in Active, UNCHANGED <<task, tasks>>,
         NEW next \in {"ask", "wait", "download"}, Await(next),
         task # "none", next = "download" => task = "succeeded"
  PROVE  ImageInd'
<1>1. CASE signal = "live"
  BY <1>1 DEF Await
<1>2. CASE signal # "live"
  <2>1. Settle("error")
    BY <1>2 DEF Await
  <2> QED
    BY <2>1, SettleInv
<1> QED
  BY <1>1, <1>2

(* Every step keeps the invariant. *)
LEMMA ImageNextInv == ImageInd /\ [ImageNext]_imageVars => ImageInd'
<1> SUFFICES ASSUME ImageInd, [ImageNext]_imageVars PROVE ImageInd'
  OBVIOUS
<1>1. CASE CheckAttachments
  <2>1. CASE Settle("error")
    BY <1>1, <2>1, SettleInv DEF CheckAttachments
  <2>2. CASE ~Settle("error")
    BY <1>1, <2>2 DEF CheckAttachments
  <2> QED
    BY <2>1, <2>2
<1>2. CASE Submit
  BY <1>2, DeadlineAssumption DEF Submit, Arm
<1>3. CASE Poll
  BY <1>3, AwaitInv DEF Poll
<1>4. CASE AbortNoticed
  BY <1>4, SettleInv DEF AbortNoticed
<1>5. CASE TimerFires
  BY <1>5 DEF TimerFires, TimerDue
<1>6. CASE TaskReply
  <2>1. CASE Settle("error")
    BY <1>6, <2>1, SettleInv DEF TaskReply
  <2>2. CASE task = "succeeded" /\ Await("download")
    BY <1>6, <2>2, AwaitInv DEF TaskReply
  <2>3. CASE task \in {"pending", "running"} /\ Await("wait")
    BY <1>6, <2>3, AwaitInv DEF TaskReply
  <2> QED
    BY <1>6, <2>1, <2>2, <2>3 DEF TaskReply, FollowStatus
<1>7. CASE ImageArrives
  BY <1>7, SettleInv DEF ImageArrives
<1>8. CASE RequestFails
  BY <1>8, SettleInv DEF RequestFails
<1>9. CASE AcceptTask
  BY <1>9 DEF AcceptTask
<1>10. CASE TaskGoesOn
  BY <1>10 DEF TaskGoesOn
<1>11. CASE Tick
  (* The timer runs, and neither it nor the rejection is due: it is too early. *)
  <2>1. timer /\ signal = "live" /\ clock < Deadline
    BY <1>11, DeadlineAssumption DEF Tick, TimerDue, Rejects
  <2> QED
    BY <1>11, <2>1, DeadlineAssumption DEF Tick
<1>12. CASE Leave
  BY <1>12 DEF Leave
<1>13. CASE UNCHANGED imageVars
  BY <1>13 DEF imageVars
<1> QED
  BY <1>1, <1>2, <1>3, <1>4, <1>5, <1>6, <1>7, <1>8, <1>9, <1>10, <1>11, <1>12,
     <1>13 DEF ImageNext, Client

HIDE DEF ImageInv, ImageTypeOK, NothingLeftBehind, LeavingAborts, AnsweredAtTheEnd,
         DeadlineHolds, OneTaskForAnImage, NotBegun, TaskIsAccepted, ImageInd,
         Job, Requests, Active

LEMMA ImageAlways == ImageSpec => []ImageInd
BY ImageInitInv, ImageNextInv, PTL DEF ImageSpec

(* Whichever way generate is left, its timer and its listener go with it; a *)
(* client that leaves aborts the call, however early it leaves; and who     *)
(* stays is answered exactly when the call is over.                         *)
THEOREM ImageInvariance == ImageSpec => []ImageInv
<1>1. ImageInd => ImageInv
  BY DEF ImageInd
<1> QED
  BY ImageAlways, <1>1, PTL

(* No request and no delay of generate outlives the deadline of its timer.  *)
THEOREM DeadlineIsKept == ImageSpec => []DeadlineHolds
<1>1. ImageInd => DeadlineHolds
  BY DEF ImageInd
<1> QED
  BY ImageAlways, <1>1, PTL

(* A prompt for an image is at most one task at the provider, and what is   *)
(* shown is that task's result.                                             *)
THEOREM OneTask == ImageSpec => []OneTaskForAnImage
<1>1. ImageInd => OneTaskForAnImage
  BY DEF ImageInd
<1> QED
  BY ImageAlways, <1>1, PTL
=============================================================================
