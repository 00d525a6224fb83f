------------------------- MODULE PromptStreamProofs -------------------------
(* Theorems about module PromptStream: for any number of prompts and edits *)
(* of a chat, answers of every length and files attached in any way.       *)
EXTENDS PromptStream, SequenceTheorems, TLAPS

-----------------------------------------------------------------------------
(* What the helpers of the actions do, field by field.                     *)

LEMMA GotoEffect ==
  ASSUME TypeOK, NEW a \in Asks,
         NEW stage \in {"files", "find", "open", "stream", "closed"},
         Goto(a, stage)
  PROVE  /\ ask' \in [Asks -> Ask]
         /\ \A b \in Asks : b # a => ask'[b] = ask[b]
         /\ ask'[a].at = stage /\ ask'[a].knows = ask[a].knows /\ ask'[a].file = ask[a].file
<1> DEFINE next == [ask[a] EXCEPT !.at = stage]
<1>1. ask[a] \in Ask /\ ask \in [Asks -> Ask]
  BY DEF TypeOK
<1>2. /\ next \in Ask
      /\ next.at = stage /\ next.knows = ask[a].knows /\ next.file = ask[a].file
  BY <1>1 DEF Ask
<1>3. ask' = [ask EXCEPT ![a] = next]
  BY DEF Goto
<1> HIDE DEF next
<1> QED
  BY <1>1, <1>2, <1>3

LEMMA EndsEffect ==
  ASSUME TypeOK, NEW a \in Asks, NEW end \in {"complete", "error", "gone"}, Ends(a, end)
  PROVE  /\ client' \in [Asks -> Client]
         /\ \A b \in Asks : b # a => client'[b] = client[b]
         /\ client'[a].text = client[a].text
         /\ client[a].end # "open" =>
              client'[a].end = client[a].end /\ client'[a].size = client[a].size
         /\ client[a].end = "open" =>
              /\ client'[a].end = end
              /\ client'[a].size = IF end = "complete" THEN client[a].text ELSE client[a].size
BY DEF TypeOK, Client, Ends

LEMMA SavingEffect ==
  ASSUME TypeOK, NEW a \in Asks,
         NEW step \in {"no", "insert", "upsert", "object", "file", "done"}, Saving(a, step)
  PROVE  /\ job' \in [Asks -> Job]
         /\ \A b \in Asks : b # a => job'[b] = job[b]
         /\ job'[a].save = step
         /\ job'[a].metas = job[a].metas /\ job'[a].insert = job[a].insert
BY DEF TypeOK, Job, Saving

(* The end of the process: who is under way is lost, the others are as they *)
(* were, and no statement is left.                                          *)
LEMMA DieEffect ==
  ASSUME TypeOK, Die
  PROVE  /\ ask' \in [Asks -> Ask] /\ job' \in [Asks -> Job] /\ client' \in [Asks -> Client]
         /\ \A a \in Asks :
              /\ job'[a].metas = job[a].metas /\ job'[a].insert = 0
              /\ ask'[a].knows = ask[a].knows
              /\ client'[a].text = client[a].text /\ client'[a].size = client[a].size
         /\ \A a \in Asks : UnderWay(a) =>
              /\ ask'[a].at = "lost" /\ job'[a].save = "no"
              /\ client'[a].end = IF client[a].end = "open" THEN "error" ELSE client[a].end
         /\ \A a \in Asks : ~UnderWay(a) =>
              /\ ask'[a] = ask[a] /\ client'[a] = client[a]
              /\ job'[a].save = job[a].save /\ job[a].insert = 0
<1>1. \A a \in Asks : ask[a] \in Ask /\ job[a] \in Job /\ client[a] \in Client
  BY DEF TypeOK
<1>2. ASSUME NEW a \in Asks
      PROVE  /\ ask'[a] \in Ask
             /\ ask'[a].knows = ask[a].knows
             /\ UnderWay(a) => ask'[a].at = "lost"
             /\ ~UnderWay(a) => ask'[a] = ask[a]
  <2>1. /\ [ask[a] EXCEPT !.at = "lost"] \in Ask
        /\ [ask[a] EXCEPT !.at = "lost"].at = "lost"
        /\ [ask[a] EXCEPT !.at = "lost"].knows = ask[a].knows
    BY <1>1 DEF Ask
  <2>2. ask'[a] = IF UnderWay(a) THEN [ask[a] EXCEPT !.at = "lost"] ELSE ask[a]
    BY DEF Die
  <2> QED
    BY <1>1, <2>1, <2>2
<1>3. ASSUME NEW a \in Asks
      PROVE  /\ job'[a] \in Job
             /\ job'[a].metas = job[a].metas /\ job'[a].insert = 0
             /\ UnderWay(a) => job'[a].save = "no"
             /\ ~UnderWay(a) => job'[a].save = job[a].save
  BY <1>1 DEF Job, Die
<1>4. ASSUME NEW a \in Asks
      PROVE  /\ client'[a] \in Client
             /\ client'[a].text = client[a].text /\ client'[a].size = client[a].size
             /\ UnderWay(a) =>
                  client'[a].end = IF client[a].end = "open" THEN "error" ELSE client[a].end
             /\ ~UnderWay(a) => client'[a] = client[a]
  BY <1>1 DEF Client, Die
<1>5. ASSUME NEW a \in Asks, ~UnderWay(a)
      PROVE  job[a].insert = 0
  <2>1. job[a].insert \in Nat /\ ~(job[a].insert > 0)
    BY <1>1, <1>5 DEF UnderWay, Job
  <2> QED
    BY <2>1
<1>6. /\ ask' \in [Asks -> Ask]
      /\ job' \in [Asks -> Job]
      /\ client' \in [Asks -> Client]
  <2>1. \A a \in Asks : ask'[a] \in Ask /\ job'[a] \in Job /\ client'[a] \in Client
    BY <1>2, <1>3, <1>4
  <2>2. /\ ask' = [a \in Asks |-> ask'[a]]
        /\ job' = [a \in Asks |-> job'[a]]
        /\ client' = [a \in Asks |-> client'[a]]
    BY DEF Die
  <2> QED
    BY <2>1, <2>2
<1> QED
  BY <1>2, <1>3, <1>4, <1>5, <1>6

-----------------------------------------------------------------------------
(* The invariant, ask by ask.                                              *)

(* What the invariant says of one ask and its own records. *)
AskInv(a) ==
  /\ (model # "image" /\ client[a].end = "complete" /\ ask[a].at # "lost") =>
       \/ job[a].save = "insert" \/ chat.deleted
       \/ row[a].kind = "text" /\ job[a].save # "no"
  /\ ask[a].at \in Unanswered => client[a].end = "open"
  /\ ask[a].at \in Unanswered \cup {"lost"} => job[a].save = "no"
  /\ job[a].save = "upsert" => model # "image"
  /\ job[a].save = "object" => model = "image"
  /\ job[a].save # "no" /\ model # "image" => client[a].end = "complete"
  /\ client[a].end = "complete" => client[a].size = client[a].text
  /\ row[a].kind # "none" => (row[a].kind = "image" <=> model = "image")
  /\ job[a].save \in {"file", "done"} /\ model # "image" => meta[a].prompt
  /\ job[a].metas > 0 /\ job[a].insert = 0 /\ ask[a].at # "lost" => meta[a].counts
  /\ model = "image" =>
       /\ job[a].save \in {"file", "done"} => a \in images
       /\ job[a].save \in {"object", "file", "done"} =>
            row[a].kind = "image" \/ chat.deleted
       /\ client[a].end = "complete" =>
            a \in images /\ (row[a].kind = "image" \/ chat.deleted)
  /\ row[a].kind = "text" =>
       client[a].end = "complete" /\ row[a].size = client[a].text

Listed == \A a \in ToSet(prompts) : row[a].kind # "none"

Told ==
  \A a, b \in Asks : b \in ask[a].knows /\ model # "image" => client[b].end = "complete"

Inv == TypeOK /\ (\A a \in Asks : AskInv(a)) /\ Listed /\ Told

(* It is the invariants of the module together. *)
LEMMA InvParts == Inv <=> PromptInv /\ StoredIsWhole /\ ShownImageIsStored
BY DEF Inv, PromptInv, AnswerIsNotForgotten, SavesInTurn, ListedAreStored, CountsInTurn,
  ImagesInTurn, StoredIsWhole, ShownImageIsStored, AskInv, Listed, Told

Untouched(b) ==
  /\ ask'[b] = ask[b] /\ job'[b] = job[b] /\ client'[b] = client[b]
  /\ row'[b] = row[b] /\ meta'[b] = meta[b]
  /\ b \in images' <=> b \in images

(* A step on behalf of one ask leaves what is known of the others as it was. *)
Apart(a) == \A b \in Asks : b # a => Untouched(b)

LEMMA UntouchedInv ==
  ASSUME NEW b \in Asks, AskInv(b), Untouched(b),
         model' = model, chat.deleted => chat'.deleted
  PROVE  AskInv(b)'
BY DEF AskInv, Untouched

LEMMA StepOfOne ==
  ASSUME Inv, TypeOK', NEW a \in Asks, Apart(a), AskInv(a)',
         model' = model, chat.deleted => chat'.deleted, Listed', Told'
  PROVE  Inv'
<1>1. ASSUME NEW b \in Asks
      PROVE  AskInv(b)'
  BY UntouchedInv DEF Apart, Inv
<1> QED
  BY <1>1 DEF Inv

(* Who was told of an answer that was complete was told of a whole one. *)
LEMMA ToldStays ==
  ASSUME Told, model' = model,
         \A b \in Asks : ask'[b].knows = ask[b].knows,
         \A b \in Asks : client[b].end = "complete" => client'[b].end = "complete"
  PROVE  Told'
BY DEF Told

LEMMA ListedStays ==
  ASSUME Listed, prompts' = prompts,
         \A b \in ToSet(prompts) : row'[b].kind = row[b].kind
  PROVE  Listed'
BY DEF Listed

LEMMA MembersAreAsks ==
  ASSUME prompts \in Seq(Asks)
  PROVE  ToSet(prompts) \subseteq Asks
BY DEF ToSet

(* A prompt is listed when its row is inserted. *)
LEMMA ListedAppended ==
  ASSUME Listed, prompts \in Seq(Asks), NEW a \in Asks,
         prompts' = Append(prompts, a),
         \A b \in Asks : b # a => row'[b] = row[b],
         row'[a].kind # "none"
  PROVE  Listed'
<1>1. ToSet(Append(prompts, a)) = ToSet(prompts) \cup {a}
  BY AppendProperties DEF ToSet
<1>2. ToSet(prompts)' = ToSet(prompts) \cup {a}
  BY <1>1 DEF ToSet
<1> QED
  BY <1>2, MembersAreAsks DEF Listed

-----------------------------------------------------------------------------
(* The invariant holds initially and is kept by every step.                *)

LEMMA InitInv == Init => Inv
<1> SUFFICES ASSUME Init PROVE Inv
  OBVIOUS
<1>0. prompts = <<>> /\ prompts \in Seq(Asks) /\ Len(prompts) = 0
  BY EmptySeq DEF Init
<1>1. TypeOK
  <2>1. PICK files \in Attached :
          ask = [a \in Asks |-> [at |-> "new", fresh |-> FALSE, file |-> a \in files,
                               left |-> FALSE, knows |-> {}]]
    BY DEF Init
  <2>2. ask \in [Asks -> Ask]
    BY <2>1 DEF Ask
  <2>3. job \in [Asks -> Job] /\ client \in [Asks -> Client]
    BY DEF Init, Job, NoJob, Client
  <2>4. row \in [Asks -> Row] /\ meta \in [Asks -> Meta]
    BY DEF Init, Row, NoRow, Meta, NoMeta
  <2>5. chat \in Chat
    BY DEF Init, Chat, Titles
  <2>6. edit \in [Edits -> Titles \cup {"none"}]
    BY DEF Init, Titles
  <2>7. model \in Models /\ images \subseteq Asks
    BY DEF Init
  <2> QED
    BY <2>2, <2>3, <2>4, <2>5, <2>6, <2>7, <1>0 DEF TypeOK
<1>2. ASSUME NEW a \in Asks
      PROVE  ask[a].at = "new" /\ ask[a].knows = {}
  <2>1. PICK files \in Attached :
          ask = [b \in Asks |-> [at |-> "new", fresh |-> FALSE, file |-> b \in files,
                               left |-> FALSE, knows |-> {}]]
    BY DEF Init
  <2> QED
    BY <2>1
<1>3. ASSUME NEW a \in Asks
      PROVE  AskInv(a)
  <2>1. /\ job[a].save = "no" /\ job[a].metas = 0 /\ row[a].kind = "none"
        /\ client[a].end = "open"
    BY DEF Init, NoJob, NoRow
  <2> QED
    BY <1>2, <2>1 DEF AskInv, Unanswered
<1>4. Listed
  <2>1. DOMAIN prompts = {}
    BY <1>0
  <2> QED
    BY <2>1 DEF Listed, ToSet
<1>5. Told
  BY <1>2 DEF Told
<1> QED
  BY <1>1, <1>3, <1>4, <1>5 DEF Inv

LEMMA DieInv ==
  ASSUME Inv, Die
  PROVE  Inv'
<1>1. TypeOK
  BY DEF Inv
<1>2. UNCHANGED <<model, chat, prompts, row, images, meta>>
  BY DEF Die
<1>3. TypeOK'
  BY <1>1, <1>2, DieEffect DEF TypeOK, Die
<1>4. ASSUME NEW a \in Asks
      PROVE  AskInv(a)'
  <2>1. AskInv(a)
    BY DEF Inv
  <2>2. CASE UnderWay(a)
    BY <1>1, <1>2, <2>1, <2>2, DieEffect DEF AskInv, Unanswered
  <2>3. CASE ~UnderWay(a)
    BY <1>1, <1>2, <2>1, <2>3, DieEffect DEF AskInv, Unanswered
  <2> QED
    BY <2>2, <2>3
<1>5. Listed'
  BY <1>2, ListedStays DEF Inv
<1>6. Told'
  <2>1. \A b \in Asks : client[b].end = "complete" => client'[b].end = "complete"
    BY <1>1, DieEffect
  <2> QED
    BY <1>1, <1>2, <2>1, DieEffect, ToldStays DEF Inv
<1> QED
  BY <1>3, <1>4, <1>5, <1>6 DEF Inv

(* The handler of a request, up to its stream. *)
LEMMA HandlerInv ==
  ASSUME Inv, NEW a \in Asks,
         \/ Begin(a) \/ GetFiles(a) \/ FindLastPrompt(a) \/ OpenStream(a)
         \/ AskFails(a) \/ LeaveEarly(a) \/ Disconnect(a)
  PROVE  Inv'
<1>1. TypeOK /\ AskInv(a) /\ Listed /\ Told
  BY DEF Inv
<1>2. ask[a] \in Ask /\ job[a] \in Job /\ client[a] \in Client
  BY <1>1 DEF TypeOK
<1>3. UNCHANGED <<model, chat, prompts, row, images, meta>>
  BY DEF Begin, GetFiles, FindLastPrompt, OpenStream, AskFails, LeaveEarly, Disconnect
<1>4. Listed'
  BY <1>1, <1>3, ListedStays
<1>5. CASE Begin(a)
  <2> DEFINE next == [ask[a] EXCEPT !.at = "files", !.fresh = chat.title = ""]
  <2>1. /\ next \in Ask
        /\ next.at = "files" /\ next.knows = ask[a].knows
    BY <1>2 DEF Ask
  <2>2. ask' = [ask EXCEPT ![a] = next]
    BY <1>5 DEF Begin
  <2> HIDE DEF next
  <2>3. /\ ask' \in [Asks -> Ask]
        /\ \A b \in Asks : b # a => ask'[b] = ask[b]
        /\ ask'[a] = next
    BY <1>1, <2>1, <2>2 DEF TypeOK
  <2>4. TypeOK'
    BY <1>1, <1>5, <2>3 DEF TypeOK, Begin
  <2>5. AskInv(a)'
    BY <1>1, <1>5, <2>1, <2>3 DEF AskInv, Begin, Unanswered
  <2>6. Apart(a)
    BY <1>5, <2>3 DEF Apart, Untouched, Begin
  <2>7. Told'
    BY <1>1, <1>5, <2>1, <2>3, ToldStays DEF Begin
  <2> QED
    BY <1>3, <1>4, <2>4, <2>5, <2>6, <2>7, StepOfOne
<1>6. CASE GetFiles(a)
  <2> DEFINE next == [ask[a] EXCEPT !.at = AfterFiles, !.fresh = FALSE]
             work == [job[a] EXCEPT !.title = IF ask[a].fresh THEN "wanted" ELSE "no"]
  <2>1. AfterFiles \in {"find", "open"}
    BY DEF AfterFiles
  <2>2. /\ next \in Ask
        /\ next.at \in {"find", "open"} /\ next.knows = ask[a].knows
    BY <1>2, <2>1 DEF Ask
  <2>3. /\ work \in Job
        /\ work.save = job[a].save /\ work.metas = job[a].metas
        /\ work.insert = job[a].insert
    BY <1>2 DEF Job
  <2>4. ask' = [ask EXCEPT ![a] = next] /\ job' = [job EXCEPT ![a] = work]
    BY <1>6 DEF GetFiles
  <2> HIDE DEF next, work
  <2>5. /\ ask' \in [Asks -> Ask] /\ job' \in [Asks -> Job]
        /\ \A b \in Asks : b # a => ask'[b] = ask[b] /\ job'[b] = job[b]
        /\ ask'[a] = next /\ job'[a] = work
    BY <1>1, <2>2, <2>3, <2>4 DEF TypeOK
  <2>6. TypeOK'
    BY <1>1, <1>6, <2>5 DEF TypeOK, GetFiles
  <2>7. AskInv(a)'
    BY <1>1, <1>6, <2>2, <2>3, <2>5 DEF AskInv, GetFiles, Unanswered
  <2>8. Apart(a)
    BY <1>6, <2>5 DEF Apart, Untouched, GetFiles
  <2>9. Told'
    BY <1>1, <1>6, <2>2, <2>5, ToldStays DEF GetFiles
  <2> QED
    BY <1>3, <1>4, <2>6, <2>7, <2>8, <2>9, StepOfOne
<1>7. CASE FindLastPrompt(a)
  <2> DEFINE told == IF prompts = <<>> THEN {}
                     ELSE {Last(prompts)} \cup ask[Last(prompts)].knows
             next == [ask[a] EXCEPT !.at = "open", !.knows = told]
  <2>1. told \in SUBSET Asks
        /\ \A b \in told : model # "image" => client[b].end = "complete"
    <3>1. CASE prompts = <<>>
      BY <3>1
    <3>2. CASE prompts # <<>>
      <4>1. Last(prompts) \in ToSet(prompts) /\ Last(prompts) \in Asks
        BY <1>1, <3>2 DEF TypeOK, ToSet, Last
      <4>2. row[Last(prompts)].kind # "none" /\ row[Last(prompts)] \in Row
        BY <1>1, <4>1 DEF Listed, TypeOK
      <4>3. model # "image" => client[Last(prompts)].end = "complete"
        BY <4>1, <4>2 DEF Inv, AskInv, Row
      <4>4. ask[Last(prompts)].knows \in SUBSET Asks
        BY <1>1, <4>1 DEF TypeOK, Ask
      <4> QED
        BY <1>1, <3>2, <4>1, <4>3, <4>4 DEF Told
    <3> QED
      BY <3>1, <3>2
  <2> HIDE DEF told
  <2>2. next \in Ask /\ next.at = "open" /\ next.knows = told
    BY <1>2, <2>1 DEF Ask
  <2>3. ask' = [ask EXCEPT ![a] = next]
    BY <1>7 DEF FindLastPrompt, told
  <2> HIDE DEF next
  <2>4. /\ ask' \in [Asks -> Ask]
        /\ \A b \in Asks : b # a => ask'[b] = ask[b]
        /\ ask'[a] = next
    BY <1>1, <2>2, <2>3 DEF TypeOK
  <2>5. TypeOK'
    BY <1>1, <1>7, <2>4 DEF TypeOK, FindLastPrompt
  <2>6. AskInv(a)'
    BY <1>1, <1>7, <2>2, <2>4 DEF AskInv, FindLastPrompt, Unanswered
  <2>7. Apart(a)
    BY <1>7, <2>4 DEF Apart, Untouched, FindLastPrompt
  <2>8. Told'
    BY <1>1, <1>7, <2>1, <2>2, <2>4 DEF Told, FindLastPrompt
  <2> QED
    BY <1>3, <1>4, <2>5, <2>6, <2>7, <2>8, StepOfOne
<1>8. CASE OpenStream(a)
  <2> DEFINE told == IF model = "history" THEN PreviousMessages ELSE ask[a].knows
             next == [ask[a] EXCEPT !.at = "stream", !.knows = told]
  <2>1. told \in SUBSET Asks
        /\ \A b \in told : model # "image" => client[b].end = "complete"
    <3>1. CASE model = "history"
      <4>1. \A b \in ToSet(prompts) : b \in Asks
        BY <1>1 DEF TypeOK, ToSet
      <4>2. \A b \in ToSet(prompts) : row[b].kind = "text"
        BY <1>1, <3>1, <4>1 DEF Inv, Listed, AskInv, TypeOK, Row
      <4> QED
        BY <3>1, <4>1, <4>2 DEF PreviousMessages, Inv, AskInv
    <3>2. CASE model # "history"
      BY <1>1, <1>2, <3>2 DEF Told, Ask
    <3> QED
      BY <3>1, <3>2
  <2> HIDE DEF told
  <2>2. next \in Ask /\ next.at = "stream" /\ next.knows = told
    BY <1>2, <2>1 DEF Ask
  <2>3. ask' = [ask EXCEPT ![a] = next]
    BY <1>8 DEF OpenStream, told
  <2> HIDE DEF next
  <2>4. /\ ask' \in [Asks -> Ask]
        /\ \A b \in Asks : b # a => ask'[b] = ask[b]
        /\ ask'[a] = next
    BY <1>1, <2>2, <2>3 DEF TypeOK
  <2>5. TypeOK'
    BY <1>1, <1>8, <2>4 DEF TypeOK, OpenStream
  <2>6. AskInv(a)'
    BY <1>1, <1>8, <2>2, <2>4 DEF AskInv, OpenStream, Unanswered
  <2>7. Apart(a)
    BY <1>8, <2>4 DEF Apart, Untouched, OpenStream
  <2>8. Told'
    BY <1>1, <1>8, <2>1, <2>2, <2>4 DEF Told, OpenStream
  <2> QED
    BY <1>3, <1>4, <2>5, <2>6, <2>7, <2>8, StepOfOne
<1>9. CASE AskFails(a)
  <2>1. Goto(a, "closed") /\ Ends(a, "error") /\ UNCHANGED <<job, edit>>
    BY <1>9 DEF AskFails
  <2>2. /\ ask' \in [Asks -> Ask] /\ client' \in [Asks -> Client]
        /\ \A b \in Asks : b # a => ask'[b] = ask[b] /\ client'[b] = client[b]
        /\ ask'[a].at = "closed" /\ ask'[a].knows = ask[a].knows
    BY <1>1, <2>1, GotoEffect, EndsEffect
  <2>3. ask[a].at \in Unanswered
    BY <1>9 DEF AskFails, Unanswered
  <2>4. client[a].end = "open" /\ client'[a].end = "error" /\ client'[a].text = client[a].text
    BY <1>1, <2>1, <2>3, EndsEffect DEF AskInv
  <2>5. TypeOK'
    BY <1>1, <1>3, <2>1, <2>2 DEF TypeOK
  <2>6. AskInv(a)'
    BY <1>1, <1>3, <2>1, <2>2, <2>3, <2>4 DEF AskInv, Unanswered
  <2>7. Apart(a)
    BY <1>3, <2>1, <2>2 DEF Apart, Untouched
  <2>8. Told'
    BY <1>1, <1>3, <2>2, <2>4, ToldStays
  <2> QED
    BY <1>3, <1>4, <2>5, <2>6, <2>7, <2>8, StepOfOne
<1>10. CASE Disconnect(a)
  <2>1. Goto(a, "closed") /\ Ends(a, "gone") /\ UNCHANGED <<job, edit>>
    BY <1>10 DEF Disconnect
  <2>2. /\ ask' \in [Asks -> Ask] /\ client' \in [Asks -> Client]
        /\ \A b \in Asks : b # a => ask'[b] = ask[b] /\ client'[b] = client[b]
        /\ ask'[a].at = "closed" /\ ask'[a].knows = ask[a].knows
    BY <1>1, <2>1, GotoEffect, EndsEffect
  <2>3. client[a].end = "open" /\ client'[a].end = "gone" /\ client'[a].text = client[a].text
    BY <1>1, <1>10, <2>1, EndsEffect DEF Disconnect
  <2>4. ask[a].at # "lost"
    BY <1>1, <1>10 DEF Disconnect, AskInv
  <2>5. TypeOK'
    BY <1>1, <1>3, <2>1, <2>2 DEF TypeOK
  <2>6. AskInv(a)'
    BY <1>1, <1>3, <2>1, <2>2, <2>3, <2>4 DEF AskInv, Unanswered
  <2>7. Apart(a)
    BY <1>3, <2>1, <2>2 DEF Apart, Untouched
  <2>8. Told'
    BY <1>1, <1>3, <2>2, <2>3, ToldStays
  <2> QED
    BY <1>3, <1>4, <2>5, <2>6, <2>7, <2>8, StepOfOne
<1>11. CASE LeaveEarly(a)
  <2> DEFINE next == [ask[a] EXCEPT !.left = TRUE]
  <2>1. /\ next \in Ask
        /\ next.at = ask[a].at /\ next.knows = ask[a].knows
    BY <1>2 DEF Ask
  <2>2. ask' = [ask EXCEPT ![a] = next]
    BY <1>11 DEF LeaveEarly
  <2> HIDE DEF next
  <2>3. /\ ask' \in [Asks -> Ask]
        /\ \A b \in Asks : b # a => ask'[b] = ask[b]
        /\ ask'[a] = next
    BY <1>1, <2>1, <2>2 DEF TypeOK
  <2>4. TypeOK'
    BY <1>1, <1>11, <2>3 DEF TypeOK, LeaveEarly
  <2>5. AskInv(a)'
    BY <1>1, <1>11, <2>1, <2>3 DEF AskInv, LeaveEarly, Unanswered
  <2>6. Apart(a)
    BY <1>11, <2>3 DEF Apart, Untouched, LeaveEarly
  <2>7. Told'
    BY <1>1, <1>11, <2>1, <2>3, ToldStays DEF LeaveEarly
  <2> QED
    BY <1>3, <1>4, <2>4, <2>5, <2>6, <2>7, StepOfOne
<1> QED
  BY <1>5, <1>6, <1>7, <1>8, <1>9, <1>10, <1>11

(* The chunks of a text. *)
LEMMA ChunksInv ==
  ASSUME Inv, NEW a \in Asks, StreamText(a) \/ StreamMeta(a) \/ StreamComplete(a)
  PROVE  Inv'
<1>1. TypeOK /\ AskInv(a) /\ Listed /\ Told
  BY DEF Inv
<1>2. job[a] \in Job /\ client[a] \in Client
  BY <1>1 DEF TypeOK
<1>3. UNCHANGED <<model, chat, prompts, row, images, meta, edit>>
  BY DEF StreamText, StreamMeta, StreamComplete
<1>4. Listed'
  BY <1>1, <1>3, ListedStays
<1>5. /\ model # "image" /\ ask[a].at = "stream"
      /\ client[a].end = "open" /\ job[a].save = "no"
  BY <1>1 DEF StreamText, StreamMeta, StreamComplete, Streaming, AskInv, Unanswered
<1>6. CASE StreamText(a)
  <2> DEFINE next == [client[a] EXCEPT !.text = @ + 1]
  <2>1. next \in Client /\ next.end = "open"
    BY <1>2, <1>5 DEF Client
  <2>2. client' = [client EXCEPT ![a] = next] /\ UNCHANGED <<ask, job>>
    BY <1>6 DEF StreamText
  <2> HIDE DEF next
  <2>3. /\ client' \in [Asks -> Client]
        /\ \A b \in Asks : b # a => client'[b] = client[b]
        /\ client'[a] = next
    BY <1>1, <2>1, <2>2 DEF TypeOK
  <2>4. TypeOK'
    BY <1>1, <1>3, <2>2, <2>3 DEF TypeOK
  <2>5. AskInv(a)'
    BY <1>1, <1>3, <1>5, <2>1, <2>2, <2>3 DEF AskInv, Unanswered
  <2>6. Apart(a)
    BY <1>3, <2>2, <2>3 DEF Apart, Untouched
  <2>7. Told'
    BY <1>1, <1>3, <1>5, <2>2, <2>3, ToldStays
  <2> QED
    BY <1>3, <1>4, <2>4, <2>5, <2>6, <2>7, StepOfOne
<1>7. CASE StreamMeta(a)
  <2> DEFINE next == [job[a] EXCEPT !.metas = @ + 1, !.insert = @ + 1]
  <2>0. job[a].metas + 1 \in Nat /\ job[a].insert + 1 \in Nat \ {0}
    BY <1>2 DEF Job
  <2>1. next \in Job /\ next.save = job[a].save /\ next.insert = job[a].insert + 1
    BY <1>2, <2>0 DEF Job
  <2>2. job' = [job EXCEPT ![a] = next] /\ UNCHANGED <<ask, client>>
    BY <1>7 DEF StreamMeta
  <2> HIDE DEF next
  <2>3. /\ job' \in [Asks -> Job]
        /\ \A b \in Asks : b # a => job'[b] = job[b]
        /\ job'[a] = next
    BY <1>1, <2>1, <2>2 DEF TypeOK
  <2>4. TypeOK'
    BY <1>1, <1>3, <2>2, <2>3 DEF TypeOK
  <2>5. next.insert # 0
    BY <2>0, <2>1
  <2>6. AskInv(a)'
    BY <1>1, <1>3, <1>5, <2>1, <2>2, <2>3, <2>5 DEF AskInv, Unanswered
  <2>7. Apart(a)
    BY <1>3, <2>2, <2>3 DEF Apart, Untouched
  <2>8. Told'
    BY <1>1, <1>3, <2>2, ToldStays
  <2> QED
    BY <1>3, <1>4, <2>4, <2>6, <2>7, <2>8, StepOfOne
<1>8. CASE StreamComplete(a)
  <2>1. Goto(a, "closed") /\ Ends(a, "complete") /\ Saving(a, "insert")
    BY <1>8 DEF StreamComplete
  <2>2. /\ ask' \in [Asks -> Ask] /\ client' \in [Asks -> Client] /\ job' \in [Asks -> Job]
        /\ \A b \in Asks : b # a =>
             ask'[b] = ask[b] /\ client'[b] = client[b] /\ job'[b] = job[b]
        /\ ask'[a].at = "closed" /\ ask'[a].knows = ask[a].knows
        /\ job'[a].save = "insert"
        /\ job'[a].metas = job[a].metas /\ job'[a].insert = job[a].insert
    BY <1>1, <2>1, GotoEffect, EndsEffect, SavingEffect
  <2>3. /\ client'[a].end = "complete" /\ client'[a].text = client[a].text
        /\ client'[a].size = client[a].text
    BY <1>1, <1>5, <2>1, EndsEffect
  <2>4. TypeOK'
    BY <1>1, <1>3, <2>2 DEF TypeOK
  <2>5. AskInv(a)'
    BY <1>1, <1>3, <1>5, <2>2, <2>3 DEF AskInv, Unanswered
  <2>6. Apart(a)
    BY <1>3, <2>2 DEF Apart, Untouched
  <2>7. Told'
    BY <1>1, <1>3, <2>2, <2>3, ToldStays
  <2> QED
    BY <1>3, <1>4, <2>4, <2>5, <2>6, <2>7, StepOfOne
<1> QED
  BY <1>6, <1>7, <1>8

(* The statements of the taps. *)
LEMMA StatementsInv ==
  ASSUME Inv, NEW a \in Asks,
         \/ InsertMeta(a) \/ InsertPrompt(a) \/ UpsertMeta(a) \/ SavePromptFile(a)
         \/ TapIsRejected(a)
  PROVE  Inv'
<1>1. TypeOK /\ AskInv(a) /\ Listed /\ Told
  BY DEF Inv
<1>2. /\ job[a] \in Job /\ client[a] \in Client /\ row[a] \in Row
      /\ meta[a] \in Meta /\ prompts \in Seq(Asks)
  BY <1>1 DEF TypeOK
<1>3. CASE Die
  BY <1>3, DieInv
<1>4. CASE InsertMeta(a) /\ ~Die
  <2> DEFINE counts == [meta[a] EXCEPT !.exists = TRUE, !.counts = TRUE]
             next == [job[a] EXCEPT !.insert = @ - 1]
  <2>1. /\ job[a].insert > 0
        /\ meta' = [meta EXCEPT ![a] = counts] /\ job' = [job EXCEPT ![a] = next]
        /\ UNCHANGED <<model, chat, prompts, row, images, ask, client, edit>>
    BY <1>4 DEF InsertMeta
  <2>2. counts \in Meta /\ counts.counts /\ counts.prompt = meta[a].prompt
    BY <1>2 DEF Meta
  <2>3. next \in Job /\ next.save = job[a].save /\ next.metas = job[a].metas
    BY <1>2, <2>1 DEF Job
  <2> HIDE DEF counts, next
  <2>4. /\ job' \in [Asks -> Job] /\ meta' \in [Asks -> Meta]
        /\ \A b \in Asks : b # a => job'[b] = job[b] /\ meta'[b] = meta[b]
        /\ job'[a] = next /\ meta'[a] = counts
    BY <1>1, <2>1, <2>2, <2>3 DEF TypeOK
  <2>5. TypeOK'
    BY <1>1, <2>1, <2>4 DEF TypeOK
  <2>6. AskInv(a)'
    BY <1>1, <2>1, <2>2, <2>3, <2>4 DEF AskInv, Unanswered
  <2>7. Apart(a)
    BY <2>1, <2>4 DEF Apart, Untouched
  <2>8. Listed' /\ Told'
    BY <1>1, <2>1, ListedStays, ToldStays
  <2> QED
    BY <2>1, <2>5, <2>6, <2>7, <2>8, StepOfOne
<1>5. CASE InsertPrompt(a) /\ ~Die
  <2> DEFINE new == [NoRow EXCEPT !.kind = "text", !.size = client[a].size]
  <2>1. /\ model # "image" /\ job[a].save = "insert"
        /\ row' = [row EXCEPT ![a] = new]
        /\ prompts' = Append(prompts, a)
        /\ Saving(a, "upsert")
        /\ UNCHANGED <<model, chat, images, meta, ask, client, edit>>
    BY <1>5 DEF InsertPrompt
  <2>2. new \in Row /\ new.kind = "text" /\ new.size = client[a].size
    BY <1>2 DEF NoRow, Row, Client
  <2> HIDE DEF new
  <2>3. /\ job' \in [Asks -> Job] /\ row' \in [Asks -> Row]
        /\ \A b \in Asks : b # a => job'[b] = job[b] /\ row'[b] = row[b]
        /\ row'[a] = new /\ job'[a].save = "upsert"
        /\ job'[a].metas = job[a].metas /\ job'[a].insert = job[a].insert
    BY <1>1, <2>1, <2>2, SavingEffect DEF TypeOK
  <2>4. TypeOK'
    BY <1>1, <2>1, <2>3 DEF TypeOK
  <2>5. AskInv(a)'
    BY <1>1, <2>1, <2>2, <2>3 DEF AskInv, Unanswered
  <2>6. Apart(a)
    BY <2>1, <2>3 DEF Apart, Untouched
  <2>7. Listed'
    BY <1>1, <1>2, <2>1, <2>2, <2>3, ListedAppended
  <2>8. Told'
    BY <1>1, <2>1, ToldStays
  <2> QED
    BY <2>1, <2>4, <2>5, <2>6, <2>7, <2>8, StepOfOne
<1>6. CASE UpsertMeta(a)
  <2>1. /\ job[a].save = "upsert"
        /\ meta' = [meta EXCEPT ![a] = LinkMeta(a)]
        /\ Saving(a, IF ask[a].file THEN "file" ELSE "done")
        /\ UNCHANGED <<model, chat, prompts, row, images, ask, client, edit>>
    BY <1>6 DEF UpsertMeta
  <2>2. LinkMeta(a) \in Meta /\ LinkMeta(a).prompt /\ LinkMeta(a).counts = meta[a].counts
    BY <1>2 DEF LinkMeta, Meta
  <2>3. /\ job' \in [Asks -> Job] /\ meta' \in [Asks -> Meta]
        /\ \A b \in Asks : b # a => job'[b] = job[b] /\ meta'[b] = meta[b]
        /\ meta'[a] = LinkMeta(a) /\ job'[a].save \in {"file", "done"}
        /\ job'[a].metas = job[a].metas /\ job'[a].insert = job[a].insert
    BY <1>1, <2>1, <2>2, SavingEffect DEF TypeOK
  <2>4. TypeOK'
    BY <1>1, <2>1, <2>3 DEF TypeOK
  <2>5. AskInv(a)'
    BY <1>1, <2>1, <2>2, <2>3 DEF AskInv, Unanswered
  <2>6. Apart(a)
    BY <2>1, <2>3 DEF Apart, Untouched
  <2>7. Listed' /\ Told'
    BY <1>1, <2>1, ListedStays, ToldStays
  <2> QED
    BY <2>1, <2>4, <2>5, <2>6, <2>7, StepOfOne
<1>7. CASE SavePromptFile(a) /\ ~Die
  <2> DEFINE linked == [row[a] EXCEPT !.file = TRUE]
  <2>1. /\ model # "image" /\ job[a].save = "file"
        /\ row' = [row EXCEPT ![a] = linked]
        /\ Saving(a, "done")
        /\ UNCHANGED <<model, chat, prompts, images, meta, ask, client, edit>>
    BY <1>7 DEF SavePromptFile
  <2>2. linked \in Row /\ linked.kind = row[a].kind /\ linked.size = row[a].size
    BY <1>2 DEF Row
  <2> HIDE DEF linked
  <2>3. /\ job' \in [Asks -> Job] /\ row' \in [Asks -> Row]
        /\ \A b \in Asks : b # a => job'[b] = job[b] /\ row'[b] = row[b]
        /\ row'[a] = linked /\ job'[a].save = "done"
        /\ job'[a].metas = job[a].metas /\ job'[a].insert = job[a].insert
    BY <1>1, <2>1, <2>2, SavingEffect DEF TypeOK
  <2>4. TypeOK'
    BY <1>1, <2>1, <2>3 DEF TypeOK
  <2>5. AskInv(a)'
    BY <1>1, <2>1, <2>2, <2>3 DEF AskInv, Unanswered
  <2>6. Apart(a)
    BY <2>1, <2>3 DEF Apart, Untouched
  <2>7. Listed' /\ Told'
    BY <1>1, <1>2, <2>1, <2>2, <2>3, ListedStays, ToldStays, MembersAreAsks
  <2> QED
    BY <2>1, <2>4, <2>5, <2>6, <2>7, StepOfOne
<1>8. CASE TapIsRejected(a)
  BY <1>8, DieInv DEF TapIsRejected
<1> QED
  BY <1>3, <1>4, <1>5, <1>6, <1>7, <1>8

(* An image, from its arrival on. *)
LEMMA ImageInv ==
  ASSUME Inv, NEW a \in Asks,
         \/ ImageArrives(a) \/ InsertImagePrompt(a) \/ SaveGeneratedImage(a)
         \/ InsertImageFile(a) \/ ImageFails(a)
  PROVE  Inv'
<1>1. TypeOK /\ AskInv(a) /\ Listed /\ Told
  BY DEF Inv
<1>2. row[a] \in Row /\ prompts \in Seq(Asks) /\ ToSet(prompts) \subseteq Asks
  BY <1>1, MembersAreAsks DEF TypeOK
<1>3. UNCHANGED <<model, chat, meta, edit>>
  BY DEF ImageArrives, InsertImagePrompt, SaveGeneratedImage, InsertImageFile, ImageFails
<1>4. model = "image"
  BY <1>1 DEF ImageArrives, InsertImagePrompt, SaveGeneratedImage, InsertImageFile,
    ImageFails, AskInv
<1>5. CASE ImageArrives(a)
  <2>1. /\ ask[a].at = "stream"
        /\ Goto(a, "closed") /\ Saving(a, "insert")
        /\ UNCHANGED <<prompts, row, images, client>>
    BY <1>5 DEF ImageArrives
  <2>2. /\ ask' \in [Asks -> Ask] /\ job' \in [Asks -> Job]
        /\ \A b \in Asks : b # a => ask'[b] = ask[b] /\ job'[b] = job[b]
        /\ ask'[a].at = "closed" /\ ask'[a].knows = ask[a].knows
        /\ job'[a].save = "insert"
        /\ job'[a].metas = job[a].metas /\ job'[a].insert = job[a].insert
    BY <1>1, <2>1, GotoEffect, SavingEffect
  <2>3. TypeOK'
    BY <1>1, <1>3, <2>1, <2>2 DEF TypeOK
  <2>4. AskInv(a)'
    BY <1>1, <1>3, <1>4, <2>1, <2>2 DEF AskInv, Unanswered
  <2>5. Apart(a)
    BY <1>3, <2>1, <2>2 DEF Apart, Untouched
  <2>6. Listed' /\ Told'
    BY <1>1, <1>3, <2>1, <2>2, ListedStays, ToldStays
  <2> QED
    BY <1>3, <2>3, <2>4, <2>5, <2>6, StepOfOne
<1>6. CASE InsertImagePrompt(a)
  <2> DEFINE new == [row[a] EXCEPT !.kind = "image"]
  <2>1. /\ job[a].save = "insert"
        /\ row' = [row EXCEPT ![a] = new]
        /\ prompts' = Append(prompts, a)
        /\ Saving(a, "object")
        /\ UNCHANGED <<images, ask, client>>
    BY <1>6 DEF InsertImagePrompt
  <2>2. new \in Row /\ new.kind = "image"
    BY <1>2 DEF Row
  <2> HIDE DEF new
  <2>3. /\ job' \in [Asks -> Job] /\ row' \in [Asks -> Row]
        /\ \A b \in Asks : b # a => job'[b] = job[b] /\ row'[b] = row[b]
        /\ row'[a] = new /\ job'[a].save = "object"
        /\ job'[a].metas = job[a].metas /\ job'[a].insert = job[a].insert
    BY <1>1, <2>1, <2>2, SavingEffect DEF TypeOK
  <2>4. TypeOK'
    BY <1>1, <1>3, <2>1, <2>3 DEF TypeOK
  <2>5. AskInv(a)'
    BY <1>1, <1>3, <1>4, <2>1, <2>2, <2>3 DEF AskInv, Unanswered
  <2>6. Apart(a)
    BY <1>3, <2>1, <2>3 DEF Apart, Untouched
  <2>7. Listed'
    BY <1>1, <1>2, <2>1, <2>2, <2>3, ListedAppended
  <2>8. Told'
    BY <1>1, <1>3, <2>1, ToldStays
  <2> QED
    BY <1>3, <2>4, <2>5, <2>6, <2>7, <2>8, StepOfOne
<1>7. CASE SaveGeneratedImage(a) /\ ask[a].file
  <2>1. /\ job[a].save = "object"
        /\ images' = images \cup {a}
        /\ Saving(a, "file")
        /\ UNCHANGED <<prompts, row, ask, client>>
    BY <1>7 DEF SaveGeneratedImage, StoreObject
  <2>2. /\ job' \in [Asks -> Job]
        /\ \A b \in Asks : b # a => job'[b] = job[b]
        /\ job'[a].save = "file"
        /\ job'[a].metas = job[a].metas /\ job'[a].insert = job[a].insert
    BY <1>1, <2>1, SavingEffect
  <2>3. TypeOK'
    BY <1>1, <1>3, <2>1, <2>2 DEF TypeOK
  <2>4. AskInv(a)'
    BY <1>1, <1>3, <1>4, <2>1, <2>2 DEF AskInv, Unanswered
  <2>5. Apart(a)
    BY <1>3, <2>1, <2>2 DEF Apart, Untouched
  <2>6. Listed' /\ Told'
    BY <1>1, <1>3, <2>1, ListedStays, ToldStays
  <2> QED
    BY <1>3, <2>3, <2>4, <2>5, <2>6, StepOfOne
<1>8. CASE SaveGeneratedImage(a) /\ ~ask[a].file
  <2>1. /\ job[a].save = "object"
        /\ images' = images \cup {a}
        /\ Saving(a, "done") /\ Ends(a, "complete")
        /\ UNCHANGED <<prompts, row, ask>>
    BY <1>8 DEF SaveGeneratedImage, StoreObject, ShowImage
  <2>2. /\ job' \in [Asks -> Job] /\ client' \in [Asks -> Client]
        /\ \A b \in Asks : b # a => job'[b] = job[b] /\ client'[b] = client[b]
        /\ job'[a].save = "done"
        /\ job'[a].metas = job[a].metas /\ job'[a].insert = job[a].insert
    BY <1>1, <2>1, SavingEffect, EndsEffect
  <2>3. /\ client'[a].text = client[a].text
        /\ client[a].end # "open" =>
             client'[a].end = client[a].end /\ client'[a].size = client[a].size
        /\ client[a].end = "open" =>
             client'[a].end = "complete" /\ client'[a].size = client[a].text
    BY <1>1, <2>1, EndsEffect
  <2>4. TypeOK'
    BY <1>1, <1>3, <2>1, <2>2 DEF TypeOK
  <2>5. AskInv(a)'
    BY <1>1, <1>3, <1>4, <2>1, <2>2, <2>3 DEF AskInv, Unanswered
  <2>6. Apart(a)
    BY <1>3, <2>1, <2>2 DEF Apart, Untouched
  <2>7. Listed' /\ Told'
    BY <1>1, <1>3, <2>1, <2>2, <2>3, ListedStays, ToldStays
  <2> QED
    BY <1>3, <2>4, <2>5, <2>6, <2>7, StepOfOne
<1>9. CASE InsertImageFile(a)
  <2> DEFINE linked == [row[a] EXCEPT !.file = TRUE]
  <2>1. /\ job[a].save = "file"
        /\ row' = [row EXCEPT ![a] = linked]
        /\ Saving(a, "done") /\ Ends(a, "complete")
        /\ UNCHANGED <<prompts, images, ask>>
    BY <1>9 DEF InsertImageFile, ShowImage
  <2>2. linked \in Row /\ linked.kind = row[a].kind /\ linked.size = row[a].size
    BY <1>2 DEF Row
  <2> HIDE DEF linked
  <2>3. /\ job' \in [Asks -> Job] /\ client' \in [Asks -> Client] /\ row' \in [Asks -> Row]
        /\ \A b \in Asks : b # a =>
             job'[b] = job[b] /\ client'[b] = client[b] /\ row'[b] = row[b]
        /\ row'[a] = linked /\ job'[a].save = "done"
        /\ job'[a].metas = job[a].metas /\ job'[a].insert = job[a].insert
    BY <1>1, <2>1, <2>2, SavingEffect, EndsEffect DEF TypeOK
  <2>4. /\ client'[a].text = client[a].text
        /\ client[a].end # "open" =>
             client'[a].end = client[a].end /\ client'[a].size = client[a].size
        /\ client[a].end = "open" =>
             client'[a].end = "complete" /\ client'[a].size = client[a].text
    BY <1>1, <2>1, EndsEffect
  <2>5. TypeOK'
    BY <1>1, <1>3, <2>1, <2>3 DEF TypeOK
  <2>6. AskInv(a)'
    BY <1>1, <1>3, <1>4, <2>1, <2>2, <2>3, <2>4 DEF AskInv, Unanswered
  <2>7. Apart(a)
    BY <1>3, <2>1, <2>3 DEF Apart, Untouched
  <2>8. Listed' /\ Told'
    BY <1>1, <1>2, <1>3, <2>1, <2>2, <2>3, <2>4, ListedStays, ToldStays
  <2> QED
    BY <1>3, <2>5, <2>6, <2>7, <2>8, StepOfOne
<1>10. CASE ImageFails(a)
  <2>1. /\ job[a].save # "no"
        /\ Saving(a, "no") /\ Ends(a, "error")
        /\ UNCHANGED <<prompts, row, images, ask>>
    BY <1>10 DEF ImageFails
  <2>2. /\ job' \in [Asks -> Job] /\ client' \in [Asks -> Client]
        /\ \A b \in Asks : b # a => job'[b] = job[b] /\ client'[b] = client[b]
        /\ job'[a].save = "no"
        /\ job'[a].metas = job[a].metas /\ job'[a].insert = job[a].insert
    BY <1>1, <2>1, SavingEffect, EndsEffect
  <2>3. /\ client'[a].text = client[a].text
        /\ client[a].end # "open" =>
             client'[a].end = client[a].end /\ client'[a].size = client[a].size
        /\ client[a].end = "open" => client'[a].end = "error"
    BY <1>1, <2>1, EndsEffect
  <2>4. TypeOK'
    BY <1>1, <1>3, <2>1, <2>2 DEF TypeOK
  <2>5. AskInv(a)'
    BY <1>1, <1>3, <1>4, <2>1, <2>2, <2>3 DEF AskInv, Unanswered
  <2>6. Apart(a)
    BY <1>3, <2>1, <2>2 DEF Apart, Untouched
  <2>7. Listed' /\ Told'
    BY <1>1, <1>3, <2>1, <2>2, <2>3, ListedStays, ToldStays
  <2> QED
    BY <1>3, <2>4, <2>5, <2>6, <2>7, StepOfOne
<1> QED
  BY <1>5, <1>6, <1>7, <1>8, <1>9, <1>10

(* What happens to the chat meanwhile. *)
LEMMA ChatInv ==
  ASSUME Inv,
         \/ \E a \in Asks : TitleArrives(a)
         \/ PatchChat
         \/ \E e \in Edits : ReadChat(e) \/ MakeChatPublic(e)
  PROVE  Inv'
<1>1. TypeOK /\ Listed /\ Told
  BY DEF Inv
<1>2. chat \in Chat /\ \A e \in Edits : edit[e] \in Titles \cup {"none"}
  BY <1>1 DEF TypeOK
<1>3. UNCHANGED <<model, prompts, row, images, meta, ask, client>>
  BY DEF TitleArrives, PatchChat, ReadChat, MakeChatPublic
<1>4. chat' \in Chat /\ (chat.deleted => chat'.deleted)
  BY <1>2 DEF TitleArrives, PatchChat, ReadChat, MakeChatPublic, GiveTitle, Chat, Titles
<1>5. edit' \in [Edits -> Titles \cup {"none"}]
  BY <1>1, <1>2 DEF TitleArrives, PatchChat, ReadChat, MakeChatPublic, TypeOK, Chat
<1> DEFINE Works ==
      /\ job' \in [Asks -> Job]
      /\ \A b \in Asks : /\ job'[b].save = job[b].save /\ job'[b].metas = job[b].metas
                         /\ job'[b].insert = job[b].insert
<1>6. Works
  <2>1. CASE job' = job
    BY <1>1, <2>1 DEF TypeOK
  <2>2. ASSUME NEW a \in Asks, job' = [job EXCEPT ![a].title = "no"]
        PROVE  Works
    <3>1. job \in [Asks -> Job] /\ job[a] \in Job
      BY <1>1 DEF TypeOK
    <3> DEFINE next == [job[a] EXCEPT !.title = "no"]
    <3>2. /\ next \in Job /\ next.save = job[a].save /\ next.metas = job[a].metas
          /\ next.insert = job[a].insert
      BY <3>1 DEF Job
    <3>3. job' = [job EXCEPT ![a] = next]
      BY <2>2
    <3> HIDE DEF next
    <3> QED
      BY <3>1, <3>2, <3>3
  <2> HIDE DEF Works
  <2> QED
    BY <2>1, <2>2 DEF TitleArrives, PatchChat, ReadChat, MakeChatPublic
<1>7. TypeOK'
  BY <1>1, <1>3, <1>4, <1>5, <1>6 DEF TypeOK
<1>8. ASSUME NEW b \in Asks
      PROVE  AskInv(b)'
  BY <1>3, <1>4, <1>6 DEF Inv, AskInv, Unanswered
<1>9. Listed' /\ Told'
  BY <1>1, <1>3, ListedStays, ToldStays
<1> QED
  BY <1>7, <1>8, <1>9 DEF Inv

LEMMA DeleteInv ==
  ASSUME Inv, DeleteChat
  PROVE  Inv'
<1>1. TypeOK /\ Told
  BY DEF Inv
<1>2. /\ chat' = [chat EXCEPT !.live = FALSE, !.deleted = TRUE]
      /\ prompts' = <<>>
      /\ row' = [a \in Asks |-> NoRow]
      /\ UNCHANGED <<model, images, meta, ask, job, client, edit>>
  BY DEF DeleteChat
<1>3. chat' \in Chat /\ chat'.deleted
  BY <1>1, <1>2 DEF TypeOK, Chat
<1>4. row' \in [Asks -> Row] /\ \A a \in Asks : row'[a].kind = "none"
  BY <1>2 DEF Row, NoRow
<1>5. prompts' \in Seq(Asks) /\ DOMAIN prompts' = {}
  BY <1>2, EmptySeq
<1>6. TypeOK'
  BY <1>1, <1>2, <1>3, <1>4, <1>5 DEF TypeOK
<1>7. ASSUME NEW a \in Asks
      PROVE  AskInv(a)'
  BY <1>2, <1>3, <1>4 DEF Inv, AskInv, Unanswered
<1>8. Listed'
  BY <1>5 DEF Listed, ToSet
<1>9. Told'
  BY <1>1, <1>2, ToldStays
<1> QED
  BY <1>6, <1>7, <1>8, <1>9 DEF Inv

LEMMA NextInv == Inv /\ [Next]_vars => Inv'
<1> SUFFICES ASSUME Inv, [Next]_vars PROVE Inv'
  OBVIOUS
<1>1. ASSUME NEW a \in Asks, Prompt(a)
      PROVE  Inv'
  BY <1>1, HandlerInv, ChunksInv, StatementsInv, ImageInv, ChatInv DEF Prompt
<1>2. CASE UNCHANGED vars
  BY <1>2 DEF vars, Inv, TypeOK, AskInv, Listed, Told
<1> QED
  BY <1>1, <1>2, ChatInv, DeleteInv DEF Next

LEMMA Always == Spec => []Inv
BY InitInv, NextInv, PTL DEF Spec

-----------------------------------------------------------------------------
(* What follows.                                                           *)

(* The invariant of the prompts of a chat: an answer that its client has   *)
(* seen to its end is stored, or being stored, unless the process has died *)
(* or the chat was deleted; and the taps of sendStreamPrompt and the steps *)
(* of sendImagePrompt leave their marks in order.                          *)
THEOREM Invariance == Spec => []PromptInv
<1>1. Inv => PromptInv
  BY InvParts
<1> QED
  BY Always, <1>1, PTL

(* What is stored as the text of an answer is all that its client was      *)
(* shown, and the providers are told of such answers only, however the     *)
(* prompts of a chat overlap, are cut off or fail.                         *)
THEOREM WholeTexts == Spec => []StoredIsWhole
<1>1. Inv => StoredIsWhole
  BY InvParts
<1> QED
  BY Always, <1>1, PTL

(* An image is shown only after its object and its row have been stored.   *)
THEOREM ImagesAreStored == Spec => []ShownImageIsStored
<1>1. Inv => ShownImageIsStored
  BY InvParts
<1> QED
  BY Always, <1>1, PTL

(* When the taps of a text have ended, its counts are stored and belong to *)
(* its prompt, in whichever order the two taps ran.                        *)
THEOREM CountsAreStored == Spec => []SavedIsCounted
<1>1. Inv => SavedIsCounted
  BY DEF Inv, AskInv, SavedIsCounted
<1> QED
  BY Always, <1>1, PTL

(* Counts, and the prompt they are linked to, are never lost again.        *)
LEMMA MetaStep ==
  ASSUME TypeOK, [Next]_vars, NEW a \in Asks
  PROVE  /\ meta[a].counts => meta'[a].counts
         /\ meta[a].prompt => meta'[a].prompt
<1>1. meta \in [Asks -> Meta]
  BY DEF TypeOK
<1>2. CASE UNCHANGED meta
  BY <1>2
<1>3. ASSUME NEW b \in Asks, InsertMeta(b), ~Die
      PROVE  /\ meta[a].counts => meta'[a].counts
             /\ meta[a].prompt => meta'[a].prompt
  BY <1>1, <1>3 DEF InsertMeta, Meta
<1>4. ASSUME NEW b \in Asks, UpsertMeta(b)
      PROVE  /\ meta[a].counts => meta'[a].counts
             /\ meta[a].prompt => meta'[a].prompt
  BY <1>1, <1>4 DEF UpsertMeta, LinkMeta, Meta
<1>5. Die => UNCHANGED meta
  BY DEF Die
<1>6. ASSUME NEW b \in Asks, Prompt(b), ~Die, ~InsertMeta(b), ~UpsertMeta(b)
      PROVE  UNCHANGED meta
  BY <1>6 DEF Prompt, Begin, GetFiles, FindLastPrompt, OpenStream, AskFails, LeaveEarly, Disconnect,
    StreamText, StreamMeta, StreamComplete, InsertPrompt, SavePromptFile, TapIsRejected,
    ImageArrives, InsertImagePrompt, SaveGeneratedImage, InsertImageFile, ImageFails,
    TitleArrives
<1>7. CASE ~(\E b \in Asks : Prompt(b))
  BY <1>7, <1>2 DEF Next, vars, PatchChat, DeleteChat, ReadChat, MakeChatPublic
<1> QED
  BY <1>2, <1>3, <1>4, <1>5, <1>6, <1>7

(* No statement of the taps, in whatever order they run, takes back the    *)
(* counts of an answer or the prompt that they belong to.                  *)
THEOREM CountsStay == Spec => CountsKept
<1>1. Inv /\ [Next]_vars =>
        [\A a \in Asks : /\ meta[a].counts => meta'[a].counts
                         /\ meta[a].prompt => meta'[a].prompt]_vars
  BY MetaStep DEF Inv
<1> QED
  BY Always, <1>1, PTL DEF Spec, CountsKept

-----------------------------------------------------------------------------
(* What the client is shown of each prompt is an answer of AnswerStream.   *)

LEMMA ShownInit ==
  ASSUME Init, NEW a \in Asks
  PROVE  Shown(a)!Init
BY DEF Init, Shown!Init

LEMMA SameIsShown ==
  ASSUME NEW a \in Asks, client'[a] = client[a]
  PROVE  Shown(a)!Step
BY DEF Shown!Step

(* The last chunk ends the answer of a client that is still there. *)
LEMMA EndIsShown ==
  ASSUME TypeOK, NEW a \in Asks, NEW b \in Asks,
         NEW end \in {"complete", "error", "gone"}, Ends(b, end)
  PROVE  Shown(a)!Step
<1>1. CASE a # b
  BY <1>1, EndsEffect, SameIsShown
<1>2. CASE a = b /\ client[a].end = "open"
  BY <1>2, EndsEffect DEF Shown!Step, Shown!Next, Shown!Complete, Shown!Stop
<1>3. CASE a = b /\ client[a].end # "open"
  BY <1>3, EndsEffect DEF Shown!Step
<1> QED
  BY <1>1, <1>2, <1>3

LEMMA DeathIsShown ==
  ASSUME TypeOK, NEW a \in Asks, Die
  PROVE  Shown(a)!Step
<1>1. CASE UnderWay(a) /\ client[a].end = "open"
  BY <1>1, DieEffect DEF Shown!Step, Shown!Next, Shown!Stop
<1>2. CASE UnderWay(a) /\ client[a].end # "open"
  BY <1>2, DieEffect DEF Shown!Step
<1>3. CASE ~UnderWay(a)
  BY <1>3, DieEffect, SameIsShown
<1> QED
  BY <1>1, <1>2, <1>3

LEMMA PieceIsShown ==
  ASSUME Inv, NEW a \in Asks, NEW b \in Asks, StreamText(b)
  PROVE  Shown(a)!Step
<1>1. client \in [Asks -> Client] /\ client[b].end = "open"
  BY DEF Inv, TypeOK, AskInv, StreamText, Streaming, Unanswered
<1>2. client' = [client EXCEPT ![b].text = @ + 1]
  BY DEF StreamText
<1>3. CASE a # b
  BY <1>1, <1>2, <1>3, SameIsShown
<1>4. CASE a = b
  BY <1>1, <1>2, <1>4 DEF Client, Shown!Step, Shown!Next, Shown!Piece
<1> QED
  BY <1>3, <1>4

LEMMA StepIsShown ==
  ASSUME Inv, [Next]_vars, NEW a \in Asks
  PROVE  Shown(a)!Step
<1>1. TypeOK
  BY DEF Inv
<1>2. CASE UNCHANGED client
  BY <1>2, SameIsShown
<1>3. CASE Die
  BY <1>1, <1>3, DeathIsShown
<1>4. ASSUME NEW b \in Asks, StreamText(b)
      PROVE  Shown(a)!Step
  BY <1>4, PieceIsShown
<1>5. ASSUME NEW b \in Asks,
             AskFails(b) \/ Disconnect(b) \/ StreamComplete(b) \/ ImageFails(b)
      PROVE  Shown(a)!Step
  BY <1>1, <1>5, EndIsShown DEF AskFails, Disconnect, StreamComplete, ImageFails
<1>6. ASSUME NEW b \in Asks, SaveGeneratedImage(b) \/ InsertImageFile(b)
      PROVE  Shown(a)!Step
  BY <1>1, <1>2, <1>6, EndIsShown DEF SaveGeneratedImage, InsertImageFile, ShowImage
<1>7. ASSUME NEW b \in Asks,
             \/ Begin(b) \/ GetFiles(b) \/ FindLastPrompt(b) \/ OpenStream(b)
             \/ LeaveEarly(b) \/ StreamMeta(b) \/ InsertMeta(b) \/ InsertPrompt(b) \/ UpsertMeta(b)
             \/ SavePromptFile(b) \/ TapIsRejected(b)
             \/ ImageArrives(b) \/ InsertImagePrompt(b) \/ TitleArrives(b)
      PROVE  UNCHANGED client \/ Die
  BY <1>7 DEF Begin, GetFiles, FindLastPrompt, OpenStream, LeaveEarly, StreamMeta, InsertMeta,
    InsertPrompt, UpsertMeta, SavePromptFile, TapIsRejected, ImageArrives,
    InsertImagePrompt, TitleArrives
<1>8. ASSUME NEW b \in Asks, Prompt(b)
      PROVE  Shown(a)!Step
  BY <1>2, <1>3, <1>4, <1>5, <1>6, <1>7, <1>8 DEF Prompt
<1>9. CASE UNCHANGED vars \/ PatchChat \/ DeleteChat
           \/ \E e \in Edits : ReadChat(e) \/ MakeChatPublic(e)
  BY <1>2, <1>9 DEF vars, PatchChat, DeleteChat, ReadChat, MakeChatPublic
<1> QED
  BY <1>8, <1>9 DEF Next

(* Each client sees one answer: pieces of text, then one end, and nothing   *)
(* after it, whatever its taps do and however the process dies.             *)
THEOREM Refinement == Spec => ImplementsAnswers
<1>1. Init => \A a \in Asks : Shown(a)!Init
  BY ShownInit
<1>2. Inv /\ [Next]_vars => [\A a \in Asks : Shown(a)!Step]_vars
  BY StepIsShown
<1> QED
  BY Always, <1>1, <1>2, PTL DEF Spec, ImplementsAnswers

=============================================================================
