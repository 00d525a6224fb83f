---------------------------- MODULE PromptStream ----------------------------
(***************************************************************************)
(* The prompts of one chat (PromptService.sendStreamPrompt, src/src/chat): *)
(* each asks the model of the chat and stores the answer from inside the   *)
(* stream that carries it to the client.  Several may be under way at once,*)
(* and meanwhile the chat is renamed, published and deleted.               *)
(*                                                                         *)
(* The stream of an answer is that of module AnswerStream.  The statements *)
(* that a `tap` makes are not awaited by anybody: when one of them is      *)
(* rejected, Node ends the process, and every prompt under way is lost.    *)
(***************************************************************************)
EXTENDS Naturals, Sequences, SequencesExt

CONSTANTS
  Asks,      \* prompts sent to the chat
  Edits,     \* slots of requests that publish the chat
  Attached,  \* the sets of asks to which a file, the same one, is attached
  MaxText,   \* bound: pieces of text of an answer
  MaxMetas   \* bound: meta chunks of an answer

ASSUME PromptAssumption ==
  /\ Attached \subseteq SUBSET Asks
  /\ MaxText \in Nat /\ MaxMetas \in Nat

VARIABLES
  model,    \* what the model of the chat is; a chat never changes it
  chat,     \* the row of the chat
  prompts,  \* the asks whose prompt rows the chat has, oldest first
  row,      \* row[a]: the prompt row of ask a
  images,   \* the asks whose images are in the bucket
  meta,     \* meta[a]: the row of prompt_meta with the response id of a's answer
  ask,      \* ask[a]: how far the handler of ask a has come
  job,      \* job[a]: the statements on which ask a works beside its stream
  client,   \* client[a]: what the client's subscription has been given of the answer
  edit      \* edit[e]: the row as the request in slot e has read it

vars == <<model, chat, prompts, row, images, meta, ask, job, client, edit>>

\* chained: the provider keeps the conversation and is given the last response id;
\* history: it is sent all prompts of the chat.
Models == {"chained", "history", "image"}

\* deleted (history): has the chat ever been deleted?  is_public is left out: nothing
\* here depends on it.
Titles == {"", "set"}
Chat == [live : BOOLEAN, title : Titles, deleted : BOOLEAN]

\* file: is the attached file linked to the prompt?
Row == [kind : {"none", "text", "image"}, size : Nat, file : BOOLEAN]
NoRow == [kind |-> "none", size |-> 0, file |-> FALSE]

Meta == [exists : BOOLEAN, counts : BOOLEAN, prompt : BOOLEAN]
NoMeta == [exists |-> FALSE, counts |-> FALSE, prompt |-> FALSE]

\* fresh: had the chat no title when the guard read it?  file: is a file attached?
\* left: has the client gone before there was a stream?  knows: the asks whose answers
\* the provider is told.  "lost": the process ended.
Ask == [at : {"new", "files", "find", "open", "stream", "closed", "lost"},
        fresh : BOOLEAN, file : BOOLEAN, left : BOOLEAN, knows : SUBSET Asks]

\* metas: meta chunks so far; insert: those still to be inserted.
Job == [title : {"no", "wanted"}, metas : Nat, insert : Nat,
        save : {"no", "insert", "upsert", "object", "file", "done"}]
NoJob == [title |-> "no", metas |-> 0, insert |-> 0, save |-> "no"]

Client == [text : Nat, size : Nat, end : {"open", "complete", "error", "gone"}]

Init ==
  /\ model \in Models
  /\ chat = [live |-> TRUE, title |-> "", deleted |-> FALSE]
  /\ prompts = <<>>
  /\ row = [a \in Asks |-> NoRow] /\ images = {}
  /\ meta = [a \in Asks |-> NoMeta]
  /\ \E files \in Attached :
       ask = [a \in Asks |-> [at |-> "new", fresh |-> FALSE, file |-> a \in files,
                              left |-> FALSE, knows |-> {}]]
  /\ job = [a \in Asks |-> NoJob]
  /\ client = [a \in Asks |-> [text |-> 0, size |-> 0, end |-> "open"]]
  /\ edit = [e \in Edits |-> "none"]

-----------------------------------------------------------------------------
Goto(a, stage) == ask' = [ask EXCEPT ![a].at = stage]

\* Mutant of Ends: a client that has left is told the end as well.
EndsAnyway(a, end) ==
  client' = [client EXCEPT ![a].end = end,
                           ![a].size = IF end = "complete" THEN client[a].text ELSE @]

\* What the client sees last, unless it has left.
Ends(a, end) ==
  client' = [client EXCEPT ![a].end = IF @ = "open" THEN end ELSE @,
                           ![a].size = IF client[a].end = "open" /\ end = "complete"
                                       THEN client[a].text ELSE @]

Saving(a, step) == job' = [job EXCEPT ![a].save = step]

\* Is the attached file already linked to another prompt?  It can be to one only.
FileTaken == \E a \in Asks : row[a].file

\* The process ends: of every prompt under way nothing more is stored.
UnderWay(a) == ask[a].at \notin {"new", "closed"} \/ job[a].save \notin {"no", "done"}
                 \/ job[a].insert > 0
Die ==
  /\ ask' = [a \in Asks |-> IF UnderWay(a) THEN [ask[a] EXCEPT !.at = "lost"] ELSE ask[a]]
  /\ job' = [a \in Asks |-> [job[a] EXCEPT !.title = "no", !.insert = 0,
               !.save = IF UnderWay(a) THEN "no" ELSE @]]
  /\ client' = [a \in Asks |->
       IF UnderWay(a) /\ client[a].end = "open"
       THEN [client[a] EXCEPT !.end = "error"] ELSE client[a]]
  /\ edit' = [e \in Edits |-> "none"]
  /\ UNCHANGED <<model, chat, prompts, row, images, meta>>

-----------------------------------------------------------------------------
(* sendStreamPrompt, up to the stream.                                     *)

\* ChatGuard has read the chat; PromptGuard has nothing that changes.
Begin(a) ==
  /\ ask[a].at = "new" /\ chat.live
  /\ ask' = [ask EXCEPT ![a].at = "files", ![a].fresh = chat.title = ""]
  /\ UNCHANGED <<model, chat, prompts, row, images, meta, job, client, edit>>

AfterFiles == CASE model = "chained" -> "find" [] OTHER -> "open"

GetFiles(a) ==
  /\ ask[a].at = "files"
  /\ ask' = [ask EXCEPT ![a].at = AfterFiles, ![a].fresh = FALSE]
  /\ job' = [job EXCEPT ![a].title = IF ask[a].fresh THEN "wanted" ELSE "no"]
  /\ UNCHANGED <<model, chat, prompts, row, images, meta, client, edit>>

\* The last prompt of the chat; what it was told the provider has kept.
FindLastPrompt(a) ==
  /\ ask[a].at = "find"
  /\ ask' = [ask EXCEPT ![a].at = "open",
       ![a].knows = IF prompts = <<>> THEN {}
                    ELSE {Last(prompts)} \cup ask[Last(prompts)].knows]
  /\ UNCHANGED <<model, chat, prompts, row, images, meta, job, client, edit>>

\* getPreviousMessages: every prompt of the chat, and its answer.
PreviousMessages == ToSet(prompts)

\* The provider accepts the request.
OpenStream(a) ==
  /\ ask[a].at = "open"
  /\ ask' = [ask EXCEPT ![a].at = "stream",
       ![a].knows = IF model = "history" THEN PreviousMessages ELSE @]
  /\ UNCHANGED <<model, chat, prompts, row, images, meta, job, client, edit>>

\* Mutant of AskFails: a part of an answer is stored as well.
AskFailsStoring(a) ==
  /\ ask[a].at \in {"files", "find", "open", "stream"}
  /\ Goto(a, "closed")
  /\ Ends(a, "error")
  /\ IF ask[a].at = "stream" THEN Saving(a, "insert") ELSE UNCHANGED job
  /\ UNCHANGED <<model, chat, prompts, row, images, meta, edit>>

\* Files, the last prompt or the provider fail: the request is answered with an
\* error.  A stream, or an image, ends with one.
AskFails(a) ==
  /\ ask[a].at \in {"files", "find", "open", "stream"}
  /\ Goto(a, "closed")
  /\ Ends(a, "error")
  /\ UNCHANGED <<model, chat, prompts, row, images, meta, job, edit>>

\* The client leaves before the handler has returned its stream.  Nobody listens for
\* that: the answer is subscribed to, and stored, all the same.
LeaveEarly(a) ==
  /\ ask[a].at \in {"files", "find", "open"}
  /\ ask' = [ask EXCEPT ![a].left = TRUE]
  /\ UNCHANGED <<model, chat, prompts, row, images, meta, job, client, edit>>

\* The client closes the stream, which unsubscribes from it.  The image that has
\* arrived is still stored.
Disconnect(a) ==
  /\ client[a].end = "open" /\ ~ask[a].left
  /\ ask[a].at = "stream" \/ job[a].save \notin {"no", "done"}
  /\ Goto(a, "closed")
  /\ Ends(a, "gone")
  /\ UNCHANGED <<model, chat, prompts, row, images, meta, job, edit>>

-----------------------------------------------------------------------------
(* The chunks of a text, and the statements that they set off.             *)

Streaming(a) == model # "image" /\ ask[a].at = "stream"

StreamText(a) ==
  /\ Streaming(a)
  /\ client[a].text < MaxText
  /\ client' = [client EXCEPT ![a].text = @ + 1]
  /\ UNCHANGED <<model, chat, prompts, row, images, meta, ask, job, edit>>

StreamMeta(a) ==
  /\ Streaming(a)
  /\ job[a].metas < MaxMetas
  /\ job' = [job EXCEPT ![a].metas = @ + 1, ![a].insert = @ + 1]
  /\ UNCHANGED <<model, chat, prompts, row, images, meta, ask, client, edit>>

\* Mutant of StreamComplete: the second tap does not see the chunk.
StreamCompleteUnsaved(a) ==
  /\ Streaming(a)
  /\ Goto(a, "closed")
  /\ Ends(a, "complete")
  /\ UNCHANGED <<model, chat, prompts, row, images, meta, job, edit>>

StreamComplete(a) ==
  /\ Streaming(a)
  /\ Goto(a, "closed")
  /\ Ends(a, "complete")
  /\ Saving(a, "insert")
  /\ UNCHANGED <<model, chat, prompts, row, images, meta, edit>>

\* The response id is unique.
InsertMeta(a) ==
  /\ job[a].insert > 0
  /\ IF meta[a].exists THEN Die
     ELSE /\ meta' = [meta EXCEPT ![a] = [@ EXCEPT !.exists = TRUE, !.counts = TRUE]]
          /\ job' = [job EXCEPT ![a].insert = @ - 1]
          /\ UNCHANGED <<model, chat, prompts, row, images, ask, client, edit>>

\* A prompt of a chat that is deleted cannot be stored.
InsertPrompt(a) ==
  /\ model # "image" /\ job[a].save = "insert"
  /\ IF ~chat.live THEN Die
     ELSE /\ row' = [row EXCEPT ![a] = [NoRow EXCEPT !.kind = "text", !.size = client[a].size]]
          /\ prompts' = Append(prompts, a)
          /\ Saving(a, "upsert")
          /\ UNCHANGED <<model, chat, images, meta, ask, client, edit>>

\* Mutant of LinkMeta: the whole row is replaced.
ReplaceMeta(a) == [exists |-> TRUE, counts |-> FALSE, prompt |-> TRUE]

\* On a conflict only prompt_id is set; a new row has the default counts.
LinkMeta(a) == [meta[a] EXCEPT !.exists = TRUE, !.prompt = TRUE]

UpsertMeta(a) ==
  /\ job[a].save = "upsert"
  /\ meta' = [meta EXCEPT ![a] = LinkMeta(a)]
  /\ Saving(a, IF ask[a].file THEN "file" ELSE "done")
  /\ UNCHANGED <<model, chat, prompts, row, images, ask, client, edit>>

SavePromptFile(a) ==
  /\ model # "image" /\ job[a].save = "file"
  /\ IF FileTaken \/ row[a].kind = "none" THEN Die
     ELSE /\ row' = [row EXCEPT ![a].file = TRUE]
          /\ Saving(a, "done")
          /\ UNCHANGED <<model, chat, prompts, images, meta, ask, client, edit>>

\* Any of these statements may be rejected for another reason.
TapIsRejected(a) ==
  /\ job[a].insert > 0 \/ (model # "image" /\ job[a].save \notin {"no", "done"})
  /\ Die

-----------------------------------------------------------------------------
(* sendImagePrompt, from the image on: all of it inside the stream.        *)

ImageArrives(a) ==
  /\ model = "image" /\ ask[a].at = "stream"
  /\ Goto(a, "closed")
  /\ Saving(a, "insert")
  /\ UNCHANGED <<model, chat, prompts, row, images, meta, client, edit>>

InsertImagePrompt(a) ==
  /\ model = "image" /\ job[a].save = "insert" /\ chat.live
  /\ row' = [row EXCEPT ![a].kind = "image"]
  /\ prompts' = Append(prompts, a)
  /\ Saving(a, "object")
  /\ UNCHANGED <<model, chat, images, meta, ask, client, edit>>

\* The last step lets the chunk pass.
ShowImage(a) == Saving(a, "done") /\ Ends(a, "complete")

\* Mutant of StoreObject: an error of S3 is only logged.
TryStoreObject(a) == images' \in {images, images \cup {a}}

StoreObject(a) == images' = images \cup {a}

SaveGeneratedImage(a) ==
  /\ job[a].save = "object"
  /\ StoreObject(a)
  /\ IF ask[a].file THEN Saving(a, "file") /\ UNCHANGED client ELSE ShowImage(a)
  /\ UNCHANGED <<model, chat, prompts, row, meta, ask, edit>>

InsertImageFile(a) ==
  /\ model = "image" /\ job[a].save = "file"
  /\ ~FileTaken /\ row[a].kind # "none"
  /\ row' = [row EXCEPT ![a].file = TRUE]
  /\ ShowImage(a)
  /\ UNCHANGED <<model, chat, prompts, images, meta, ask, edit>>

\* A constraint is violated, or a statement or S3 fails; what was stored stays.
ImageFails(a) ==
  /\ model = "image" /\ job[a].save \notin {"no", "done"}
  /\ Saving(a, "no")
  /\ Ends(a, "error")
  /\ UNCHANGED <<model, chat, prompts, row, images, meta, ask, edit>>

-----------------------------------------------------------------------------
(* The row of the chat.                                                    *)

GiveTitle == [chat EXCEPT !.title = "set"]

\* createChatTitle; an error is swallowed.
TitleArrives(a) ==
  /\ job[a].title = "wanted"
  /\ job' = [job EXCEPT ![a].title = "no"]
  /\ chat' \in {chat} \cup (IF chat.live THEN {GiveTitle} ELSE {})
  /\ UNCHANGED <<model, prompts, row, images, meta, ask, client, edit>>

PatchChat ==
  /\ chat.live
  /\ chat' = [chat EXCEPT !.title = "set"]
  /\ UNCHANGED <<model, prompts, row, images, meta, ask, job, client, edit>>

\* makeChatPublic: the row that the guard has read is saved as a whole, which
\* inserts it again if it has been deleted meanwhile.
ReadChat(e) ==
  /\ edit[e] = "none" /\ chat.live
  /\ edit' = [edit EXCEPT ![e] = chat.title]
  /\ UNCHANGED <<model, chat, prompts, row, images, meta, ask, job, client>>

MakeChatPublic(e) ==
  /\ edit[e] # "none"
  /\ chat' = [chat EXCEPT !.live = TRUE, !.title = edit[e]]
  /\ edit' = [edit EXCEPT ![e] = "none"]
  /\ UNCHANGED <<model, prompts, row, images, meta, ask, job, client>>

\* The prompts go with their chat; what no foreign key ties to it stays.
DeleteChat ==
  /\ chat.live
  /\ chat' = [chat EXCEPT !.live = FALSE, !.deleted = TRUE]
  /\ prompts' = <<>>
  /\ row' = [a \in Asks |-> NoRow]
  /\ UNCHANGED <<model, images, meta, ask, job, client, edit>>

-----------------------------------------------------------------------------
Prompt(a) ==
  \/ Begin(a) \/ GetFiles(a) \/ FindLastPrompt(a) \/ OpenStream(a)
  \/ AskFails(a) \/ LeaveEarly(a) \/ Disconnect(a)
  \/ StreamText(a) \/ StreamMeta(a) \/ StreamComplete(a)
  \/ InsertMeta(a) \/ InsertPrompt(a) \/ UpsertMeta(a) \/ SavePromptFile(a)
  \/ TapIsRejected(a)
  \/ ImageArrives(a) \/ InsertImagePrompt(a) \/ SaveGeneratedImage(a)
  \/ InsertImageFile(a) \/ ImageFails(a) \/ TitleArrives(a)

Next ==
  \/ \E a \in Asks : Prompt(a)
  \/ PatchChat \/ DeleteChat
  \/ \E e \in Edits : ReadChat(e) \/ MakeChatPublic(e)

Spec == Init /\ [][Next]_vars

-----------------------------------------------------------------------------
(* Properties.                                                             *)

TypeOK ==
  /\ model \in Models
  /\ chat \in Chat
  /\ prompts \in Seq(Asks)
  /\ row \in [Asks -> Row] /\ images \subseteq Asks
  /\ meta \in [Asks -> Meta]
  /\ ask \in [Asks -> Ask] /\ job \in [Asks -> Job] /\ client \in [Asks -> Client]
  /\ edit \in [Edits -> Titles \cup {"none"}]

\* A text that the client has been given to its end is stored, or is being stored, unless
\* the process has ended or the chat has been deleted; nobody else waits for it.
AnswerIsNotForgotten ==
  \A a \in Asks :
    (model # "image" /\ client[a].end = "complete" /\ ask[a].at # "lost")
      => \/ job[a].save = "insert" \/ chat.deleted
         \/ row[a].kind = "text" /\ job[a].save # "no"

\* Nothing is saved of an answer that is still to come, and of a text only when the
\* client has seen it to its end, as one whole (the order of the taps).
Unanswered == {"new", "files", "find", "open", "stream"}

SavesInTurn ==
  \A a \in Asks :
    /\ ask[a].at \in Unanswered => client[a].end = "open"
    /\ ask[a].at \in Unanswered \cup {"lost"} => job[a].save = "no"
    /\ job[a].save = "upsert" => model # "image"
    /\ job[a].save = "object" => model = "image"
    /\ job[a].save # "no" /\ model # "image" => client[a].end = "complete"
    /\ client[a].end = "complete" => client[a].size = client[a].text

\* The prompts of the chat are rows of its kind.
ListedAreStored ==
  /\ \A a \in ToSet(prompts) : row[a].kind # "none"
  /\ \A a \in Asks : row[a].kind # "none" => (row[a].kind = "image" <=> model = "image")

\* The steps of the taps leave their marks in the tables, whichever comes first.
CountsInTurn ==
  \A a \in Asks :
    /\ job[a].save \in {"file", "done"} /\ model # "image" => meta[a].prompt
    /\ job[a].metas > 0 /\ job[a].insert = 0 /\ ask[a].at # "lost" => meta[a].counts

ImagesInTurn ==
  model = "image" => \A a \in Asks :
    /\ job[a].save \in {"file", "done"} => a \in images
    /\ job[a].save \in {"object", "file", "done"} =>
         row[a].kind = "image" \/ chat.deleted

PromptInv ==
  /\ TypeOK /\ AnswerIsNotForgotten
  /\ SavesInTurn /\ ListedAreStored /\ CountsInTurn /\ ImagesInTurn

\* A text that is stored is the whole text that its client was shown to the end,
\* and what a provider is told are such answers only (the tap on `complete`).
StoredIsWhole ==
  /\ \A a \in Asks : row[a].kind = "text" =>
       client[a].end = "complete" /\ row[a].size = client[a].text
  /\ \A a, b \in Asks : b \in ask[a].knows /\ model # "image" =>
       client[b].end = "complete"

\* An image that the client is shown is in the bucket, and its prompt in the table
\* (README.md, "persisted in the configured S3 bucket before a successful
\* completion is returned").
ShownImageIsStored ==
  model = "image" =>
    \A a \in Asks : client[a].end = "complete" =>
      a \in images /\ (row[a].kind = "image" \/ chat.deleted)

\* The two taps work on one row of counts in either order: when both have ended, and
\* the process with them has not, the counts are there and belong to the prompt.
SavedIsCounted ==
  \A a \in Asks :
    (ask[a].at = "closed" /\ job[a].save = "done" /\ model # "image") =>
      /\ meta[a].prompt
      /\ job[a].metas > 0 /\ job[a].insert = 0 => meta[a].counts

\* What the client is shown of each prompt, whatever its taps do meanwhile and whoever
\* leaves, is an answer as module AnswerStream promises it.
Shown(a) == INSTANCE AnswerStream WITH
  text <- client[a].text, size <- client[a].size, end <- client[a].end

ImplementsAnswers ==
  /\ \A a \in Asks : Shown(a)!Init
  /\ [][\A a \in Asks : Shown(a)!Step]_vars

\* Counts that are stored are never lost, and neither is their prompt (the upsert
\* names response_id only).
CountsKept ==
  [][\A a \in Asks : /\ meta[a].counts => meta'[a].counts
                     /\ meta[a].prompt => meta'[a].prompt]_vars

=============================================================================
