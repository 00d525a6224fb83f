--------------------------- MODULE ModelCatalogue ---------------------------
(***************************************************************************)
(* The models the seeds describe, the statuses they are open to and the    *)
(* request each provider makes of a prompt (src/database/seeds/models,     *)
(* src/model-provider).                                                    *)
(*                                                                         *)
(* A model stands for all models of its provider with the same features    *)
(* and status; names and descriptions are left out.  The kind of an        *)
(* attachment is what its content shows: "image", "document", or "plain"   *)
(* when the content has no signature.                                      *)
(***************************************************************************)
EXTENDS Naturals

Kinds == {"image", "document", "plain"}

(* USER_STATUS_LIST, from the lowest, and ModelGuard. *)
StatusList == <<"guest", "active", "verified", "base", "plus", "pro">>
Rank(status) == CHOOSE i \in DOMAIN StatusList : StatusList[i] = status
OpenTo(status, model) == Rank(status) >= Rank(model.status)

-----------------------------------------------------------------------------
(* The catalogue *)

Model(provider, status) ==
  [provider |-> provider, status |-> status, image |-> FALSE,
   thinking |-> "no", search |-> "no", vision |-> FALSE,
   api |-> "none", maxImages |-> 0, requiresImage |-> FALSE]

Text(provider, statuses) == {Model(provider, s) : s \in statuses}
Image(provider, statuses) ==
  {[m EXCEPT !.image = TRUE] : m \in Text(provider, statuses)}

OpenAIModels == Text("openai", {"guest", "active", "plus", "pro"}) \cup Image("openai", {"plus"})
GoogleModels == Text("google", {"guest", "active", "plus"}) \cup Image("google", {"plus"})
GrokModels == Text("grok", {"plus"}) \cup Image("grok", {"plus"})
DeepSeekModels == Text("deepseek", {"guest", "plus"})
ClaudeModels == Text("claude", {"active", "plus", "pro"})

Qwen(thinking, search, vision) ==
  [Model("alibaba", "plus") EXCEPT !.thinking = thinking, !.search = search,
                                   !.vision = vision]

(* Qwen from version 3.5 on, most of which search by the Responses API. *)
NumberedQwenModels ==
  {Qwen("optional", "responses", TRUE),
   [Qwen("optional", "responses", TRUE) EXCEPT !.status = "pro"],
   Qwen("optional", "responses", FALSE),
   Qwen("effort", "responses", TRUE),
   Qwen("optional", "no", FALSE), Qwen("always", "no", FALSE),
   Qwen("optional", "no", TRUE)}

(* The models for code, long texts, roles and pictures, and the older ones. *)
OtherQwenModels ==
  {Qwen("optional", "chat", FALSE),
   [Qwen("optional", "chat", FALSE) EXCEPT !.status = "guest"],
   [Qwen("no", "chat", FALSE) EXCEPT !.status = "pro"],
   Qwen("no", "chat", FALSE), Qwen("optional", "no", TRUE),
   Qwen("no", "no", FALSE), Qwen("no", "no", TRUE)}

(* The models of others that Alibaba serves. *)
HostedModels ==
  {Qwen("always", "no", FALSE), Qwen("always", "chat", FALSE),
   Qwen("optional", "no", FALSE), Qwen("optional", "no", TRUE),
   Qwen("optional", "chat", FALSE), Qwen("optional", "responses", FALSE)}

AlibabaImage(api, maxImages, requiresImage) ==
  [Model("alibaba", "plus") EXCEPT !.image = TRUE, !.api = api,
     !.maxImages = maxImages, !.requiresImage = requiresImage]

AlibabaImageModels ==
  {AlibabaImage("multimodal", n, FALSE) : n \in {0, 3, 10}}
    \cup {AlibabaImage("wan-image-async", n, FALSE) : n \in {4, 9}}
    \cup {AlibabaImage("wan-async", 0, FALSE),
          AlibabaImage("wan-edit-async", 3, TRUE),
          AlibabaImage("wan-legacy-edit", 1, TRUE)}

(* The seed takes Alibaba's catalogue as it is. *)
AlibabaModels ==
  NumberedQwenModels \cup OtherQwenModels \cup HostedModels \cup AlibabaImageModels

Models == OpenAIModels \cup GoogleModels \cup GrokModels \cup DeepSeekModels
          \cup ClaudeModels \cup AlibabaModels

TextModels == {m \in Models : ~m.image}

-----------------------------------------------------------------------------
(* Text requests *)

(* getFilesByIds fails on a content without a signature. *)
Unreadable(files) == \E f \in files : f.kind = "plain"
NotImages(files) == \E f \in files : f.kind # "image"

(* Changed form: the kind is checked for the history alone. *)
RefusesBlindModel(m, files) == files # {} /\ ~m.vision

AlibabaRefusesFiles(m, files) == files # {} /\ (~m.vision \/ NotImages(files))

(* Changed form: what the objects of the history hold now is not looked at. *)
TrustsHistory(m, past) == FALSE

(* The history of a vision chat is sent with its images, if they are images. *)
AlibabaRefusesHistory(m, past) == m.vision /\ NotImages(past)

AlibabaRefuses(m, ask, past) ==
  \/ ask.thinking /\ m.thinking = "no"
  \/ ask.search /\ m.search = "no"
  \/ AlibabaRefusesFiles(m, ask.files)
  \/ AlibabaRefusesHistory(m, past)

Refused(m, ask, past) ==
  \/ Unreadable(ask.files)
  \/ m.provider = "alibaba" /\ AlibabaRefuses(m, ask, past)

Given(b, on, off) == IF b THEN on ELSE off

(* What is no image goes as a document, or as a file. *)
ImagesApart(files) ==
  {[f EXCEPT !.kind = IF @ = "image" THEN "image" ELSE "document"] : f \in files}

(* OpenAI and Grok continue the conversation of the provider. *)
OpenAIRequest(ask) ==
  [files |-> ImagesApart(ask.files), past |-> {},
   thinking |-> Given(ask.thinking, "on", "default"),
   search |-> Given(ask.search, "on", "auto")]

GrokRequest(ask) ==
  [files |-> ImagesApart(ask.files), past |-> {},
   thinking |-> Given(ask.thinking, "on", "default"),
   search |-> Given(ask.search, "on", "auto")]

(* Images go as documents, too. *)
AllDocuments(files) == {[f EXCEPT !.kind = "document"] : f \in files}

(* Google is offered the search, whether it is asked for or not. *)
GoogleRequest(ask) ==
  [files |-> AllDocuments(ask.files), past |-> {},
   thinking |-> Given(ask.thinking, "on", "default"), search |-> "auto"]

(* DeepSeek gets the text alone. *)
DeepSeekRequest(ask) ==
  [files |-> {}, past |-> {},
   thinking |-> Given(ask.thinking, "on", "default"), search |-> "none"]

ClaudeRequest(ask) ==
  [files |-> ImagesApart(ask.files), past |-> {},
   thinking |-> Given(ask.thinking, "on", "default"),
   search |-> Given(ask.search, "on", "auto")]

AllImages(files) == {[f EXCEPT !.kind = "image"] : f \in files}

(* getMessages: the attachments of the history go to vision models alone. *)
AlibabaHistory(m, past) == IF m.vision THEN AllImages(past) ELSE {}

AlibabaChatRequest(m, ask, past) ==
  [files |-> AllImages(ask.files), past |-> AlibabaHistory(m, past),
   thinking |-> CASE m.thinking \in {"optional", "effort"} -> Given(ask.thinking, "on", "off")
                  [] m.thinking = "always" -> "on"
                  [] OTHER -> "none",
   search |-> IF m.search = "chat" THEN Given(ask.search, "on", "off") ELSE "none"]

AlibabaResponsesRequest(m, ask, past) ==
  [files |-> AllImages(ask.files), past |-> AlibabaHistory(m, past),
   thinking |-> Given(ask.thinking, "on", "off"), search |-> "on"]

UsesResponses(m, ask) == ask.search /\ m.search = "responses"

(* getProviderById *)
TextRequest(m, ask, past) ==
  CASE m.provider = "openai"   -> OpenAIRequest(ask)
    [] m.provider = "google"   -> GoogleRequest(ask)
    [] m.provider = "grok"     -> GrokRequest(ask)
    [] m.provider = "deepseek" -> DeepSeekRequest(ask)
    [] m.provider = "claude"   -> ClaudeRequest(ask)
    [] m.provider = "alibaba"  -> IF UsesResponses(m, ask)
                                    THEN AlibabaResponsesRequest(m, ask, past)
                                    ELSE AlibabaChatRequest(m, ask, past)

-----------------------------------------------------------------------------
(* Image requests: n images attached *)

TooMany(m, n) == n > m.maxImages

ImageRefused(m, n) ==
  m.provider = "alibaba" /\ (TooMany(m, n) \/ (m.requiresImage /\ n = 0))

(* The bodies of the Alibaba APIs. *)
AlibabaImagesSent(m, n) ==
  CASE m.api \in {"multimodal", "wan-image-async", "wan-edit-async"} -> n
    [] m.api = "wan-legacy-edit" -> IF n = 0 THEN 0 ELSE 1
    [] OTHER -> 0

(* The others are sent the text alone, whatever is attached. *)
OpenAIImagesSent(n) == 0
GoogleImagesSent(n) == 0
GrokImagesSent(n) == 0

(* generateImageResponse *)
ImagesSent(m, n) ==
  CASE m.provider = "openai"  -> OpenAIImagesSent(n)
    [] m.provider = "google"  -> GoogleImagesSent(n)
    [] m.provider = "grok"    -> GrokImagesSent(n)
    [] m.provider = "alibaba" -> AlibabaImagesSent(m, n)

-----------------------------------------------------------------------------
(* Properties of a question and of an image prompt *)

(* What a text request says of a question that is not refused.             *)
Faithful(m, ask, past, r) ==
  /\ m.provider \notin {"deepseek", "google"} => r.files = ask.files
  /\ m.provider = "google" => {f.id : f \in r.files} = {f.id : f \in ask.files}
  /\ ask.thinking => r.thinking = "on"
  /\ ask.search /\ m.provider \notin {"deepseek", "google"} => r.search = "on"
  /\ m.provider = "alibaba" =>
       /\ r.thinking = "on" => ask.thinking \/ m.thinking = "always"
       /\ r.search = "on" => ask.search
       /\ m.vision => r.past = past

MaxAttached == 11   \* bound: one more than any model takes

(* An image prompt that Alibaba accepts sends every image attached to it,  *)
(* whatever API its model uses and whatever that API's limit is.           *)
AttachedImagesAreSent ==
  \A m \in AlibabaImageModels, n \in 0 .. MaxAttached :
    ~ImageRefused(m, n) => ImagesSent(m, n) = n

=============================================================================
