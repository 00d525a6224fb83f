------------------------------ MODULE Catalogue ------------------------------
(***************************************************************************)
(* Chats over the seeded catalogue: a user whose status changes creates a  *)
(* chat with a model, uploads files and sends prompts with them.           *)
(* (src/chat, src/model, src/file-storage)                                 *)
(*                                                                         *)
(* The object of an upload is stored under the user and the file's name,   *)
(* so uploads of one name share an object; a prompt is sent with what the  *)
(* objects hold when it is sent.                                           *)
(***************************************************************************)
EXTENDS ModelCatalogue, DatabaseSeed, Sequences

CONSTANTS Files,   \* ids of files
          Keys,    \* names of files
          Statuses, \* that the user may have
          NoChat, NoKey

ChatModels == UNION {ModelSeed[p] : p \in Processes}

ASSUME CatalogueAssumption ==
  /\ ChatModels \subseteq TextModels
  /\ "guest" \in Statuses /\ Statuses \subseteq {StatusList[i] : i \in DOMAIN StatusList}
  /\ NoKey \notin Keys
  /\ NoChat \notin Models

VARIABLES chat,     \* the model of the chat
          status,   \* of the user
          key,      \* the bucket key of the rows of files
          object,   \* what the objects hold
          past      \* attachments of the chat's prompts as they were sent

chatVars == <<chat, status, key, object, past>>
vars == <<seedVars, chatVars>>

TypeOK ==
  /\ SeedTypeOK
  /\ chat \in ChatModels \cup {NoChat}
  /\ status \in Statuses
  /\ key \in [Files -> Keys \cup {NoKey}]
  /\ object \in [Keys -> Kinds \cup {"none"}]
  /\ past \subseteq [id : Files, kind : Kinds]

Init ==
  /\ SeedInit
  /\ chat = NoChat
  /\ status = "guest"
  /\ key = [f \in Files |-> NoKey]
  /\ object = [k \in Keys |-> "none"]
  /\ past = {}

Serving == \E p \in Processes : stage[p] = "serving"

(* The model is looked up by its id, and open to the user's status. *)
CreateChat(m) ==
  /\ chat = NoChat
  /\ m \in db.models
  /\ OpenTo(status, m)
  /\ chat' = m
  /\ UNCHANGED <<status, key, object, past>>

(* Tariffs and verification move the status; a chat keeps its model. *)
ChangeStatus(s) ==
  /\ status' = s
  /\ UNCHANGED <<chat, key, object, past>>

(* uploadFiles: the object is put, then the row saved, which may fail. *)
Upload(f, k, kind) ==
  /\ key[f] = NoKey
  /\ object' = [object EXCEPT ![k] = kind]
  /\ key' \in {key, [key EXCEPT ![f] = k]}
  /\ UNCHANGED <<chat, status, past>>

(* PromptGuard: the file has a row, which is the user's. *)
Owned(f) == key[f] # NoKey

(* getFilesByIds *)
Content(f) == [id |-> f, kind |-> object[key[f]]]
Attached == {x.id : x \in past}
Now(files) == {Content(f) : f \in files}

Question(files, thinking, search) ==
  [files |-> Now(files), thinking |-> thinking, search |-> search]

(* A prompt that is not refused is stored with its attachments, unless the *)
(* provider fails on the way; a refused one changes nothing.               *)
Prompt(files, thinking, search) ==
  /\ chat # NoChat
  /\ \A f \in files : Owned(f) /\ f \notin Attached
  /\ ~Refused(chat, Question(files, thinking, search), Now(Attached))
  /\ past' = past \cup Now(files)
  /\ UNCHANGED <<chat, status, key, object>>

ChatNext ==
  /\ Serving
  /\ \/ \E m \in ChatModels : CreateChat(m)
     \/ \E s \in Statuses : ChangeStatus(s)
     \/ \E f \in Files, k \in Keys, kind \in Kinds : Upload(f, k, kind)
     \/ \E files \in SUBSET Files, thinking, search \in BOOLEAN :
          Prompt(files, thinking, search)
  /\ UNCHANGED seedVars

Next == (SeedNext /\ UNCHANGED chatVars) \/ ChatNext

Spec == Init /\ [][Next]_vars

-----------------------------------------------------------------------------
(* Properties *)

CatalogueInv == TypeOK /\ OneIdPerProvider /\ NeverHalfSeeded /\ ServesItsModels

(* A plain prompt, with no attachment and no request, is refused only when *)
(* an attachment of an earlier prompt of the chat no longer holds what was *)
(* sent then: when another file of the same name has been uploaded since.  *)
OnlyReplacedFilesSpoilHistory ==
  chat # NoChat /\ Refused(chat, Question({}, FALSE, FALSE), Now(Attached)) =>
    \E x \in past : object[key[x.id]] # x.kind

(* A text prompt that is not refused reaches its model with everything it  *)
(* asks for, whatever model the chat has and whatever is uploaded: its     *)
(* attachments as what they are, the thinking, the search.  Alibaba's      *)
(* models think and search when asked and, but for those that always       *)
(* think, only then, and those that see get the attachments of earlier     *)
(* prompts too.  DeepSeek gets no attachment and no search; Google gets    *)
(* all attachments, images too, as documents, and decides by itself        *)
(* whether to search: that much is lost in silence.                        *)
AskedIsSent ==
  LET history == Now(Attached) IN
  \A files \in SUBSET {f \in Files : Owned(f)}, thinking, search \in BOOLEAN :
    LET ask == Question(files, thinking, search) IN
    \A m \in TextModels :
      Refused(m, ask, history) \/ Faithful(m, ask, history, TextRequest(m, ask, history))

=============================================================================
