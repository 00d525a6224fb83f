--------------------------- MODULE CatalogueProofs ---------------------------
(* Theorems about module Catalogue: any number of processes, of releases   *)
(* with any seeds, that start, die and start again over the same tables.   *)
EXTENDS Catalogue, TLAPS

(* The processes take turns: one transaction at a time. *)
Alone ==
  \A p, q \in Processes : InTransaction(p) /\ InTransaction(q) => p = q

(* A copy is what the tables hold, but for what its own process wrote. *)
CopyIsCurrent ==
  \A p \in Processes :
    /\ stage[p] \in {"locked", "checked"} => tx[p] = db
    /\ stage[p] = "checked" => ~Conflicts(p)
    /\ stage[p] = "providers" =>
         /\ OneId(tx[p].providers)
         /\ tx[p].providers = Upserted(db.providers, ProviderSeed[p])
         /\ db.models \subseteq tx[p].models
         /\ tx[p].models \subseteq db.models \cup ModelSeed[p]

SeedInv ==
  SeedTypeOK /\ OneIdPerProvider /\ NeverHalfSeeded /\ ServesItsModels
    /\ Alone /\ CopyIsCurrent

(* A row of a file is saved after its object, and attached after that. *)
KeysAreStored ==
  /\ \A f \in Files : key[f] # NoKey => object[key[f]] # "none"
  /\ \A x \in past : key[x.id] # NoKey

Inv == TypeOK /\ SeedInv /\ KeysAreStored

-----------------------------------------------------------------------------
(* Tables are whole rows of the right kinds. *)
LEMMA UpsertedEffect ==
  ASSUME NEW rows \in SUBSET (ProviderIds \X ProviderNames),
         NEW seed \in SUBSET (ProviderIds \X ProviderNames),
         OneId(rows), OneId(seed),
         ~ \E new \in seed, old \in rows : old[2] = new[2] /\ old[1] # new[1]
  PROVE  /\ Upserted(rows, seed) \in SUBSET (ProviderIds \X ProviderNames)
         /\ OneId(Upserted(rows, seed))
<1>1. Upserted(rows, seed) \in SUBSET (ProviderIds \X ProviderNames)
  BY DEF Upserted
<1>2. ASSUME NEW a \in Upserted(rows, seed), NEW b \in Upserted(rows, seed), a[2] = b[2]
      PROVE  a[1] = b[1]
  <2>1. (a \in rows \/ a \in seed) /\ (b \in rows \/ b \in seed)
    BY DEF Upserted
  <2> QED
    BY <1>2, <2>1 DEF OneId
<1> QED
  BY <1>1, <1>2 DEF OneId

LEMMA SeedInitInv == SeedInit => SeedInv
<1> SUFFICES ASSUME SeedInit PROVE SeedInv
  OBVIOUS
<1>1. PICK old \in OldProviders : db = [providers |-> old, models |-> {}]
  BY DEF SeedInit
<1>2. db \in Tables /\ OneId(db.providers)
  BY <1>1, SeedAssumption DEF Tables
<1>3. tx = [p \in Processes |-> db] /\ stage = [p \in Processes |-> "down"]
      /\ failures = 0 /\ seeded = {}
  BY DEF SeedInit
<1>4. failures \in 0 .. MaxFailures
  BY <1>3, SeedAssumption
<1>5. stage \in [Processes -> Stages] /\ \A p \in Processes : stage[p] = "down"
  BY <1>3 DEF Stages
<1>6. tx \in [Processes -> Tables] /\ seeded \subseteq Processes
  BY <1>2, <1>3
<1>7. SeedTypeOK
  BY <1>2, <1>4, <1>5, <1>6 DEF SeedTypeOK
<1>8. Alone /\ CopyIsCurrent /\ ServesItsModels
  BY <1>5 DEF Alone, CopyIsCurrent, ServesItsModels, InTransaction
<1>9. NeverHalfSeeded
  BY <1>1, <1>3 DEF NeverHalfSeeded
<1> QED
  BY <1>2, <1>7, <1>8, <1>9 DEF SeedInv, OneIdPerProvider

-----------------------------------------------------------------------------
(* One statement of one process. *)

LEMMA LockTablesStep ==
  ASSUME SeedInv, NEW p \in Processes, LockTables(p)
  PROVE  SeedInv'
<1> USE DEF SeedInv, SeedTypeOK
<1>1. /\ tx' = [tx EXCEPT ![p] = db] /\ stage' = [stage EXCEPT ![p] = "locked"]
      /\ UNCHANGED <<db, failures, seeded>>
  BY DEF LockTables
<1>2. \A q \in Processes : InTransaction(q)' => q = p
  BY <1>1 DEF LockTables, Locked, InTransaction, Stages
<1>3. SeedTypeOK'
  BY <1>1 DEF Stages
<1>4. ServesItsModels' /\ OneIdPerProvider' /\ NeverHalfSeeded'
  BY <1>1 DEF ServesItsModels, OneIdPerProvider, NeverHalfSeeded
<1>5. CopyIsCurrent'
  BY <1>1, <1>2 DEF CopyIsCurrent, InTransaction
<1> QED
  BY <1>2, <1>3, <1>4, <1>5 DEF Alone

LEMMA CheckProvidersStep ==
  ASSUME SeedInv, NEW p \in Processes, CheckProviders(p)
  PROVE  SeedInv'
<1> USE DEF SeedInv, SeedTypeOK
<1>1. /\ stage' = [stage EXCEPT ![p] = "checked"] /\ UNCHANGED <<db, tx, failures, seeded>>
      /\ stage[p] = "locked" /\ ~Conflicts(p)
  BY DEF CheckProviders
<1>2. \A q \in Processes : InTransaction(q)' => InTransaction(q)
  BY <1>1 DEF InTransaction
<1>3. SeedTypeOK'
  BY <1>1 DEF Stages
<1>4. ServesItsModels' /\ OneIdPerProvider' /\ NeverHalfSeeded'
  BY <1>1 DEF ServesItsModels, OneIdPerProvider, NeverHalfSeeded
<1>5. CopyIsCurrent'
  BY <1>1 DEF CopyIsCurrent, Conflicts
<1> QED
  BY <1>2, <1>3, <1>4, <1>5 DEF Alone

LEMMA RefuseProvidersStep ==
  ASSUME SeedInv, NEW p \in Processes, RefuseProviders(p) \/ Restart(p)
  PROVE  SeedInv'
<1> USE DEF SeedInv, SeedTypeOK
<1>1. /\ stage' = [stage EXCEPT ![p] = stage'[p]] /\ stage'[p] \in {"refused", "down"}
      /\ UNCHANGED <<db, tx, seeded>> /\ failures' \in 0 .. MaxFailures
  BY SeedAssumption DEF RefuseProviders, Restart
<1>2. \A q \in Processes : InTransaction(q)' => InTransaction(q)
  BY <1>1 DEF InTransaction
<1>3. SeedTypeOK'
  BY <1>1 DEF Stages
<1>4. ServesItsModels' /\ OneIdPerProvider' /\ NeverHalfSeeded'
  BY <1>1 DEF ServesItsModels, OneIdPerProvider, NeverHalfSeeded
<1>5. CopyIsCurrent'
  BY <1>1 DEF CopyIsCurrent, Conflicts
<1> QED
  BY <1>2, <1>3, <1>4, <1>5 DEF Alone

LEMMA WriteProvidersStep ==
  ASSUME SeedInv, NEW p \in Processes, WriteProviders(p)
  PROVE  SeedInv'
<1> USE DEF SeedInv, SeedTypeOK
<1> DEFINE rows == Upserted(tx[p].providers, ProviderSeed[p])
<1>1. /\ tx' = [tx EXCEPT ![p].providers = rows]
      /\ stage' = [stage EXCEPT ![p] = "providers"]
      /\ UNCHANGED <<db, failures, seeded>> /\ stage[p] = "checked"
  BY DEF WriteProviders
<1>2. tx[p] = db /\ tx[p] \in Tables /\ ~Conflicts(p)
  BY <1>1 DEF CopyIsCurrent
<1>3. rows \in SUBSET (ProviderIds \X ProviderNames) /\ OneId(rows)
  BY <1>2, UpsertedEffect, SeedAssumption DEF Conflicts, OneIdPerProvider, Tables
<1> HIDE DEF rows
<1>4. /\ tx'[p] \in Tables /\ tx'[p].providers = rows /\ tx'[p].models = db.models
      /\ \A q \in Processes \ {p} : tx'[q] = tx[q]
  BY <1>1, <1>2, <1>3 DEF Tables
<1>5. \A q \in Processes : InTransaction(q)' => InTransaction(q)
  BY <1>1 DEF InTransaction
<1>6. SeedTypeOK'
  BY <1>1, <1>4 DEF Stages
<1>7. ServesItsModels' /\ OneIdPerProvider' /\ NeverHalfSeeded'
  BY <1>1 DEF ServesItsModels, OneIdPerProvider, NeverHalfSeeded
<1>8. CopyIsCurrent'
  BY <1>1, <1>2, <1>3, <1>4 DEF CopyIsCurrent, Conflicts, rows
<1> QED
  BY <1>5, <1>6, <1>7, <1>8 DEF Alone

LEMMA WriteModelStep ==
  ASSUME SeedInv, NEW p \in Processes, WriteModel(p)
  PROVE  SeedInv'
<1> USE DEF SeedInv, SeedTypeOK
<1>1. PICK m \in ModelSeed[p] \ tx[p].models :
        tx' = [tx EXCEPT ![p].models = @ \cup {m}]
  BY DEF WriteModel
<1>2. stage[p] = "providers" /\ UNCHANGED <<db, stage, failures, seeded>>
  BY DEF WriteModel
<1>3. /\ tx'[p] \in Tables /\ tx'[p].providers = tx[p].providers
      /\ tx'[p].models = tx[p].models \cup {m}
      /\ \A q \in Processes \ {p} : tx'[q] = tx[q]
  BY <1>1, <1>2 DEF Tables
<1>4. SeedTypeOK'
  BY <1>1, <1>2, <1>3
<1>5. ServesItsModels' /\ OneIdPerProvider' /\ NeverHalfSeeded' /\ Alone'
  BY <1>2 DEF ServesItsModels, OneIdPerProvider, NeverHalfSeeded, Alone, InTransaction
<1>6. CopyIsCurrent'
  BY <1>2, <1>3 DEF CopyIsCurrent, Conflicts
<1> QED
  BY <1>4, <1>5, <1>6

(* The lock has kept every other transaction out, so that the copy which    *)
(* takes the place of the tables has all that was in them.                  *)
LEMMA CommitStep ==
  ASSUME SeedInv, NEW p \in Processes, Commit(p)
  PROVE  SeedInv'
<1> USE DEF SeedInv, SeedTypeOK
<1>1. /\ db' = tx[p] /\ seeded' = seeded \cup {p}
      /\ stage' = [stage EXCEPT ![p] = "serving"] /\ UNCHANGED <<tx, failures>>
      /\ stage[p] = "providers" /\ ModelSeed[p] \subseteq tx[p].models
  BY DEF Commit
<1>2. \A q \in Processes : ~InTransaction(q)'
  BY <1>1 DEF Alone, InTransaction
<1>3. /\ OneId(tx[p].providers) /\ db.models \subseteq tx[p].models
      /\ tx[p].models \subseteq db.models \cup ModelSeed[p]
      /\ tx[p].providers = Upserted(db.providers, ProviderSeed[p])
  BY <1>1 DEF CopyIsCurrent
<1>4. SeedTypeOK'
  BY <1>1 DEF Stages
<1>5. OneIdPerProvider' /\ NeverHalfSeeded'
  <2>1. db'.models = db.models \cup ModelSeed[p]
    BY <1>1, <1>3
  <2>2. /\ ProviderSeed[p] \subseteq db'.providers
        /\ db'.providers \subseteq db.providers \cup ProviderSeed[p]
    BY <1>1, <1>3 DEF Upserted
  <2>3. NeverHalfSeeded'
    BY <1>1, <2>1, <2>2 DEF NeverHalfSeeded
  <2> QED
    BY <1>1, <1>3, <2>3 DEF OneIdPerProvider
<1>6. ServesItsModels'
  BY <1>1, <1>3 DEF ServesItsModels
<1>7. CopyIsCurrent' /\ Alone'
  BY <1>2 DEF CopyIsCurrent, Alone, InTransaction
<1> QED
  BY <1>4, <1>5, <1>6, <1>7

LEMMA SeedStep == SeedInv /\ SeedNext => SeedInv'
BY LockTablesStep, CheckProvidersStep, RefuseProvidersStep, WriteProvidersStep,
   WriteModelStep, CommitStep DEF SeedNext

LEMMA SeedStutter == SeedInv /\ UNCHANGED seedVars => SeedInv'
BY DEF SeedInv, seedVars, SeedTypeOK, OneIdPerProvider, NeverHalfSeeded, ServesItsModels,
   Alone, CopyIsCurrent, InTransaction, Conflicts

-----------------------------------------------------------------------------
(* Chats, files and prompts. *)
ChatTypeOK ==
  /\ chat \in ChatModels \cup {NoChat}
  /\ status \in Statuses
  /\ key \in [Files -> Keys \cup {NoKey}]
  /\ object \in [Keys -> Kinds \cup {"none"}]
  /\ past \subseteq [id : Files, kind : Kinds]

LEMMA ChatStep ==
  ASSUME ChatTypeOK, KeysAreStored, ChatNext
  PROVE  ChatTypeOK' /\ KeysAreStored'
<1> USE DEF ChatTypeOK, KeysAreStored
<1>1. ASSUME NEW m \in ChatModels, CreateChat(m) PROVE ChatTypeOK' /\ KeysAreStored'
  BY <1>1 DEF CreateChat
<1>2. ASSUME NEW s \in Statuses, ChangeStatus(s) PROVE ChatTypeOK' /\ KeysAreStored'
  BY <1>2 DEF ChangeStatus
<1>3. ASSUME NEW f \in Files, NEW k \in Keys, NEW kind \in Kinds, Upload(f, k, kind)
      PROVE  ChatTypeOK' /\ KeysAreStored'
  <2>1. /\ object' = [object EXCEPT ![k] = kind] /\ kind # "none"
        /\ key' = key \/ key' = [key EXCEPT ![f] = k]
        /\ UNCHANGED <<chat, status, past>>
    BY <1>3 DEF Upload, Kinds
  <2>2. ChatTypeOK'
    BY <2>1
  <2>3. ASSUME NEW g \in Files, key'[g] # NoKey PROVE object'[key'[g]] # "none"
    <3>1. key'[g] \in Keys /\ (key'[g] = key[g] \/ key'[g] = k)
      BY <2>1, <2>2, <2>3
    <3> QED
      BY <2>1, <2>3, <3>1
  <2>4. \A x \in past' : key'[x.id] # NoKey
    BY <2>1, CatalogueAssumption
  <2> QED
    BY <2>2, <2>3, <2>4
<1>4. ASSUME NEW files \in SUBSET Files, NEW thinking \in BOOLEAN, NEW search \in BOOLEAN,
             Prompt(files, thinking, search)
      PROVE  ChatTypeOK' /\ KeysAreStored'
  <2>1. \A f \in files : Content(f) \in [id : Files, kind : Kinds]
    BY <1>4 DEF Prompt, Owned, Content
  <2>2. UNCHANGED <<chat, status, key, object>> /\ past' = past \cup Now(files)
    BY <1>4 DEF Prompt
  <2>3. \A x \in Now(files) : x \in [id : Files, kind : Kinds] /\ key[x.id] # NoKey
    BY <1>4, <2>1 DEF Prompt, Now, Content, Owned
  <2> QED
    BY <2>2, <2>3
<1> QED
  BY <1>1, <1>2, <1>3, <1>4 DEF ChatNext

-----------------------------------------------------------------------------
LEMMA InitInv == Init => Inv
<1> SUFFICES ASSUME Init PROVE Inv
  OBVIOUS
<1>1. SeedInv
  BY SeedInitInv DEF Init
<1>2. ChatTypeOK /\ KeysAreStored
  BY CatalogueAssumption DEF Init, ChatTypeOK, KeysAreStored
<1> QED
  BY <1>1, <1>2 DEF Inv, TypeOK, ChatTypeOK, SeedInv

LEMMA NextInv == Inv /\ [Next]_vars => Inv'
<1> SUFFICES ASSUME Inv, [Next]_vars PROVE Inv'
  OBVIOUS
<1>1. SeedInv /\ ChatTypeOK /\ KeysAreStored
  BY DEF Inv, TypeOK, ChatTypeOK
<1>2. SeedInv'
  BY <1>1, SeedStep, SeedStutter DEF Next, ChatNext, vars
<1>3. ChatTypeOK' /\ KeysAreStored'
  <2>1. CASE ChatNext
    BY <1>1, <2>1, ChatStep
  <2>2. CASE UNCHANGED chatVars
    BY <1>1, <2>2 DEF ChatTypeOK, KeysAreStored, chatVars
  <2> QED
    BY <2>1, <2>2 DEF Next, vars
<1> QED
  BY <1>2, <1>3 DEF Inv, TypeOK, ChatTypeOK, SeedInv

(* However many processes seed the tables, die in the middle and start      *)
(* again, and however their releases disagree: a provider has one id, the   *)
(* tables never hold half a seed, and a process that serves has its models. *)
THEOREM Invariance == Spec => []CatalogueInv
<1>1. Inv => CatalogueInv
  BY DEF Inv, SeedInv, CatalogueInv
<1> QED
  BY <1>1, InitInv, NextInv, PTL DEF Spec
-----------------------------------------------------------------------------
(* The history of a chat. *)

(* A chat with one of Alibaba's models has been sent images alone.          *)
HistoryIsImages ==
  /\ chat = NoChat => past = {}
  /\ chat # NoChat /\ chat.provider = "alibaba" => \A x \in past : x.kind = "image"

LEMMA HistoryStep ==
  ASSUME HistoryIsImages, [Next]_vars
  PROVE  HistoryIsImages'
<1> USE DEF HistoryIsImages
<1>1. ASSUME NEW m \in ChatModels, CreateChat(m) PROVE HistoryIsImages'
  BY <1>1 DEF CreateChat
<1>2. CASE UNCHANGED <<chat, past>>
  BY <1>2
<1>3. ASSUME NEW files \in SUBSET Files, NEW thinking \in BOOLEAN, NEW search \in BOOLEAN,
             Prompt(files, thinking, search)
      PROVE  HistoryIsImages'
  <2>1. chat # NoChat /\ chat' = chat /\ past' = past \cup Now(files)
    BY <1>3 DEF Prompt
  <2>2. ASSUME chat.provider = "alibaba" PROVE \A x \in Now(files) : x.kind = "image"
    <3>1. ~AlibabaRefusesFiles(chat, Now(files))
      BY <1>3, <2>2 DEF Prompt, Refused, AlibabaRefuses, Question
    <3> QED
      BY <3>1 DEF AlibabaRefusesFiles, NotImages
  <2> QED
    BY <2>1, <2>2
<1> QED
  BY <1>1, <1>2, <1>3 DEF Next, ChatNext, ChangeStatus, Upload, chatVars, vars

(* A chat goes on, by plain prompts, as long as no other file has taken the *)
(* name of one of its attachments (getMessages of the Alibaba provider).    *)
THEOREM HistoryIsSpoiltByReplacement == Spec => []OnlyReplacedFilesSpoilHistory
<1>1. Init => HistoryIsImages
  BY DEF Init, HistoryIsImages
<1>2. HistoryIsImages /\ [Next]_vars => HistoryIsImages'
  BY HistoryStep
<1>3. HistoryIsImages => OnlyReplacedFilesSpoilHistory
  <2> SUFFICES ASSUME HistoryIsImages, chat # NoChat,
                      Refused(chat, Question({}, FALSE, FALSE), Now(Attached))
               PROVE  \E x \in past : object[key[x.id]] # x.kind
    BY DEF OnlyReplacedFilesSpoilHistory
  <2>1. /\ Question({}, FALSE, FALSE).files = {}
        /\ Question({}, FALSE, FALSE).thinking = FALSE
        /\ Question({}, FALSE, FALSE).search = FALSE
    BY DEF Question, Now
  <2>2. chat.provider = "alibaba" /\ AlibabaRefusesHistory(chat, Now(Attached))
    BY <2>1 DEF Refused, Unreadable, AlibabaRefuses, AlibabaRefusesFiles
  <2>3. PICK x \in past : Content(x.id).kind # "image"
    BY <2>2 DEF AlibabaRefusesHistory, NotImages, Now, Attached
  <2> QED
    BY <2>2, <2>3 DEF HistoryIsImages, Content
<1> QED
  BY <1>1, <1>2, <1>3, PTL DEF Spec

-----------------------------------------------------------------------------
(* What the providers are sent. *)

(* The features of the models of the catalogue that a question asks for.    *)
LEMMA TextModelFacts ==
  ASSUME NEW m \in TextModels
  PROVE  /\ m.provider \in {"openai", "google", "grok", "deepseek", "claude", "alibaba"}
         /\ m.provider = "alibaba" =>
              /\ m.thinking \in {"no", "optional", "effort", "always"}
              /\ m.search \in {"no", "chat", "responses"}
<1>1. ASSUME NEW p \in {"openai", "google", "grok", "deepseek", "claude"}, NEW statuses
      PROVE  \A x \in Text(p, statuses) : x.provider = p
  BY DEF Text, Model
<1>2. ASSUME NEW p \in {"openai", "google", "grok", "deepseek", "claude"}, NEW statuses
      PROVE  \A x \in Image(p, statuses) : x.provider = p
  BY DEF Image, Text, Model
<1>3. CASE m \in NumberedQwenModels
  BY <1>3 DEF NumberedQwenModels, Qwen, Model
<1>4. CASE m \in OtherQwenModels
  BY <1>4 DEF OtherQwenModels, Qwen, Model
<1>5. CASE m \in HostedModels
  BY <1>5 DEF HostedModels, Qwen, Model
<1>6. m \notin AlibabaImageModels
  BY DEF TextModels, AlibabaImageModels, AlibabaImage, Model
<1>7. CASE m \in OpenAIModels \cup GoogleModels \cup GrokModels \cup DeepSeekModels
                 \cup ClaudeModels
  BY <1>1, <1>2, <1>7 DEF OpenAIModels, GoogleModels, GrokModels, DeepSeekModels, ClaudeModels
<1> QED
  BY <1>3, <1>4, <1>5, <1>6, <1>7 DEF TextModels, Models, AlibabaModels

(* The conversions keep what they are given: images as images, and all that *)
(* is left, once the unreadable ones are refused, is documents.             *)
LEMMA ImagesApartKeeps ==
  ASSUME NEW files \in SUBSET [id : Files, kind : Kinds], ~Unreadable(files)
  PROVE  ImagesApart(files) = files
<1>1. ASSUME NEW f \in files
      PROVE  [f EXCEPT !.kind = IF @ = "image" THEN "image" ELSE "document"] = f
  <2>1. f \in [id : Files, kind : Kinds] /\ f.kind \in {"image", "document"}
    BY DEF Unreadable, Kinds
  <2> QED
    BY <2>1
<1> QED
  BY <1>1 DEF ImagesApart

LEMMA AllImagesKeeps ==
  ASSUME NEW files \in SUBSET [id : Files, kind : Kinds], ~NotImages(files)
  PROVE  AllImages(files) = files
<1>1. ASSUME NEW f \in files
      PROVE  [f EXCEPT !.kind = "image"] = f
  <2>1. f \in [id : Files, kind : Kinds] /\ f.kind = "image"
    BY DEF NotImages
  <2> QED
    BY <2>1
<1> QED
  BY <1>1 DEF AllImages

(* Google gets the same files, all of them as documents.                    *)
LEMMA AllDocumentsKeepsIds ==
  ASSUME NEW files \in SUBSET [id : Files, kind : Kinds]
  PROVE  {f.id : f \in AllDocuments(files)} = {f.id : f \in files}
<1>1. ASSUME NEW f \in files
      PROVE  [f EXCEPT !.kind = "document"].id = f.id
  <2>1. f \in [id : Files, kind : Kinds]
    OBVIOUS
  <2> QED
    BY <2>1
<1> DEFINE doc(f) == [f EXCEPT !.kind = "document"]
<1>2. AllDocuments(files) = {doc(f) : f \in files}
  BY DEF AllDocuments
<1>3. \A f \in files : doc(f).id = f.id
  BY <1>1
<1> HIDE DEF doc
<1> QED
  BY <1>2, <1>3

(* A question that is not refused is sent faithfully.                       *)
LEMMA FaithfulRequest ==
  ASSUME NEW m \in TextModels,
         NEW history \in SUBSET [id : Files, kind : Kinds],
         NEW files \in SUBSET [id : Files, kind : Kinds],
         NEW thinking \in BOOLEAN, NEW search \in BOOLEAN,
         NEW ask, ask = [files |-> files, thinking |-> thinking, search |-> search],
         ~Refused(m, ask, history)
  PROVE  Faithful(m, ask, history, TextRequest(m, ask, history))
<1>1. ask.files = files /\ ask.thinking = thinking /\ ask.search = search
  OBVIOUS
<1>2. CASE m.provider = "deepseek"
  BY <1>1, <1>2 DEF Faithful, TextRequest, DeepSeekRequest, Given
<1>3. CASE m.provider \in {"openai", "grok", "claude"}
  <2>1. ImagesApart(files) = files
    BY <1>1, ImagesApartKeeps DEF Refused
  <2> QED
    BY <1>1, <1>3, <2>1 DEF Faithful, TextRequest, OpenAIRequest, GrokRequest, ClaudeRequest,
      Given
<1>5. CASE m.provider = "google"
  <2>1. TextRequest(m, ask, history) = GoogleRequest(ask)
    BY <1>5 DEF TextRequest
  <2> DEFINE r == GoogleRequest(ask)
  <2>2. r.files = AllDocuments(files) /\ (thinking => r.thinking = "on")
    BY <1>1 DEF GoogleRequest, Given
  <2>3. {f.id : f \in AllDocuments(files)} = {f.id : f \in files}
    BY AllDocumentsKeepsIds
  <2> HIDE DEF r
  <2>4. Faithful(m, ask, history, r)
    BY <1>1, <1>5, <2>2, <2>3 DEF Faithful
  <2> QED
    BY <2>1, <2>4 DEF r
<1>4. CASE m.provider = "alibaba"
  <2>1. /\ thinking => m.thinking # "no"
        /\ search => m.search # "no"
    BY <1>1, <1>4 DEF Refused, AlibabaRefuses
  <2>4. AllImages(files) = files
    <3>1. ~NotImages(files)
      BY <1>1, <1>4 DEF Refused, AlibabaRefuses, AlibabaRefusesFiles, NotImages
    <3> QED
      BY <3>1, AllImagesKeeps
  <2>5. m.vision => AlibabaHistory(m, history) = history
    BY <1>4, AllImagesKeeps DEF Refused, AlibabaRefuses, AlibabaRefusesHistory, AlibabaHistory
  <2>2. CASE UsesResponses(m, ask)
    <3>1. TextRequest(m, ask, history) = AlibabaResponsesRequest(m, ask, history)
      BY <1>4, <2>2 DEF TextRequest
    <3> QED
      BY <1>1, <1>4, <2>2, <2>4, <2>5, <3>1 DEF Faithful, AlibabaResponsesRequest, Given,
        UsesResponses
  <2>3. CASE ~UsesResponses(m, ask)
    <3>1. TextRequest(m, ask, history) = AlibabaChatRequest(m, ask, history)
      BY <1>4, <2>3 DEF TextRequest
    <3>2. m.thinking \in {"no", "optional", "effort", "always"}
          /\ m.search \in {"no", "chat", "responses"}
      BY <1>4, TextModelFacts
    <3> DEFINE r == AlibabaChatRequest(m, ask, history)
    <3>3. /\ r.files = files
          /\ r.past = AlibabaHistory(m, history)
          /\ r.search = IF m.search = "chat" THEN Given(search, "on", "off") ELSE "none"
      BY <1>1, <2>4 DEF AlibabaChatRequest
    <3>4. r.thinking = IF m.thinking \in {"optional", "effort"}
                       THEN Given(thinking, "on", "off")
                       ELSE IF m.thinking = "always" THEN "on" ELSE "none"
      BY <1>1 DEF AlibabaChatRequest
    <3> HIDE DEF r
    <3>5. Faithful(m, ask, history, r)
      BY <1>1, <1>4, <2>1, <2>3, <2>5, <3>2, <3>3, <3>4 DEF Faithful, Given, UsesResponses
    <3> QED
      BY <3>1, <3>5 DEF r
  <2> QED
    BY <2>2, <2>3
<1> QED
  BY <1>2, <1>3, <1>4, <1>5, TextModelFacts

(* No API of Alibaba takes more images than it is sent.                     *)
LEMMA ImagesAreSent == AttachedImagesAreSent
<1> SUFFICES ASSUME NEW m \in AlibabaImageModels, NEW n \in 0 .. MaxAttached,
                    ~ImageRefused(m, n)
             PROVE  ImagesSent(m, n) = n
  BY DEF AttachedImagesAreSent
<1>1. ASSUME NEW api, NEW max, NEW req, m = AlibabaImage(api, max, req)
      PROVE  /\ m.provider = "alibaba" /\ m.api = api
             /\ m.maxImages = max /\ m.requiresImage = req
  BY <1>1 DEF AlibabaImage, Model
<1>2. \/ m.api \in {"multimodal", "wan-image-async", "wan-edit-async"}
      \/ m.api = "wan-async" /\ m.maxImages = 0
      \/ m.api = "wan-legacy-edit" /\ m.maxImages = 1
  BY <1>1 DEF AlibabaImageModels
<1>3. m.provider = "alibaba" /\ m.maxImages \in Nat
  <2>1. m.provider = "alibaba"
    BY <1>1 DEF AlibabaImageModels
  <2>2. m.maxImages \in {0, 3, 10} \cup {4, 9} \cup {0, 3, 1}
    BY <1>1, Zenon DEF AlibabaImageModels
  <2> QED
    BY <2>1, <2>2
<1>4. ImagesSent(m, n) = AlibabaImagesSent(m, n)
  BY <1>3 DEF ImagesSent
<1>5. n \in Nat /\ n <= m.maxImages
  BY <1>3 DEF ImageRefused, TooMany, MaxAttached
<1> QED
  BY <1>2, <1>4, <1>5 DEF AlibabaImagesSent

(* Whatever model of the catalogue a chat has and whatever has been         *)
(* uploaded, what a prompt asks for reaches the model (generateResponse and *)
(* generateImageResponse of the providers).                                 *)
THEOREM PromptsAreSent == Spec => []AskedIsSent
<1>1. Inv => AskedIsSent
  <2> SUFFICES ASSUME Inv,
                      NEW files \in SUBSET {f \in Files : Owned(f)},
                      NEW thinking \in BOOLEAN, NEW search \in BOOLEAN,
                      NEW m \in TextModels,
                      ~Refused(m, Question(files, thinking, search), Now(Attached))
               PROVE  Faithful(m, Question(files, thinking, search), Now(Attached),
                        TextRequest(m, Question(files, thinking, search), Now(Attached)))
    BY DEF AskedIsSent
  <2>1. \A f \in files : Content(f) \in [id : Files, kind : Kinds]
    BY DEF Inv, TypeOK, KeysAreStored, Owned, Content
  <2>2. Now(files) \in SUBSET [id : Files, kind : Kinds]
    BY <2>1 DEF Now
  <2>3. Now(Attached) \in SUBSET [id : Files, kind : Kinds]
    BY DEF Inv, TypeOK, KeysAreStored, Attached, Now, Content
  <2> QED
    BY <2>2, <2>3, FaithfulRequest DEF Question
<1> QED
  BY <1>1, InitInv, NextInv, PTL DEF Spec
=============================================================================
