# Verification of chat-ai-backend

TLA+ models of the backend of a chat application that sells subscriptions to
language models, model-checked with TLC and proved about with TLAPS. The
repository's code is NestJS over PostgreSQL (TypeORM), with an in-process cache,
T-Bank as the payment provider and S3 as the file store. Paths below are relative
to the repository; the application is under `src/`, its end-to-end tests under
`test/`.

## 1. The system

### 1.1 Components

| Component | State it keeps | Operations |
|---|---|---|
| Subscription lifecycle (`src/subscription`) | one row per user: status, plan, end of the period, trial flag, stored payment methods | checkout rewrites it, confirmation activates it, claim, expire, cancel, resume, method change and removal |
| Scheduled checks (`src/subscription/cron`) | nothing of their own | every half hour: claim and charge expired active subscriptions; every hour: take the status from owners of expired canceled ones; every hour: mail a reminder before a charge |
| Checkout and charging (`src/payment`) | payment rows | a T-Pay or T-Bank form, a purchase through SBP account linking, a renewal charge, each a chain of database statements and bank calls |
| Bank notifications (`src/payment/webhook`) | nothing of their own | CONFIRMED, REJECTED, REFUNDED, RECEIPT, ACTIVE: update payment, subscription, user and promotion |
| Payment-method change | pending key on the row, parameters of a key in the cache for 30 minutes | QR request, completion by a notification, removal |
| Charge reminders | one row per subscription and period end | claim, mail, mark |
| Tariffs, amounts, promotions | constants and one row per used promotion | length of a period, trial, price (amounts are not modelled) |
| User accounts (`src/user`) | the user row: status, email, photo; a copy cached for 10 seconds | sign-up, profile, status |
| Email sign-in, password reset (`src/auth`) | one-time codes in the cache | send, verify |
| Sessions and tokens (`src/auth`, `src/session`) | one row per user and device | sign-in, refresh, logout |
| Chats (`src/chat`) | chat rows | create, rename, pin, publish, delete |
| Prompts and streaming (`src/chat`) | prompt rows, token counts, files | stream an answer and store it, generate an image |
| Model providers (`src/model-provider`) | nothing kept | turn a provider's stream into chunks; poll an image task |
| Model catalogue and access | cached list of models | compare the user's plan with the model's |
| Startup seed (`src/database`) | providers, models, promotions | upsert under a table lock when the process starts |
| Files (`src/file-storage`), mailer, migrations, application shell | objects in S3, rows of files | input and output, wiring |

### 1.2 How they interact

- The **subscription row** is shared by four parties that never lock it: user
  requests, checkouts, notifications and scheduled checks. Each reads the row with
  one statement and writes it with a later one; nothing runs in a transaction.
  What protects it is a `WHERE` on the status in some of the updates
  (`claimExpiredSubscription`, `cancelSubscription`, `resumeSubscription`,
  `rejectPayment`, `completePaymentMethodLink`).
- The **bank** is called synchronously (`Init`, `Charge`, `ChargeQr`,
  `AddAccountQr`) and answers later, through notifications that it repeats until
  they are answered `OK`, in any order.
- The **user status** (`free`, `plus`, `pro` here) is a copy of what the
  subscription row implies, written by other statements than the row.
- The **promotion** fixes the price when a payment is made and is consumed when a
  payment is confirmed.
- The **cache** connects a QR request to the notification that answers it, and
  the request for a one-time code to its verification. It also holds a copy of
  each user for ten seconds, which only a change of the profile drops.
- A **prompt** goes from the guards through `PromptService` to one of the
  providers, whose chunks flow back through taps that store them on the way. The
  client's disconnection travels the same way in the other direction, as an
  unsubscription.
- The **files** of a prompt are rows that refer to objects in S3 by user and
  name; a vision model is sent those of earlier prompts again.

### 1.3 What is hard, and what makes each component correct

| Component | Hard behaviour | Correct when |
|---|---|---|
| Renewal | overlapping checks, stale rows, charge calls whose answer is lost, cancellation meanwhile | a period is charged once, after its end, at full price, and not while canceled |
| Access | confirmation is four parallel updates; crash between them; resets from stale reads | paid status only for money; it ends when a canceled period ends; it matches an active row |
| Payments | late, repeated, reordered notifications; read, wait, write | what is recorded is what the bank did; a paid payment stays paid, a refund is final, a date is kept |
| Trial | price fixed and promotion consumed at different moments | a renewal is at the full price; a confirmed payment consumes the promotion |
| Payment method | concurrent QR requests, repeated and late notifications, removal | a QR works once, and never after it was replaced or withdrawn |
| Reminders | overlapping checks, lost answers of the mail server, crash | one attempt at a time; none after a recorded success |
| Accounts, codes | the same code verified twice; a row found missing and inserted meanwhile; a stale cached user | a spent code stays spent; a confirmed email stays confirmed, and only it makes a user VERIFIED |
| Sessions | refresh racing logout or a new sign-in on the same device | a refresh token works only while one of its sign-ins lasts, and none at all for an unconfirmed email |
| Prompts | rows written from inside a stream by taps nobody awaits; a second prompt before the first is stored; the chat edited and deleted meanwhile | what is stored is the whole of what was shown, with its counts; a shown image is stored |
| Provider streams | six formats of events, cut off, failing or left by the client | each is one answer: pieces, then one end; a completed one is one that its provider has ended |
| Image tasks | poll, abort and timeout race | exactly one outcome, nothing left running |
| Seed | several processes of different releases start together and die halfway | they take turns: one id for a provider, never half a seed |
| Catalogue | six providers, each with its own limits and requests; files that replace each other | what is asked for is sent or refused, not dropped |

`PROJECT.json` lists each hazard at its line, with the properties that cover it.

## 2. The plan

Done, in this order (the payment domain first, because it is where concurrency
costs money):

1. `SubscriptionRow`, `Tariff`, `Billing`: the row, prices, and everything that
   runs on the row. Abstract specification `RenewalPromise`. Proofs in
   `BillingProofs`.
2. `PaymentLedger`, abstract `PaymentLifecycle`: one payment under its
   notifications. Proofs in `PaymentLedgerProofs`.
3. `ChargeReminder`, abstract `ReminderPromise`; `ChargeReminderProofs`.
4. `MethodLink`, abstract `OneTimeLink`; `MethodLinkProofs`.
5. `ProviderStream`, abstract `AnswerStream`: the adapters of the providers;
   `ProviderProofs`.
6. `ImageTask`: one image of Alibaba; also in `ProviderProofs`.
7. `PromptStream`: the prompts of a chat, each of them shown to its client as an
   answer of `AnswerStream`; `PromptStreamProofs`.
8. `Accounts`: users, codes and sessions; `AccountsProofs`.
9. `DatabaseSeed`, `ModelCatalogue`, and `Catalogue`, which composes them:
   chats, files and prompts over the seeded tables; `CatalogueProofs`.

Every safety property that a passing run checks, and every refinement, is a theorem
too. Left, in this order: both plans in one run of `Billing`; the purchase QR in
`MethodLink`; the limit of prompts per day. `ClaimIsPursued` and `RenewalAtFullPrice`
reach as far as the first crash; what may be said of the row after it is left too.

## 3. The modules

### `SubscriptionRow`

The columns of `Subscription.ts` that decide anything, and one operator for each
`UPDATE` and each `WHERE`. A date is a natural number and null is 0; `Reached`
follows SQL, where a comparison with null is not true. `rebill` and `token` say
whether `rebill_id` and `account_token` are stored. Left out: columns that
nothing reads to decide (`pan`, `current_period_start`, `created_at`,
`payment_method_deleted_at`) and the pending key (in `MethodLink`).

### `Tariff`

`TariffService.getTariff` as an operator: the trial and the next charge. A calendar
month has one length (`MonthLength`). Amounts are left out: they follow from the
tariff, and no step reads one back.

### `Billing`

One user: rows of distinct users share nothing. Variables: `now`, `sub` (the row),
`access` (the user's status), `promotion` (still usable?), `pay` (payment rows),
`bank` (what the bank did with each order), `jobs`, `crashes`.

A handler in flight occupies a *slot*: `Requests` for checkouts, `Hooks` for
notifications, `Crons` for the scheduled checks of any number of processes. Its
record `jobs[s]` holds the next step and what it has read, which may be stale when
it is used. Every action is one awaited statement or bank call:

| Code | Actions |
|---|---|
| `getTPayLink`, `getTBankLink`, `onAccountLinked` | `BeginCheckout`, `FindSubscription`, `SaveSubscription`, `PricePayment`, `InsertPayment`, `InitPayment`, and for SBP the parallel `LinkAccount` and `ChargeAccount` |
| `confirmPayment` | `BeginConfirmation`, `ComputeTariff`, then in any order `MarkPromotionAsUsed`, `ConfirmPayment`, `ActivateSubscription`, `GrantAccess` (a `Promise.all`) |
| `rejectPayment`, `refundPayment` | `RejectPayment`, `RefundPayment` |
| `handleRenewSubscriptionCheck` | `BeginRenewal`, `ClaimSubscription`, `PriceRenewal`, `InsertRenewalPayment`, `RequestCharge`, and on failure the parallel `ExpireSubscription` and `ResetUser` |
| `handleCanceledSubscriptionCheck` | `BeginCanceledCheck`, `ResetCanceledUser` |
| the user's requests | `CancelSubscription`, `ResumeSubscription`, `ChangePaymentMethod`, `RemovePaymentMethod` |

The bank (`BankConfirms`, `BankRejects`, `BankRefunds`) and the clock are the
environment. `InitPayment` and `RequestCharge` may fail before or after the bank
has acted: a lost answer is an outcome of its own, and so is that of the insert of a
renewal's payment, whose failure leads to `failUserSubscription`. `Crash(s)` ends a handler
between two steps, which also stands for one failing statement. A column that
does not exist, `renews`, records which period a renewal was made for.

### `PaymentLedger`

One payment row with what `Billing` abstracts: the date, the receipt, an attempt
that fails before another succeeds, and a confirmation that reads, waits and
writes. `Overlap` says whether a notification may arrive while another one is
handled.

### `ChargeReminder`

`handleWillBeChargedSubscriptionCheck` for one subscription over several periods:
read, insert or take over the claim, mail, mark. The mail may be delivered with
the answer lost, marking may fail (before or after it is committed), and the check
may crash anywhere.

### `MethodLink`

`getPaymentMethodQr`, `onAccountLinked` for a method change, and every other
writer of the three columns. `issued` and `spent` are history.

### `ProviderStream`

One answer through one of seven adapters (Alibaba has two). The provider writes events
in the order its protocol allows (`Vocabulary`, `Writes`: external), and the adapter's
loop handles each with its locals `acc` (`responseId`, `fullContent`,
`isOutputStarted`, `finished`), giving chunks to the subscriber (`out`). A text is the
number of its pieces. `wrote` is history. A provider ends its answer whole, truncated
at a limit of tokens, cut for another reason, or with an error (`Ends`); the four
adapters that cannot tell a truncated answer from a whole one are `Heedless`. The
provider may stop anywhere, the connection may break, and the client may leave; of the
providers only Alibaba's `observe` has a teardown.

| Code | Actions and operators |
|---|---|
| the loop of each `generateStreamResponse` | `OpenAIEvent`, `GrokEvent`, `GoogleEvent`, `DeepSeekEvent`, `ClaudeEvent` |
| `streamChat`, `streamResponses` | `AlibabaChatEvent`, `AlibabaResponsesEvent`, and what follows the loop, `AlibabaChatEnds`, `AlibabaResponsesEnds` |
| `observe` | `Yield`, `Throw`, `AbortRead` |
| `getMetaPayload`, `getDeltaPayload`, `getCompletePayload`, `getErrorPayload` | `Show`, `Given`, `Finish`, `Fail` |

### `ImageTask`

`AlibabaImageClient.generate` from the rules on attachments to the downloaded
image. `at` is the await at which the call stands. The deadline, the abort of the
caller and the reply of the provider are separate actions, so they meet in every
order; what is due happens before the clock goes on. Time is counted in polls
(ten seconds), and the deadline is 60 of them, as in the code.

### `PromptStream`

`sendStreamPrompt` and `sendImagePrompt` for the prompts (`Asks`) of one chat, which
is of one of three kinds: chained by the last response id, sent its history, or for
images. `ask[a]` is how far a handler has come, `job[a]` the statements of its taps,
`client[a]` what the client has seen. The taps run beside the stream: a rejected
statement is an unhandled rejection, which ends the process (`Die`), and every prompt
under way is lost with it. A client may leave a stream (`Disconnect`), which
unsubscribes, or before the handler has returned it (`LeaveEarly`), which nothing
notices. What the client of each ask sees is mapped to an `AnswerStream` of its own
(`Shown(a)`), so `ImplementsAnswers` says of any number of asks at once what
`ImplementsAnswerStream` says of one. `PatchChat`, `ReadChat` and `MakeChatPublic` (a
stale whole row), `TitleArrives` and `DeleteChat` change the chat meanwhile.

### `Accounts`

Any number of requests over users, codes, sessions and the cached copies. A request
keeps its locals in `req[r]`, and each await is a step boundary: `FindUser` then
`SaveUser`, `VerifyAuthCode` then `SaveUser` then `SpendCode`, `SignToken` then
`StoreSession`, `FindById` then `FillCache`. Emails and guests are identifiers of
their rows. A refresh token is the user and the second of its signature, which is all
a JWT here depends on: two sign-ins of one second share it. `spent` and `signIns` are
history: the second counts, for a token and a device, the sign-ins that were given it
and are neither logged out nor replaced. A change of the profile with an email is
refused by the validation of the request (`ChangeEmail`, `RefuseEmail`). What of a row
matters: whether it has a password, `emailVerified`, and the status, where every paid
one is `subscription`.

### `DatabaseSeed`, `ModelCatalogue`, `Catalogue`

`DatabaseSeed`: processes, each with the seeds of its release, run the
transaction of `onModuleInit` statement by statement over a copy of the tables,
one at a time because of the lock, and may die at any statement. `seeded` is
history: the processes that have committed.

`ModelCatalogue` has no variables: the seeded models by provider, status and
features; what each provider refuses, and the request it makes of a prompt
(`OpenAIRequest` and so on, `TextRequest` for the choice of the provider), where an
attachment keeps its identity and goes as an image, a document, or, with Google,
always a document; the number of images that an image request sends.

`Catalogue` composes the two with one user: the status changes, a chat is
created with a model that is open to it, files are uploaded, possibly under one
name, and prompts are sent with them.

### Abstract specifications

`RenewalPromise` (a period charged at most once, after its end, not while canceled;
every charge has an id, so that a second one for a period is a step the promise does
not have), `PaymentLifecycle` (new, rejected, confirmed, refunded, and the date),
`ReminderPromise` (one attempt at a time, none after a success), `OneTimeLink` (a QR
that is good once) and `AnswerStream` (pieces, then one end, which has all of them),
which both `ProviderStream` and `PromptStream` implement: what an adapter passes on,
and what a client is shown. Each is implemented by its detailed module through
`INSTANCE ... WITH`; the mapping stands next to the property.

### Mutants

An operator under a comment "Mutant of X" or "Changed form" is a wrong version of `X`
that no specification uses. It stands for a plausible mistake; put in place of `X`, it
makes TLC find the property violated that `PROJECT.json` names with it. They show that
the properties depend on the code.

## 4. The runs

The `MC` modules add symmetry sets, `MCAccounts` and `MCCatalogue` the instances,
and `MCProvider` the choice between a text and an image; constants have their values
in the configurations.

| Run | What it shows | Distinct states |
|---|---|---|
| `renewal` | Two renewal checks overlap and work from stale rows while the user cancels, resumes, removes the method and buys, and the bank confirms, rejects and refunds: `PeriodChargedOnce`, `RenewalAtFullPrice`, `ClaimIsPursued`, `CanceledPeriodNotCharged`, and the refinement of `RenewalPromise`. | 1.75 million |
| `crash` | A purchase through SBP and a renewal, handlers that outlast a tick, one crash anywhere: `AccessIsPaidFor` and the inductive invariant `BillingInv`. | 0.86 million |
| `notify` | Under fairness, with a crash: `ConfirmedPaymentIsRecorded`; `ConfirmedPaymentTakesEffect` (the promotion is consumed, the period started and the access given once, whichever of the four writes the crash cut off); `ExpiredCancellationEndsAccess`. | 16 thousand |
| `ledger_serial` | One notification at a time: `RecordedIsDated`, `PaidStaysPaid`, and the refinement of `PaymentLifecycle`. | 618 |
| `reminder` | Overlapping checks, with lost answers of the mail server and of the database: `ReminderInv`, `NoMailAfterSent`, and the refinement of `ReminderPromise`. | 58 thousand |
| `links` | Two QR requests and two notifications at once, three keys: `MethodInv`, `SpentQrNeverLinks`, and the refinement of `OneTimeLink`. | 6.2 thousand |
| `provider` | Texts: the events of all adapters, the ends of the answer, of the connection and of the client, in every order: `StreamInv` (the loop keeps up, and who has been answered does not wait), `CompleteIsEnded`, `UnsubscribeStops`, and the refinement of `AnswerStream`. Images: the deadline of 60 polls, the abort and every reply: `ImageInv` (nothing left behind, leaving aborts), `OneTaskForAnImage`, `DeadlineHolds`, and `GenerationEnds` under fairness. | 44 thousand |
| `answers` | Two prompts of one chat of each kind under way together, with the same file or none, clients that leave before or during the stream, one stale publication, title, rename, deletion, and any statement rejected: `PromptInv` (a seen answer is not forgotten, and the taps take their statements in turn, so that counts are kept in either order), `StoredIsWhole`, `ShownImageIsStored`, `CountsKept`, and the refinement of one `AnswerStream` per ask. | 2.6 million |
| `accounts` | Two overlapping requests about one email user and one guest, on one browser: `AccountsInv` (sessions are of confirmed emails, VERIFIED is earned, one session per device), `AcceptedIsSignedIn`, `SpentCodeIsRefused`, `VerifiedForGood`. | 1.06 million |
| `catalogue` | Two processes of releases that disagree about a provider, one of which dies, over three states of the tables; then prompts with two files under one name or two: `CatalogueInv` (one id per provider, no half seed, models present), `OnlyReplacedFilesSpoilHistory`, `AskedIsSent`. | 48 thousand |

Two runs find a violation of something the repository says:

| Run | Said | Done |
|---|---|---|
| `ledger_refund` | "a refunded payment cannot be confirmed again" (`README.md:262`) | A refund recorded between the read and the write of a confirmation is overwritten. |
| `accounts_email` | the profile request accepts `email`, and "Changing the email resets its verification" (`README.md:445-449`) | `PatchUserDto` has no `email`, a request with one is refused, and the email stays verified. |

### Bounds

- **Slots.** One checkout and one notification, and one or two renewal checks in
  `Billing`; two of each kind in the other modules (requests in `accounts`, prompts
  in `answers`, processes in `catalogue`). Two of a kind is the smallest
  number that can race. Two checkouts at once, or two notifications, are covered
  for the safety properties by the theorems (any number of slots).
- **Ids.** `Purchases`, `Renewals`, `Keys`: one more renewal than a period can
  need in `renewal`, so that a double charge has an id to happen with; three
  keys, so that a third can replace two.
- **Time.** `MaxTime` bounds the clock, `MonthLength`, `FreeDays` and
  `SixMonthsLength` are periods. With periods of one unit a purchase at time 1 ends at
  2 and, renewed, at 3; `MaxTime = 3` reaches the end of the renewed period. In
  `crash` a period has two units and `MaxTime = 3` reaches the renewal.
  `SixMonthsLength` is not exercised by purchases in the runs (`Terms = {FALSE}`) but
  by the theorems.
- **`Stall`** is how long a handler may last. 0 in `renewal`: the handlers of one
  instant interleave in every order and time stands still meanwhile; 1 in
  `crash`, with periods of 2. The code bounds a handler only by the timeouts of
  its calls, seconds against periods of days.
- **`MaxCrashes`** 0 or 1. **`MaxMails = 2`** is where counting stops.
- **`Plans`, `Terms`, `SbpChoices`, `RebillChoices`** restrict what is bought in an
  instance. A T-Pay purchase gives `rebill`, an SBP purchase `token`.
- **`MaxPieces = 2`** (`provider`): a stream can be cut before, between and after its
  pieces, and 2 tells one lost from all lost. The theorems hold for any number.
- **`MaxText`, `MaxMetas` = 1** (`answers`): one piece tells an empty answer from a
  whole one; a response that announces its counts twice meets the unique key in
  the same way as an insert that meets the upsert, which is in the run.
- **`MaxCodes = 2`, `MaxSecond = 1`** (`accounts`): a second code can replace the
  first, and two tokens can be of one second or of two. `MCAccounts` splits the
  requests into two mixes that share sign-in, verification and OAuth: one with
  resets, profile changes and the cache, in one second; one with guests, refresh
  and logout, while the clock goes on. The theorems have no such split.
- **`Slack = 2`** (`provider`): how far the clock could go past the deadline, which
  `DeadlineHolds` then excludes. **`MaxFailures = 1`** (`catalogue`): one death. The
  run has three models that a chat may take; `AskedIsSent` puts its question to
  every text model of the seeds in every state. That Alibaba's image models are sent
  every image attached (`AttachedImagesAreSent`) depends on no state: `MCCatalogue`
  assumes it, so TLC evaluates it for up to `MaxAttached = 11` images, one more than
  any model takes, and `CatalogueProofs` proves it as the lemma `ImagesAreSent`.
- **Symmetry** is used for slots, ids, keys, files and URLs, which no definition
  orders or chooses, and not where liveness is checked.

`provider` and `answers` switch the deadlock check off: an answer, an image and the
prompts of a run come to an end. In every other run something can
happen in every reachable state.

### Fairness

`FairSpec` assumes: a handler that has started takes its next step (the event loop
starves nobody; `Crash` is how it dies); the scheduled checks are started again
(`@Cron`); the clock goes on; and each payment's confirmation is notified with
*strong* fairness, because the bank repeats it until it is answered and a slot of
the model may be busy at one moment and free at another. The user and the bank's
decisions have no fairness. A rejection has none either: nothing that is checked
depends on it.

`ImageTask` assumes that the event loop runs what is due (the timer, the end of a
delay, the rejection of an aborted request) and that time goes on; it assumes
nothing of the provider, which may never answer. `ProviderStream` assumes only
that an aborted read is given up.

## 5. The proofs

TLAPS checks every leaf. Each theorem holds for every value of the constants that
the module's assumption allows.

| Module | Theorems |
|---|---|
| `BillingProofs` | `TypeCorrect`, `Invariance` (`BillingInv`), `NoDoubleCharge`, `NoFreeAccess`, `PaymentsAsDecided`, `CancellationHolds`, `FullPriceRenewals` (`RenewalAtFullPrice`), `ClaimsArePursued` (`ClaimIsPursued`), `Refinement` (of `RenewalPromise`) |
| `PaymentLedgerProofs` | `TypeCorrect`, `PaidIsNotHidden`, `HistoryIsDated` (both with notifications that overlap), `Refinement` (of `PaymentLifecycle`, under `Overlap = FALSE`) |
| `ChargeReminderProofs` | `Invariance` (`ReminderInv`), `NoSecondMail`, `Refinement` (of `ReminderPromise`) |
| `MethodLinkProofs` | `Invariance` (`MethodInv`), `NoReuse`, `Refinement` (of `OneTimeLink`) |
| `ProviderProofs` | of `ProviderStream`: `Invariance` (`StreamInv`), `EndedAnswers` (`CompleteIsEnded`), `Refinement` (of `AnswerStream`); of `ImageTask`: `ImageInvariance` (`ImageInv`), `DeadlineIsKept` (`DeadlineHolds`), `OneTask` (`OneTaskForAnImage`) |
| `PromptStreamProofs` | `Invariance` (`PromptInv`), `WholeTexts` (`StoredIsWhole`), `ImagesAreStored` (`ShownImageIsStored`), `CountsAreStored` (`SavedIsCounted`), `CountsStay` (`CountsKept`), `Refinement` (of `AnswerStream`, ask by ask) |
| `AccountsProofs` | `Invariance` (`AccountsInv`), `TokensHaveSignIns` (`AcceptedIsSignedIn`), `NoSecondUse` (`SpentCodeIsRefused`), `Verified` (`VerifiedForGood`) |
| `CatalogueProofs` | `Invariance` (`CatalogueInv`), `HistoryIsSpoiltByReplacement` (`OnlyReplacedFilesSpoilHistory`), `PromptsAreSent` (`AskedIsSent`) |

**Assumptions.** `BillingAssumption`: slots and ids of distinct roles are disjoint,
and `Stall` is less than each period, that is, no handler lasts as long as a period.
`TariffAssumption`: periods are positive. `LedgerAssumption`, `ReminderAssumption`,
`MethodAssumption`, `MaxPiecesAssumption`, `PromptAssumption`, `DeadlineAssumption`,
`AccountsAssumption`: the constants are of their kind, and the deadline is not zero.
`SeedAssumption`: a seed gives a provider one id, and so do the tables before, as
earlier seeds leave them. `CatalogueAssumption`: chats are about text models. TLC
evaluates each of them.

**The argument for `Billing`.** That no period is charged twice is not inductive:
it needs that a claimed period is out of everybody's reach. `PeriodInv` says so: a
handler that has claimed a period is the only one that has, the period is over,
no payment exists for it, and the row cannot become claimable with that end
again (`ClaimsAreExclusive`); so it stays once charged (`ChargedPeriodsAreOver`).
The row could only return to such an end if somebody wrote an end that is
already over, so `EndsToCome` says that an end about to be written is later than
its handler can still run, and `Timely` bounds that run. This is the one place
where `Stall < FreeDays` matters. `PaymentInv` (ids are owned by one handler, the
bank knows only of inserted payments, a notification is about a paid one) and
`AccessInv` (a check charges only somebody who has paid) are the remaining parts.
`BillingInv` is checked by TLC in `crash` and proved in three facts: initially,
by each group of steps, and for what follows from it. The refinement takes the
invariant and one more fact: only `InsertRenewalPayment` creates a renewal, one at a
time, under an id and for a period that have none yet (`ReservedAreFresh`,
`ClaimsAreExclusive`), which is what the promise asks of a charge.

`RenewalAtFullPrice` rests on `BillingInv` and a further invariant,
`PromotionIsConsumed`: while a period runs, the promotion is consumed, or the
confirmation that started the period is still about to consume it
(`WillConsume`) and ends before the period does. A claim takes a period that is
over, so the second case is excluded then. A crash between the two writes of a
confirmation breaks it for good, which is why the property, and the theorem,
reach as far as the first crash (`crashes = 0`); there is no assumption on
`MaxCrashes`.

`ClaimIsPursued` says what `crashes = 0` keeps from the RENEWING row: the check that
claimed it is about to price or insert its payment, to ask the bank, or to expire the
row, or the bank has been asked. It is inductive with `BillingInv`: a payment row,
once there, keeps the period it was made for, and an order does not vanish at the bank
(`OrdersStay`, from the ownership of ids in `PaymentInv`), so every step of somebody
else leaves what pursues the claim as it is (`OthersPursue`), and each step of the
check hands it on (`ClaimersPursue`). After a crash, or a rejection that comes later,
nothing looks for the row again: the hazard at `webhook.service.ts:77`.

**For the others.**

- `PaymentLedger`: what a confirmation has read is still so (`ReadIsCurrent`), which
  is exactly what overlapping breaks.
- `ChargeReminder`: who has taken a claim is alone and the row says processing
  (`OneHolder`); a check whose mark was committed with the answer lost goes on to its
  failure path and holds nothing any more, because the row says sent (`Holds`).
- `MethodLink`: a key is held by one request or by the row until it is spent
  (`KeysAreStoredOnce`).
- `ProviderStream`: the locals of each loop agree with what has been written and
  shown, which the proof takes event by event and adapter by adapter, and the end that
  is shown is the one that was written, or a truncated one with a `Heedless` adapter.
- `ImageTask`: the timer is set exactly while a call waits, and a wait that is due has
  not passed the deadline, because time does not go on over a timer.
- `Accounts`: what a request knows and carries follows from where it stands: a
  verification that has saved has a row with a confirmed email behind it, a sign-in
  that is about to sign has read one, and a token about to be stored is of its user; a
  spent code is neither in the cache nor will it be set again, because codes are new.
  That an accepted token has a sign-in is a matter of counting (`Held`): the requests
  that carry the token to `StoreSession` (`Pending`) and the row that has it, if there
  is one, are together at most the sign-ins counted; a row that is replaced or dropped
  takes one off, and the count reaches zero only when nobody has or carries the token.
  Counting alone is enough for two sign-ins of one second.
- `Catalogue`: at most one process is in a transaction (`Alone`), so its copy is the
  tables until it writes, and after that it is the tables with the provider rows of
  its seed and some of its models (`CopyIsCurrent`); without the lock the second is
  false, and a commit would take models away. `NeverHalfSeeded` compares the tables
  with the seeds of the processes that have committed, whoever was first, so a commit
  from a stale copy would break it too. That a history is spoilt only by a replaced
  file needs that a chat with a model of Alibaba has been sent images alone
  (`HistoryIsImages`), which the refusals of every earlier prompt of any length of
  chat see to; that prompts are sent goes provider by provider (`FaithfulRequest`),
  through what its request makes of a kind (`ImagesApartKeeps`, `AllImagesKeeps`,
  `AllDocumentsKeepsIds`) and the features that each model of the seeds has
  (`TextModelFacts`), and needs of the state only that a stored file has a content
  (`KeysAreStored`).

**The argument for `PromptStream`.** `StoredIsWhole` speaks of rows, and a row is
written long after the chunk that completed the answer, by a tap that kept only its
own locals. So the invariant follows one ask from the chunk to the row (`AskInv`):
nothing is shown as complete, and nothing saved, before the stream has opened
(`SavesInTurn`); from then on the step of `job[a].save` says which rows and objects
exist already (`CountsInTurn`, `ImagesInTurn`), unless the chat has been deleted
meanwhile, which is the one step that takes rows away. What relates asks to each other
is little: the rows that the chat lists exist (`ListedAreStored`), and an ask knows
only answers that were complete (`Told`). A step of one ask leaves the others as they
are (`Apart`), so that each step is looked at for its own ask, except `Die`, which
ends them all, and the deletion. The refinement uses the same split: a step is a step
or a stutter of the `AnswerStream` of every ask.

**Only model-checked:** the liveness properties (`ConfirmedPaymentIsRecorded`,
`ConfirmedPaymentTakesEffect`, `ExpiredCancellationEndsAccess`, `GenerationEnds`,
`UnsubscribeStops`), which are out of reach of the prover, and the absence of
deadlocks, which is about `ENABLED`.

## 6. Not modelled

- The limit of prompts (`guards/prompt.guard.ts`, `USER_STATUS_LIMITS`): a counter
  inside the throttler library, of which this code chooses the key and the
  window.
- The check of the notification's token, request bodies and their hashes, and
  generated types: pure functions of one message.
- Amounts (`payment-amount.service.ts`, the prices and discounts of the tariffs):
  arithmetic on constants that no step reads back.
- An OAuth profile without an email (`auth.service.ts:45`), for which
  `findUserByEmail` would look for an undefined email; every profile of the model has
  one. Access tokens, which are stateless: one that `auth.controller.ts:72` issues to a
  refresh validated before a logout is good after it.
- The rows of OAuth accounts, which nothing reads (that their upsert may fail is
  modelled), names, photos and the mailing
  consent; the strategies, which differ only in the profile they pass on.
- `getMethod`, lists of chats, signed links to files and other reads that decide
  nothing.
- The deprecated `generateResponse` of the providers, which answers only for the
  title of a chat (`TitleArrives`).
- Texts, translations, mail templates, logging, Swagger, validation decorators.
- Migrations, application wiring, S3 and mail transport (their outcomes are in
  `PromptStream`, `Catalogue` and `ChargeReminder`).
- The calendar: months of different lengths. The comparison of dates, and that a
  period is longer than a handler, is what the properties use.

## 7. Observations on the code

Met while modelling; the models behave in the same way, unless section 6 names the
part as left out. Beside the two violations of section 4 they are not stated as
properties, because nothing in the repository says otherwise, or only in
passing.

### Payments

- After a crash between the claim and the charge a subscription stays RENEWING, and
  so it does after a renewal that the bank accepts and rejects later
  (`rejectPayment` updates the payment alone), although
  `subscription-check.service.ts:73` says that a subscription that could not be
  charged must be canceled. After a crash between the claim and the mark a
  reminder stays PROCESSING. No check selects any of them.
- Two checkouts made before either is paid are both paid at the trial price; the
  promotion is for one use (`promotions.seed.ts:14`).
- The check of canceled subscriptions resets a status from a row it has read
  earlier, also after a purchase has been confirmed; `copilot-instructions.md:28`
  says that payment, subscription and user are updated together.
- Of two QR requests in flight the one that stores its key last wins, not the one
  whose QR is the latest (`README.md:323`).
- A repeated CONFIRMED notification starts the period anew from the current time
  and makes a canceled subscription active. A repeated ACTIVE one of a purchase QR
  runs the checkout again.
- Two overlapping confirmations of one payment may replace its date by a later
  one, although `README.md:261` says that repetitions retain it.
- The trial costs 10 roubles through every method
  (`payment-amount.service.ts:12`); `copilot-instructions.md:27` says 1 rouble
  through T-Pay. A month of PLUS also costs 10 roubles.
- A confirmation uses the plan that the row has now, not the one the payment was
  made for; the second of two payments made at the trial price buys a full month.
- A charge whose answer is lost may be confirmed first and expired afterwards by
  the check's failure path.
- `cancelSubscription` on a RENEWING row changes nothing and answers success. A
  checkout by an active subscriber makes the row PENDING before anything is paid.

### Accounts

- Verifying an email writes VERIFIED over a paid status. A sign-in that found no
  row and saves over one inserted meanwhile writes ACTIVE, and its password, over
  what is there. `resetSubscription` goes by a cached user and may write ACTIVE
  over VERIFIED.
- Two verifications of one code that overlap both succeed, and the one that
  finishes deletes whatever code the email has by then. A reset code is never
  deleted (`password-reset.service.ts:59` makes the key from the email): it times
  out.
- A user is up to ten seconds old, and a `findById` under way puts the old copy back
  after `updateProfile` has dropped it. The consent that `saveUser` writes is the
  one it has read.
- The email of a user cannot be changed: `PATCH profile` refuses the field, against
  `README.md:444-449` (the run `accounts_email`). `VerifiedForGood` therefore holds
  without exception.
- Two sign-ins of a user in one second get the same refresh token; the device tells
  their rows apart. On one device, a logout between the first sign-in's store and the
  second's does not end the token: the second store makes it accepted again. Of two
  concurrent sign-ins on one browser the cookie may be that of the replaced row.

### Prompts, providers, images

- A rejected statement inside a tap ends the process: an insert of counts that
  comes after the upsert, a second meta chunk, a file attached to two prompts, a
  chat deleted while its answer streams, an error of the database.
- The client sees an answer complete before its row is inserted. Two prompts that
  overlap fork a conversation that the provider keeps. `getPreviousMessages` does
  not order what it reads.
- `makeChatPublic` saves a whole row as the guard has read it: it takes back a title
  (or a pin) set meanwhile and inserts a deleted chat again; its prompts stay deleted.
  No property covers it: the repository promises nothing about either. A generated
  title replaces one that the user has given meanwhile.
- An image whose upload fails leaves its prompt's row.
- An answer truncated at a limit of tokens is completed, and stored, as a whole one by
  Google (an interaction completed in any status), DeepSeek (any `finish_reason`,
  `deepseek.provider.ts:119`, with `max_tokens` at line 80), Claude (`message_stop` after
  any `stop_reason`, `claude.provider.ts:121`) and Alibaba's chat
  (`alibaba.provider.ts:271`). `CompleteIsEnded` says that no other adapter does. DeepSeek
  also drops text that comes in the chunk with the `finish_reason`
  (`deepseek.provider.ts:108`).
- A client that leaves before the handler has returned its stream is not noticed: the
  provider is asked, and the answer stored, all the same (`LeaveEarly`).
- The adapters of OpenAI, Grok, Google, DeepSeek and Claude do not end the answer
  when the provider closes the stream, or reports it as failed or incomplete, and
  go on reading after the client has left. Their `catchError` wraps an error
  payload in another one. The images of OpenAI, Google and Grok never complete
  their observable, and are made from the text alone.
- DeepSeek drops attachments and the search in silence; Google is offered the
  search and never made to use it, and gets every attachment, images too, as a document
  (`google.provider.ts:84-88`).
- The key of an uploaded object is the user and the file's name
  (`file-storage.service.ts:88`): a second file of a name replaces what earlier
  prompts refer to. A vision chat of Alibaba with an image replaced by something
  else refuses every later prompt; contents without a signature (plain texts) are
  refused by `getFilesByIds` for every model.
- The status needed for a model is checked when a chat is created and not when it
  is used. `README.md` (lines 85 and 86) speaks of PRO for images, the seeds say
  PLUS.
- The limit of prompts counts per user, chat and date with a window of twelve hours,
  so it starts anew with each chat, with each UTC date and after twelve hours; its
  message speaks of a day. `USER_STATUS_LIMITS` has no entry for
  SUBSCRIPTION_BASE.
