# Verification of Solv-System

Solv is one Node process over one SQLite database, with a React client. People
upload receipts, a language model reads them, each is priced in the company's
currency, filed in a case, the case is claimed, and a claimed case may be posted
to Xero as a draft bill. A handler runs alone between two `await`s, so what is
hard about the program happens *across* awaits, across jobs and timers, across
restarts, and between a page and the server it polls. These modules model that:
what waits, what may happen meanwhile, and what the waiting side does when it goes
on. Beside them stand the pure algorithms a test reaches least: rows of money, pages
of a file, forms of a claim.

| module | models | proofs |
|---|---|---|
| `Cases` | receipts, cases, who may change what when | `Cases_proofs` |
| `CasePosting` | `postReport` and its marker, over all of `Cases` | `Cases_proofs` |
| `ClaimRegister` | the promise: how each receipt is claimed, what is final | implemented by `CasePosting` |
| `ReadQueue` | the read queue, the reads, what a restart recovers | `ReadQueue_proofs` |
| `ClaimQueue` | imports of claims: the queue on disk, the workers, the engine | `ClaimQueue_proofs` |
| `ClaimFiling` | the records an import makes, files and takes back | `Services_proofs` |
| `SignInLock`, `Accounts`, `XeroConnection` | the lock, people and sessions, the tokens of Xero | `Services_proofs` |
| `Migration` | a boot over the database of any earlier build | `Migration_proofs` |
| `FxBoard`, `KeyPool` | the day's rates and what they price; the limiter in front of the model | `Services_proofs` |
| `Assistant`, `CaseUploads`, `CaseCover`, `PhoneCapture`, `PrintedRecord` | cards and turns; files into a case; a trip's cover; a phone's page; printed rows | `Client_proofs` |
| `MailIntake`, `Allowances` | mails and zips; per diems and mileage | `Intake_proofs` |
| `FileReading`, `CaseReview` | which pages of a file are read together, and what of the answers is a row; the review pages | `ReadQueue_proofs` |
| `ClaimReading` | a claim's files, its form and its matcher | `ClaimQueue_proofs` |
| `IntakeStream`, `RateSweep`, `CaseHistory`, `ReceiptReading` | keeping up with a case; lines without a rate; the Activity tab; rows of an answer | |
| `Counting` | no code: what the proofs share about finite sets, stages and sums | proved in it |

`MC*.tla` give the constants TLC needs; the `.cfg` files are the runs; and
`PROJECT.json` ties each definition to its lines, each property to a hazard of
the code, and each checked property to a mutated definition that breaks it.
Mutants stand beside the definition they vary, under a comment `mutant:`.

## 1. Inventory

**Case and receipt workflow** (`reports/workflow.js`, `store/`, `receipts/edit.js`,
routes). State: a case is draft, open, claimed or deleted, with a number, a bill id
and a posting marker kept in `xero_error`; a receipt is reading, review-needed,
reviewed or duplicate, in at most one case, claimed or not, with lines and their
rates. Operations: create, open, edit, delete, merge, claim and reopen a case; file,
check, uncheck, edit, re-read, claim, delete and merge receipts. Hard: the routes
check, wait and then write. Right when claims are whole, nothing is claimed twice, a
claimed case keeps its receipts and their checks, and numbers are given once.

**Posting to Xero** (`xero/bills.js`). Network calls under a marker with an age;
idempotency keys; lost replies; a process that dies. Right when a case is posted once
at a time, gets one bill, the bill says what the case says, and a dead post holds
nothing up for good.

**Xero connection** (`xero/token-cache.js`, `oauth*.js`, `routes/xero.js`). Refresh
tokens rotate, and everyone who posts shares them. Right when the loser of a race
neither stores its token over the winner's nor forgets it.

**Read queue** (`receipts/read-queue.js`, `recover.js`). State: a job per file in the
database, the running reads and the timers in memory. Hard: retries, wakes, limits, a
split file, people typing while a read runs, restarts. Right when every read ends, no
row is left 'reading', no wake is lost, and what was typed stays.

**Receipt reader** (`read-receipt.js`, `receipt-parser.js`). Pages are read together or
apart; the rows of an answer become items, charges, taxes and a total. Right when no
page goes unmentioned, nothing is charged twice and what is listed adds up.

**Upload, phones, mail** (`routes/receipts.js`, `receipts/pairing.js`, `intake/`,
`routes/inbound.js`). Conversions wait; answers are lost and files sent again. Right when
a file is kept once, for its owner, in no claimed case, and nothing goes without a word.

**Claim import** (`claims/`). A ZIP with a claim form becomes receipts in a case: a
queue on disk, a worker with retries, cancellation and undo, over restarts. Right when
every import ends, leaves everything or nothing, and takes nothing else with it.

**Exchange rates** (`fx/`). Providers in a cascade, a daily close, typed rates; lines
priced after an await; a sweeper for lines without a rate. Right when a line of a day is
at that day's price and none is starved.

**Language model client** (`llm/gemini-client.js`). Keys with their minutes, models that
cool down, people before background reads. Right when every request is answered or refused.

**People** (`store/users.js`, `routes/auth.js`, `middleware/`). Slow hashes, session
versions, a lock after wrong guesses. Right when somebody can always run the company
and a session is of the password on file.

**Assistant** (`assistant/`). Turns of tool rounds propose cards; a press applies one.
Right when a change is made once and the card says so.

**Allowances, cover, activity** (`reports/`). What the company owes without a receipt;
whose each field of a trip's cover is; what a case's history tells.

**Schema and migration** (`db/`). Steps and their stamps, cut anywhere.

**Web client** (`src/ui`). Pages with state of their own: forms typed into while polls
land, a list of uploads, a stream with a poll behind it, printed rows edited by position.

Rendering of documents, backups and the settings pages are not modelled; `PROJECT.json`
says of each component how far it is, and lists the 40 hazards at their lines.

How they interact: routes call `workflow`, `edit` and the store; an upload queues a
read; a read lands by `applyRead`, asks `fx` for a rate and the cover to catch up; the
sweeper prices behind everyone; `bills.js` reads the case and takes the marker in one
stretch, then waits; an import files through the store; a boot migrates, recovers jobs,
rows and imports and starts the timers; the client asks, polls and listens.

## 2. How the modules correspond to the code

An action is the stretch of a handler up to its next await, with everything that
stretch writes. Guards are the early returns; what a handler does after an await is
another action, on whatever the rows have become.

**Cases.** `waiting` holds the handlers at an await: an upload converting its file
(`Upload`, `StoreReceipt`), an edit waiting for a rate (`EditDetails`, `EditEnds`), a
pricing (`AskRate`, `SweepRate`, `Reopen`, then `PriceEnds`), a re-read (`Reread`,
`RereadEnds`). `Background` chooses which kinds an instance has. Of a receipt's
details two things are kept: the base figure its lines come to (`NoRate` while one has
none) and whether they add up, because claims and checks depend on nothing else and the
figure stands for all a bill says of a receipt. A figure in `OwnRate` is of a receipt in the
company's own currency: it is there at once and waits for no rate; any other line made new has
none until its pricing lands, an allowance's too. Of a case, `cover` is its title or purpose and
advance, `claimDay` the day of `claimed_at`.
`Touched` is the `updated_at` that every write to a case sets and that is also the age
of a marker. Simplifications: `EditEnds` may uncheck a receipt in cases where
`editLines` would have ended before the rate (more, never less); `RereadEnds` lands the
answer and releases the row in one step; the sweep of empty drafts is `DeleteCase`.

**CasePosting** extends `Cases`. `Begin` is `postReport` up to its first await: the
checks, the marker and the bill's content together. `XeroMakesBill` is external: Xero
answers a key it knows with the bill it made for it. `PostFails` is a refusal or a lost
reply, before or after the bill was made; `RecordBill` and `Attached` are the rest.
`MarkerAges` is ten minutes passing; with `SlowPosts = FALSE` no live post outlives
them. A bill says what its case says (`SaysOf`: the lines, the cover, the day of the claim), with
a `Setting` from outside the case: the chart of accounts and the tax rates if they could be read,
the account settings, the claimant's name. The `Key` is the case and all of that, as
`idempotencyKey` digests the contact and the whole invoice.
`PostRestart` forgets every attempt.

**ReadQueue.** A file has its latest job, the row its upload made, and a count of
siblings: `own` those the current read made and has not released, `orphans` those an
earlier read left 'reading'. The clock is one bit per waiting job, `due`. `soon` is the
`setImmediate`, `timer` the `setTimeout`; `tick` is `_tick` at work, when no other
handler runs. `Picked` is `_pick`'s choice. `ReadBusy`, `ReadFails`, `ReadAnswers`,
`FindSibling` and `ReadEnds` are what a read may come to. `Exit`, `ExitStoring` and
`Boot` are a crash anywhere, one between an upload's row and its job, and `recover` with
`recoverStuckReads`. `Cases` has of the queue only its outcome; `ReadQueue` has of the
workflow only what may happen to a row. Each leaves the other free to do at least what
it really does.

**ClaimQueue, ClaimFiling.** The first keeps for each import the file on disk, the
engine's copy, the worker of its owner and the slot all share, and of its records one
word, `saved`. The second looks inside: each record of each attempt with its status, its
case and its file; `UndoImport` is `claim-undo.js` whole, `FileAsCase` is `_asCase`.

**Services.** In `Accounts` a hash or a comparison is an await: a request `Starts`, and
ends on whatever the account has become; `crossed` marks one whose sessions were ended
meanwhile. `SignInLock` has the counters per address and per email. In `XeroConnection` a
call to Xero is two steps, Xero's and ours, and `alive` is what Xero would still take.
`FxBoard` has one pair of currencies: the live board, the table of rates, the day's
close, and callers between asking and writing, one for each of `Somebody`; `behind` holds the
receipts a restart, an unanswered lookup or a stand-in close may have left at an earlier price. `RateSweep` orders the lines without a
rate by the last try. `KeyPool` has the queue, the keys' minutes, the cooling pairs and the
drain with its one timer; what one asks next is picked by place (`InOrder`), as the code's
`splice` and `filter` leave it. `Migration` is `db/migrate.js` step by step, each with its stamp,
from every database an earlier build can have left, with `preflight` as an operator.

**Pages.** `CaseCover`: the form, one save at a time, polls read and landing apart, the
record of whose a field is, and what the AI writes. `CaseUploads`: the page's rows and
slots against the routes, with lost answers. `CaseReview`: the form over a receipt's two
parts on two pages. `PhoneCapture`: codes, phones and the dialog. `IntakeStream`: the
stream, the poll and a tab that is hidden. `Assistant`: a turn in rounds, cards with a claim
and its age. `Allowances`: rates, policy, its cache and the dialogs, with each claim a row that has an id.

**Algorithms.** `FileReading`, `ReceiptReading`, `ClaimReading`, `PrintedRecord` and
`CaseHistory` step through the stages of the code over sets of inputs; `MailIntake` does
so for a mail while posts, claims and restarts go on (`Written`: nobody writes to an address
that has still to be given).

## 3. What is checked

Components that share nothing run in one instance, one at a time: a variable `part`
says which one moves, the others stay as they began. Counts are distinct states.

| run | instance | shows |
|---|---|---|
| `cases` 810,976 | 2 receipts, 2 cases, 2 handlers waiting; two posts of mails and zips | `CasesHold`, `ClaimedChecked`, `ClaimedCaseFrozen`; `MailHolds`, `NothingUnsaid` |
| `posting` 733,933 | 2 receipts, 1 case with 2 covers, 2 posts within their marker | `PostsHold`, `BillSaysCase`, and `RegisterSpec`: it implements the register |
| `files` 708,414 | 1 receipt, 2 days to claim on, 2 posts that may outlive their marker; 9 layouts of a file, thousands of answers and of claims, histories of two receipts | `SameCaseSameBill`, `BillKept`, `MarkerNeverStuck`; `FilesHold`, `ReadingsHold` |
| `receipts` 1,376,052 | 2 files of one person, a sibling, a restart; 2 receipts on their pages; a trip with a per diem and a drive | `QueueHolds`, `NoRowLeftReading`, `AwakeWhileWaiting`, `TypedStays`; `ReviewHolds`; `AllowancesHold`, `PaidByRates` |
| `read_queue_ends` 239,815 | 2 people and one place, a restart | `EveryReadEnds` |
| `services` 941,679 | each service alone | `FilingHolds`, `NothingElseTaken`, `XeroHolds`, `AccountsHold`, `LockHolds`, `FxHolds`, `PricedAsTheDaySays`, `PoolHolds`, `MigrationHolds` |
| `ends` 50,383 | 2 imports with a restart; 4 lines without a rate; requests to 2 models; a page with 2 faults | `ImportsHold`, `EndedStaysEnded`, `EverythingEnds`, `CatchesUp` |
| `client` 981,827 | a phone and 2 photos; a cover of 3 fields; a folio and a zip of it; 2 printouts; a card | `CaptureHolds`, `ShownStays`, `CoverHolds`, `UploadsHold`, `RecordHolds`, `AssistantHolds` |

**Why the bounds are enough.** A claim needs one receipt inside a case and one outside
that wants in; a merge or a move needs two cases; two waiting handlers give every overlap
of a pair, and a handler reads and writes one receipt. A takeover needs two posts. The
case whose bill went unheard, reopened and claimed on another day, gives a second bill, and claimed
on the first day again must get the first, so two days and two bills are enough. The
queues compare two jobs at a time; one busy delay gives `MAX_ATTEMPTS = 3`, so every mix
of busy, failed and last attempt occurs; one restart finds every state of the first life.
Two admins may remove one another; two calls to Xero may race; two tokens are the old and
the new one; a line that can be priced needs one that cannot, ahead of it, with a batch of
one. A form needs one field being sent, one being typed in and one the AI has. Every bound is
a constant marked `bound:` where it is declared, and stands in the guard of the action it limits.
Receipts, cases, posts and files are interchangeable where `SYMMETRY` is used, and never in a
run with a liveness property. Deadlock is not checked: every one of these systems may rest
when nobody asks anything of it.

**Fairness.** Nobody is made to press anything, and no restart, failure or lost answer is
made to happen. `PostFairness`: a post goes on and a marker ages, because a request is
answered or times out and time passes. `ReadQueue!Fairness`: a pending timer or
`setImmediate` fires, a waiting job becomes due, a stopping process exits (the drain is
bounded at 6.5 s) and is started again (pm2). A read is *strongly* fair: the event loop
serves an answered or timed-out request however often the worker is woken in between, and
`tick`, during which nothing else runs, comes back again and again. `EveryReadEnds` is
under `TryingAgainStops`: whoever presses Try now on failed reads for ever keeps starting
reads, and Try now leaves a job its old place in line. `ImportFairness`: a worker and an
engine go on, both in memory and without a person. `SweepFairness`: the interval fires, a
provider answers or fails, an hour passes; its part of `EverythingEnds` asks that the process stays up
from some time on. `PoolFairness`: the drain and its timer run; a call ends, a pair has cooled
and a minute passes, strongly, because other requests come between. `StreamFairness`: the
server's stream sends, a page hears, tries again and polls; `CatchesUp` asks nothing while the tab
is hidden.

**Left out of an instance on purpose.** `posting` has no handler waiting for a rate, because
a late rate breaks `BillSaysCase` (finding 1); `cases` has no re-read asked of a row
that is still being read; `receipts` has no restart inside a split (finding 2) and no job
that comes due between two looks at the clock; `services` files nothing before the import does
(finding 4). Each is a constant, and its other value shows what happens; section 5 has the list.

## 4. What the code does otherwise

Each of these is a run with `expect: violation` and an entry under `findings`.

1. `posting_late_rate`: `applyFx` does not look at the case again after its await. The rate of
   a receipt in a claimed case is asked for again, which details allow until the post; the post
   begins; the rate lands while the bill is on its way, and the case no longer says
   what was posted, against `bills.js`'s "what is read now is what is posted".
2. `read_queue_cut`: after a restart in the middle of a split file the new read makes the
   siblings again and releases only its own; the first ones stay 'reading' until the next
   restart, and the parts are there twice.
3. `claim_poisoned`: an import interrupted in its last attempt is neither retried nor
   marked failed by a boot that finds nothing else of its owner's waiting.
4. `claim_filing_early`: an import files the ids it saved several awaits earlier and looks
   at no lock, so it pulls a receipt out of a case claimed meanwhile.

## 5. Known limits of what holds

What the models show beside those, each kept out of a property by the condition named.

*Posts and reads.* The idempotency key is of the contact and the whole invoice. A case whose
reply was lost and which is then reopened may be claimed on another day, or with another title,
purpose or advance: its key is another, and Xero makes a second bill beside the one nobody heard
of, so `SameCaseSameBill` speaks of bills that say the same. The account codes
depend on whether the chart could be read, and the contact on the claimant's name: a retry
without the chart, or after a change of name, makes a second bill of an unchanged case (`Setting`).
Reopening a case touches `updated_at` and makes a dead post's stale marker fresh again; a post
that waits longer than ten minutes may put its bill on a case that was reopened (`SlowPosts`).
A re-read asked while the row was being read may uncheck a receipt of a case claimed since
(`Background`). A retry that comes due between `_pick`'s look at the clock and `_arm`'s is
neither started nor given a timer, until anything else wakes the worker (`ClockInTick`).

*Files and rows.* Typed pages read together that come back unusable, beside scanned pages
that read, get no row and no note (`PagesAccounted`). A bill whose total is repeated by a
misread tax row and another row, or of one unit beside two empty rows, loses its only charge
(`BillStands`). `_itemsAccountForTotal` compares dollars with cents; `_sum` adds a positive
discount that `addsUp` takes off. A row changed to an item keeps a hidden `on`.

*Mail.* A message's PDF prints its date in the company's zone, so changing the zone between
two deliveries makes two receipts; the day's limit is checked before awaits and counted after
(`LimitNearlyKept`); a case claimed between two files of a mail makes the rest skipped.

*Pages.* `ExpenseReview` locks its boxes only while saving, and its loads are not numbered; a
save that settled before the following act failed lets a poll replace what was loaded, and old
lines go out again, as they do when a save ends after its person moved to the next receipt; a part saved before the other failed, then put back by hand, is not sent.
`NewCase` sends Create while an older save may be under way. `CaseActivity`'s `earlier` takes its
number after a load has begun, and its page may be put after the fresh first one. The mileage
preview can be a cent below what the server adds; a mileage add whose answer is lost adds twice
when pressed again; merging two cases can leave two per diems. The assistant's panel drops the
conversation on any error, and a rate card checks before `overrideFx`'s await and writes after.

A per diem is worked out here to the half cent; the code multiplies by a binary share and may
be a cent less at an exact half, and a travel-day share keeps two decimals where `Share` has whole
percents. A mail that cannot be parsed is answered 400 and changes nothing, which is no step here.

*Services.* A Xero refresh or sign-in that ends after a disconnect writes its tokens back; a
sign-in under way while the password changes gets a session of the new version (`crossed`); a
boot that rebuilds the people's table runs without one index until the next (`anew`).

*History.* Two moves in the same five seconds of receipts deleted since may be paired with the
wrong row; a stay that began under another name of the case shows only its leaving (`Lost`).

## 6. What is proved

Every theorem is for any receipts, cases, people, files, days and limits, from the named
assumptions on the constants (`CasesAssumption`, `PostingAssumption`,
`ReadQueueAssumption`, `ClaimQueueAssumption`, `ClaimFilingAssumption`,
`SignInLockAssumption`, `AccountsAssumption`, `XeroConnectionAssumption`,
`FxAssumption`, `PoolAssumption`, `MigrationAssumption`, `AssistantAssumption`,
`CaseUploadsAssumption`, `CaseCoverAssumption`, `PhoneCaptureAssumption`, `MailAssumption`,
`AllowancesAssumption`, `FileAssumption`, `PrintedAssumption`, `ClaimAssumption`,
`CaseReviewAssumption`, `ToldApart`). They say that limits are
numbers, that what is counted is finite, that the words for "none" are no member's name, that the parts
of one mail or zip are told apart, and that the reader's printed rows are rows `validate` takes
(`Placeable`: the parser's `_finalRows` keeps no others); the runs evaluate them. A condition that
a theorem has of its own (`~SlowPosts`, `~FilesEarly`, ...) is a constant of the
module, one that the passing run gives the same value and section 4 or 5 shows is needed;
`ReviewStaysHeld` has a condition on the behaviour (`LooseSave`), said below.
The proofs follow one pattern: an
inductive invariant, one lemma per action or group of actions, and PTL at the end.

**Cases.** Claims whole, single and dangling nowhere are together inductive (`Coherent`), none
alone: a claim of a case is only whole because no receipt in an unclaimed case is claimed
already, and a deleted row leaves nothing behind because it is in no case. From it
`ClaimedStaysFrozen`; `ClaimedStaysChecked`, if no re-read is asked of a row being read;
`CasesHeld` puts them together with the numbers.

**CasePosting.** `PostInv` says the marker is the lock, while no post outlives it: a live
post's case is claimed, without a bill and marked, there is one such post per case, and one
that is attaching has its bill recorded (`PostsStayHeld`). `CaseMoves` is all it needs of the many
actions of `Cases`. `ImplementsRegister`: every step maps to a step of
`ClaimRegister` or to none. `BillAlwaysSaysCase` adds `PostedInv`, what a live post built is
what its case says, and that nothing in a held case changes its figure (`LinesKept`); that is
where a waiting rate would break it. `CoverKept` is the
same of its title, its advance and its day. `OneBillForTheSame` rests on the key being the
content: two bills of one case that say the same differ in nothing, if what comes from outside
the case stays as it is (`\A x, y \in Setting : x = y`); `BillStaysKept` on `RecordBill` filling only an empty
field. These two hold for posts that outlive their marker as well.

**ReadQueue.** `Held` ties a job to its run and its row: a job 'reading' in a live process
has a run, and nothing typed in is 'reading'. From it `QueueStaysHeld` and
`TypedStaysTyped`. `RowsReleased` (no restart inside a split) needs that a row being read
has a *live* job. `AlwaysAwake` (no job coming due inside a tick): what the tick leaves waiting is
not yet due and has the timer, or is held back by a limit of at least one.

**FileReading.** `FilesStayHeld`, for files of any length and any limits, by `FileInv`. A question has
one answer (`HeardInv`); the whole file is asked for first and alone, and no page is in two questions
(`AsksInv`); a row is of a receipt of an answer that was heard, of a page of text or of a page of a
batch, no two rows are of the same, and no page that is still asked about has a row (`PartsInv`);
every page is covered by a row, named in a note, or still to be asked about (`AccountInv`); and
what a re-read landed is the row's own (`RereadInv`). Without `AsksInv` a page could come to a row
twice, and without `AccountInv` nothing says what the last answer leaves unmentioned.

**CaseReview.** `ReviewStaysHeld`, by `ReviewInv`: what a GET says, and what a page shows, is not ahead
of the server (`Older`, `ShownInv`): a part written since, or a receipt gone, stays so (`Behind`). GETs
shown as out of date come before those that are not, there is one of each kind, and one asked by the
page itself covers every check made before it (`Fits`), because the page checks nothing while it
waits for its own. A box says what was loaded or what was typed (`BoxInv`), and a save that is the
person's is of the receipt on screen (`Typist`), so a part it leaves out is one the server has.
The condition, `[]~LooseSave`, is that no save is under way whose person moved on, or pressed the
button with nothing typed since the last save: such a save compares its lines with another
receipt's, or with what a save that settled before the following act failed had left, and section 5
says what comes of it. `ChecksStayShown` needs no such condition: `SeenInv` is what `ReviewInv` says of GETs and checks.

**ClaimQueue.** `ImportsStayHeld`, by `ImportInv`: for each job the file on disk, the
engine's copy, the payload and what is in the database agree (`JobInv`), and the count of the
slot is the number of busy jobs, one for each owner who is busy (`SlotInv`, over finite
sets). `Oldest` exists because numbers are well-founded. `EndedNeverComesBack` is the action
property from it: only a busy job is written to, and a busy job has not ended.

**ClaimReading.** `ClaimsStayRead`, by `ClaimInv`. Of the entries of an archive those kept and those left
out are counted by a one-to-one list, whatever the walk's order and its limits (`UnpackTells`). The matcher
takes the best pair of those still free until none is left: what it has taken is counted by
how many lines it used, so it ends with no pair free, and a pair it did not take lost one of its two to
one at least as good (`SuitsNext`, `AssignedSuits`). A line is known by its form and its row, and no two of
the joined lists of all forms have one key (`LinesInAre`).

**ClaimFiling.** `FilingStaysHeld`, by `FilingInv`: while an attempt saves, what it has still to
save is not there and whatever an earlier attempt left is in a case (`SavingInv`), so a file has
one live record (`OneLive`) and is not a twin of its own import's. `RemovedRowsKeeps` and
`UndoLeaves` say what taking back leaves. `NothingElseIsTaken` is the pair of action properties,
where nobody files the records of a running attempt themselves.

**Services.** `LockStaysHeld`: until an address is locked its count is at least what it tried, and
its comparisons under way are no more than all of them (`FewAtOnce`, by a product of finite
sets). `AccountsStayHeld`: a request that began found somebody there, and a session never
carries a version to come. `XeroStaysHeld`: a token in an answer nobody has read works and is
nobody else's (`Unread`), and if the one on file does not work, the call that used it up is still to
be heard (`OnFile`); numbers no call has been given yet are no token (`Numbered`).
`FxStaysHeld` and `PricedStaysAsTheDaySays`, by `FxInv`: an open receipt is at the price its day
says (`AtPrice`) or something is still on its way to it (`OnItsWay`): a caller that waits, a
walk of the day's close, a sweep to come. Trying to prove them showed two instances too small: with two
receipts and two people, a day with neither a close nor an admin's rate, and a table that was
given the day's row while a lookup was out, broke what had been stated; the statements now say
which days and which lookups they are about. `PoolStaysHeld`: the queue is the set of the requests
that wait, each once, whatever is put in its middle or taken out of it (`PutIn`, `TakenOut`); a drain stops only for a
timer or a call that runs; and words read from an attempt end it. Whoever is picked has a pair to
ask because the pairs are all keys with all models (`PairsAre`) and a place of any rank exists (`RankTaken`).

**Migration.** `MigrationStaysHeld`, by seven conjuncts: where a boot is in the list of steps, the
shape of each table at each stamp, and rows, columns, rates, sessions and the board at that
shape. Each says of step *n* what is true once its stamp is there *or* its work is done and only
the stamp is missing (`Past`), which is what makes a boot cut in between safe to run again.

**Client.** `AssistantStaysHeld`: what is being applied was claimed, once, until the claim goes
stale (`ApplyingInv`); a card's columns agree (`CardInv`); and only the turn under way has
cards without an answer (`TurnInv`). `UploadsStayHeld`: a row and what works on it go together and
a waiting file may still be sent (`PageInv`); what the page knows is in the case and what an
answer left out of the list is not (`FilesInv`). `CoverStaysHeld`: whatever a person last said of a
field is typed and unsaved, on its way as typed, or saved *and theirs* (`Said`), the last
because the AI only writes what is not (`RefreshKeeps`); what it fills in is a day because a
set of days has a first and a last (`MaxMin`). `CaptureStaysHeld`, by `CaptureInv`: codes are
numbered as they are made, and a sign-in that ended took all of its own with it (`LinkInv`); a page sends
one photo at a time, and an answer that says a photo is there was given once it was (`PhotoInv`); a
page never believes its link fuller than it is (`LeftInv`); and what is being stored is counted with
what a code has taken (`StoringInv`). `ShownNeverVanishes` is the action property of the dialog.

**PrintedRecord.** `RecordsStayHeld`, by `PrintedInv`: in the page's rows and in the record alike a row
stands on a row that may hold another and is the one it was printed under, and among *any* rows one
stands under none of them (`Placeable`). The second is what "in no circle" has to say to be kept: it is
why every row is drawn (each round draws one more) and why climbing from a row to what it stands
on never comes back. Insert, remove and split move every `on`; each is shown to keep `Placeable`
by where its rows came from (`Origin`, `AlteredKeeps`). The lines come to the total because the last line over
which a figure is divided takes the remainder, so the parts come to the whole whatever was rounded, and what
the lines still lack goes on the claimant's own line, or all of it stands on that one where that is too much.

**Intake.** `MailStaysHeld`, by `MailInv`: a post under way is for somebody it was addressed to
(`PostsOk`), what a person's mails were counted plus those past the limit and not counted yet is below
the limit and the posts there can be (`CountsOk`), and `FilesOk` is of the files kept.
`NothingLeftUnsaid`: what a mail and the zips in it come to is a list joined of lists, in which each
name stands once (`NamedOnce`), and the answer so far has said every name up to where the post is
(`SaidInv`).
`AllowancesStayHeld`: the page and the server look a rate up by two different searches, and
`SameRate`, `SamePlan` and `SameDrive` say they come to one figure; the rest is
of what kind the forms' values are (`FormsOk`). `AllowancesArePaidByRates`: the lines of a trip, one for
each rate in force on a day of it, come to what its days come to, each at its own rate, because a day is of
exactly one rate (`OneRateADay`), the rates are few (`IsFiniteSet`) and a sum is the same whichever of a
set is taken first.

Three things of the prover's shaped the modules: it misreads an `@` inside a nested EXCEPT, which is
written out; it loses well-founded induction where a community module is instantiated LOCAL, so
`Seqs` and `Sets` are named instances; and the library's theorems of induction take an operator,
which no prover here can instantiate. Where a sum or a flattened list has to be reasoned about, the
function the library's fold builds is shown to exist from the least place where it could first fail
(`WalkExists`, `StagesExist`), and a set of those a property holds of stands for the operator
(`OneByOne`, `StageByStage`). `Counting` has these, and what is known of joined lists, once for all the proofs.

**Only model-checked.** Liveness (`MarkerNeverStuck`, `EveryReadEnds`, `EverythingEnds`,
`CatchesUp`), which is out of the prover's reach. Of `ReadingsHold`, `RowsHold` and `HistoryHolds` speak of selections,
merges and pairings over sequences of any length, each of which needs a theory of its own, and
`FormIsRead`, of `ClaimReadHolds`, compares what is read with a mark of the input that the code
does not see (`isClaim`), so it is about the forms of the run.

## 7. Plan

1. *Done:* the modules of the table, their runs, the theorems of section 6.
2. Proofs: `RowsHold` and `HistoryHolds`, with what `Counting` has of sums and stages.
3. Models: the rest of `routes/reports.js`, the tools of the assistant that write, and the page
   an import is followed on.

## 8. Not modelled, and why

Text and layout (parsing of mails and spreadsheets, prompts, PDF and spreadsheet rendering),
which keep no state the properties speak of; settings pages and lists, which show what the
server answers; backups. A failing write to the local database is not modelled: the queue
logs it and a boot puts it right. Two processes on one database are not modelled: the program
says one process reads, and pm2 is configured with one. What a folded definition computes is
proved where section 6 says so, and elsewhere checked over the inputs of the runs.
