# Formal model of pdv

TLA+ specifications of this point-of-sale system – the transactions in which
several requests, row locks, clocks, caches and crashes decide whether the data
stays right, and the arithmetic and the queries around them –, the TLC runs
that check them on small instances, and TLAPS proofs of their safety
properties for every number of requests and rows, all amounts and texts.

- [1. The system](#1-the-system)
- [2. Modules and how they correspond to the code](#2-modules-and-how-they-correspond-to-the-code)
- [3. Runs](#3-runs)
- [4. Proofs](#4-proofs)
- [5. What the work showed](#5-what-the-work-showed)
- [6. Not modelled](#6-not-modelled)
- [7. Plan](#7-plan)

## 1. The system

`backend/` is one Go HTTP server over PostgreSQL (and Valkey for caches and
rate limits); `frontend/` has two React applications and the packages they
share. Several server processes may run; all state that matters is in
PostgreSQL. Every command handler runs one transaction (`WithTx`) at READ
COMMITTED: concurrency control is explicit row locks (`FOR UPDATE`), the
locks of `UPDATE`s and foreign keys, unique indexes and triggers. There are no
background jobs, queues or retries in the server.

| Component | State | Operations | Interacts with | Correct means |
|---|---|---|---|---|
| `sales` | `sales`, `sale_items`, number counters | create, add/update/remove item, cancel | checkout (sale row), products (price snapshot) | a closed sale never changes; totals follow the items |
| `checkout` | writes sale, payments, inventory, movements, fiscal document | checkout | sales, inventory, payments, fiscal | everything or nothing; stock is taken once; no deadlock among baskets |
| `inventory` | `inventory`, `inventory_movements` | entry, adjustment | checkout (inventory rows) | quantity equals the chain of movements, never negative; a reference is booked once |
| `fiscal` | `fiscal_documents` | emission after checkout | checkout, provider | every completed sale gets a verdict |
| `payments`, `receipt`, `catalog` | none of their own | queries | sales, products, inventory | a receipt adds up to what was paid; searches stay in their store |
| `products`, `categories` | catalogue rows | create, update, (de)activate | sales, catalog | unique SKUs, barcodes, names and slugs; nobody else's rows |
| `stores` | `stores`, `payment_methods` and their bindings | create, edit, activate, deactivate, archive; methods and bindings | organizations, sales | no open sale in an inactive store; one active store and one method remain; a store can be paid at |
| `organizations` | `organizations` | create, rename, archive | memberships, sessions | archiving ends access |
| `memberships` | `organization_memberships` | change of status | roles, sessions | an active owner remains |
| `roles` | roles, scopes, role bindings | custom roles, create/delete binding | memberships, authorization versions | no grant beyond one's own; an active owner remains |
| `invitations` | `organization_invitations` and bindings | create, resend, revoke, accept | memberships, sessions, mail | one pending per address; acceptance makes a member; ended is ended |
| `sessions` | `auth_sessions`, `auth_refresh_tokens` | create, rotate, revoke one/all | auth, organizations, memberships | one live token per session; an ended session has none |
| `auth` | `users`, action tokens | register, login, password, email, context | sessions | old credentials open nothing; tokens carry current scopes |
| `platform/authn`, `authz` | session cache, touch throttle | check of access tokens, scope guard | sessions, roles | an accepted token is current |
| `platform/ratelimit` | counters in Valkey, in-process fallback | allow | auth, invitations | limit per window, waiting times that are kept |
| `audit` | `security_audit_events` | insert in each transaction, listing | everything (foreign keys) | an event commits with its change; a reader of the pages misses none |
| frontend `packages/auth`, `packages/http` | access token, refresh in flight, tab lock | refresh, retry, broadcast | sessions | one refresh at a time |

What is hard: rows read before a lock wait and used after it; statements over
many rows whose snapshot is older than their locks; foreign keys and audit
inserts that lock rows nobody mentions; opposite lock orders in different
packages; work done after the COMMIT, which a crash loses; answers lost and
requests repeated; handlers without a transaction, whose lookups are stale when
they write; scopes and sessions copied into tokens and caches; one amount
computed by four pieces of code. `PROJECT.json` lists these hazards with their lines and the
properties that cover them.

## 2. Modules and how they correspond to the code

All modules share one reading of a request. A request handler `r` is a record
`req[r]` with a program counter; `idle` means that it has no transaction. A
transaction is cut at the statements where it can wait or be observed: locking
reads, `UPDATE`s, inserts under a unique index or a foreign key, and the
COMMIT. Tables hold committed rows; what a transaction is going to write is in
its record and appears with its COMMIT. A lock is a function from rows to the
request that has it; a statement that must wait is an action that is not
enabled. A bulk `UPDATE` or locking count takes a snapshot of its rows and then
visits them one by one, waiting for each and testing the row again as it is
then (EvalPlanQual). `Crash` is the death of a process, a lost connection, a
cancelled context or a failing statement: the transaction is rolled back at any
point. `Abort` is PostgreSQL's deadlock detector: it rolls back a member of a
cycle of waiting requests. Refusals that leave no trace are left out.

### StoreLedger – what a store promises

The serial specification: `EditSale`, `CancelSale`, `CompleteSale`,
`OperateStock` and `SettleFiscalDocument`, each in one step, over `status`,
`basket`, `payments`, `fiscal`, `tracked`, `stock` and `log` (the movements of
a product in the order of the lock on its inventory row). Its properties are
stated here: `StockFollowsMovements`, `SoldExactlyOnce`,
`SettledIffCompleted`, `ReferenceAppliedOnce`, `ClosedIsFinal`.

### PointOfSale – the transactions that implement it

`internal/checkout`, `internal/sales` and `internal/inventory`, extending
StoreLedger with locks and requests.

| Action | Code |
|---|---|
| `StartEdit`, `CommitEdit` | `sales.Service.AddItem`, `UpdateItem`, `RemoveItem` |
| `StartCancel`, `CommitCancel` | `sales.Service.Cancel` |
| `StartStockOperation`, `CommitStockOperation` | `inventory.Service.CreateEntry`, `CreateAdjustment` |
| `StartCheckout` | `checkout.Service.Checkout` up to the validated payments |
| `MoveRow`, `RejectRow` | `applyInventoryChanges`; `IncreaseInventory…`, `DecreaseInventoryForStore` and the movement |
| `CommitCheckout` | `createPayments`, `CompleteSale`, `CreateFiscalDocument`, COMMIT |
| `AuthorizeFiscalDocument` | `authorizeFiscalDocument`, after the COMMIT |

A basket maps products to quantities; prices, discounts and amounts are left
out, and the payments of a sale are their number. Further properties:
`ReadsStayValid` (what a transaction read is still true), `LocksAscend` and
`NoLockCycle`, all proved; `RequestsFinish`, and `FiscalSettles`, which the
code does not keep (section 5); and the refinement `LedgerSpec`: the concurrent
system is the serial one.

### AuthSessions – sessions and refresh tokens

`internal/sessions` with login and password change of `internal/auth`. A
password is its version; a refresh token is `ABSENT`, `LIVE`, `CONSUMED` or
`REVOKED`. `ReadCredentials` verifies the password before the transaction,
`LockCredentials` rechecks it under the user lock. Refresh locks the token
(`LockRefreshToken`), then the session (`LockRotatedSession`), then inserts the
child (`CommitRotation`); a consumed token goes to `MarkSessionCompromised`.
Logout locks the session first and then sweeps its tokens; logout-all and
password change visit all sessions and all tokens (`SnapshotSessions`,
`VisitSession`, `SnapshotTokens`, `VisitToken`, `CommitSweep`). `born` and
`asked` are history. Properties: `OneLiveToken`,
`EndedSessionHasNoLiveToken`, `ActiveSessionsKnowThePassword`,
`LogoutAllIsComplete`, `NothingRevives`, `LocksProtect`, and
`AlikeNeverDeadlock`: the package has no lock order of its own, but a login is
never part of a deadlock, and refreshes, logouts of one session and password
changes do not lock each other out. Whether a session is past its deadlines is a choice (`expired`).

### Memberships – members, owners and invitations

`memberships.UpdateStatus`, `roles.CreateBinding` and `DeleteBinding` for the
owner role, `invitations.Create`, `Resend`, `Revoke`, `Accept`, and
`organizations.Archive`, for one organization. The organization row has two
locks: `orgLock` (`FOR UPDATE`) and `orgShared`, the KEY SHARE lock of every
insert that refers to it, notably audit events. `joining` and `inviting` are
uncommitted keys of the two partial unique indexes. KEY SHARE locks on
membership rows are left out; they only block more. The actor's scopes are
those of its token and are not modelled, except that granting ownership and
inviting an owner look up an active owner in the database. `ReadNoMembership`
may happen although the user has a live membership: rows are ordered by
`created_at`, the start of the inserting transaction, so a removed row can be
the latest. Properties: `LastOwner`, `OnePerUser`, `OwnersSerialized`,
`AcceptedJoins`, `OwnersInviteOwners`, `EndsStand`, `ReadsProtected`, and
`DeadlocksCountAgainstGrant`: a deadlock has an owner count and a grant or an
acceptance in it, and no other handler is ever a victim.

### StoreDesk and SaleRegister – stores, payment methods and the opening of sales

`internal/stores` and `sales.Service.Create` for one organization. Locks are on
the organization row (`X` for `FOR UPDATE`, `S` for the foreign key of an audit
event), on store rows and on the row of a store in `sale_number_counters`.

| Actions | Code |
|---|---|
| `CheckStoreStatus` and the steps after it | `setStoreStatus`: organization, store, count of active stores, open sales |
| `CreateStore` | `CreateStore` with its copy of the active methods |
| `CheckMethodStatus` … | `setOrganizationPaymentMethodStatus`, `ReplaceStorePaymentMethods`, `UpdateStorePaymentMethod` |
| `AllocateNumber` … | the parts of `CreateSaleForStore`: lookup of the key, number, insert, and the second lookup after a conflict |

`SaleRegister` is the abstract promise about idempotency keys and numbers; the
mapping takes the rows of `sales` to its set of opened sales (`RegisterSpec`).
Other properties: `OrganizationRetains` (an active store and an active method,
although each deactivation counts what the others leave), `KeepsOperational`
(an active store does not lose its last way to be paid), and
`OpenSalesInActiveStores`, which the code does not keep (section 5).

### PaymentMethodRules – what a payment method may be

`normalizePaymentMethodInput` and `toPaymentMethodResponse` beside the CHECK
constraints of `payment_methods`, over all combinations of kind, fee,
installments, days and provider. `RuleHolds`: what the service accepts the
database accepts, and what is shown can be sent back, which changes no digit of
the fee and does not switch the method.

### Decimals and SaleTotals – money

`Decimals` has the parsers, the multiplications and the printers of `sales`,
`checkout`, `receipt`, `inventory`, `catalog` and `products` as operators on
`int * 10^exp`, and compares each with a reference definition and with the
others (`AmountsAgree`, `TextsReadExactly`, stated in `MCMoney`). `SaleTotals` is the life of one sale in cents and thousandths: items
with price snapshots, header totals, the validation of payments, their rows and
the receipt, while products and payment methods are changed, also between two
statements of a checkout. A row the CHECK constraints refuse is not written
(`Storable`); PostgreSQL's `ROUND` takes a half away from zero (`HalfAway`), Go
takes it up, and the database subtracts the discount before it rounds.
Properties: `RefusedOnlyAtHalfCents` (the constraints refuse nothing that the
service accepts, except a line of a half cent that is given away entirely:
section 5), `CheckoutAgreesWithSales`, `CompletedIsPaid` (payments, change and the receipt add up to the total). Locks
and stock are in PointOfSale. `MCMoney` joins these three modules: its variable
`sample` hands one value to the converters or to the rules before the sale
begins, so that pure functions are checked in the same run.

### Catalogue – products and categories

Handlers without a transaction: every statement is a step, and each lookup may
be stale at the write. The table `products` is `products`, its ids are
`ProductIds`. Names are short sequences of letters, so that `slugify`
can be what it is. Properties: `RacesAnswered` (the loser of a race gets the
conflict the lookup would have given), `SwitchKeepsEdits`, `OwnRowsOnly` (no
step changes a row of another organization or gives a product a category of
one). The unique indexes are part of the insert and update steps.

### Listings – pages, filters and tenants

Ten listings with count and select as two statements each, each with every
optional clause of its text: statuses, searches, categories, types of
movements, periods, addresses, and the six columns an audit event can be asked
for. No handler sets the filter for types of movements. A client walks through the pages while rows are inserted and change. `OwnTenantOnly` and
`TotalIsComplete` are about the WHERE clauses of all of them (the latter also
says that no audit page wraps around), `NothingMissed` about the audit trail,
memberships and invitations, in which a row never moves forward. A page that the
service does not accept ends the walk (`refused`). `table` holds the rows of
the listing that is walked; `Tenants` are the organizations, `Labels` the
names, `Unset` is a filter that asks for nothing.

### Accounts – registration, mail and passwords

`auth` with `users`, and action tokens under the lock of the user row. Time
passes between the steps of a request, and a transaction keeps the time it
began at; whether addresses must be verified (`requireVerifiedEmail`) is chosen
at the start. Properties: `OneLiveToken`, `TokensUsedRightly`,
`VerificationAnsweredAlike`, `RegisteredWhole` (one account for a mailbox, and
none without its organization). Suspension of a user has no code in
the server (an operator does it) and is external.

### Access – roles, scopes and access tokens

Roles, bindings with expiry, the authorization versions of organization and
membership, the context of a session, and tokens that were signed. A step is
one statement of `resolveContext` or the part of a transaction of
`roles.Service` between two locks. `AcceptedTokensAreEarned` compares every
token the middleware would accept with what its member has now;
`NobodyGrantsMoreThanTheyHold` compares what members gain with what the actor
could pass on.

### SessionUse – deadlines, cache and touch

A session in time: rotation, revocation, the two reads of the middleware, the
copy in Valkey with evictions that may be lost, and the touch in its own
goroutine. Properties: `RefusedAfterEnd` (a request that began after the COMMIT
of a logout or password change is not served) and `ServedWithinDeadlines`.

The `MC` modules add symmetry sets and the values of constants for TLC; the
modules ending in `Proofs` hold the theorems.

## 3. Runs

| Run | Instance | Checks |
|---|---|---|
| `pos` | 2 requests, 2 sales, 2 products, 1 reference, crashes, fairness | the promises of the store, refinement of StoreLedger, no cycle of waiting requests, every request ends |
| `pos_fiscal_crash` | 1 request, crashes, fairness | **violated**: a crash after the COMMIT leaves the document PENDING for ever |
| `sessions` | 3 requests, 1 user, 2 sessions, 3 tokens, 1 password change, crashes | one live token, ended is ended, old passwords open nothing, logout-all is complete; which requests can deadlock |
| `members` | 2 requests, 2 memberships, 2 users, 2 invitations, crashes | an owner remains, owner changes are serialized, acceptance joins, ends stand; deadlocks are those of owner counts with grants or acceptances |
| `money` | 2 items, 1 product with 2 prices, 2 quantities, 3 discounts, 1 method, 1 change; 9 amounts, 10 quantities, texts with up to 5 decimals; all combinations of the rules of a method | totals, payments and receipt agree to the cent, the database refuses lines of half a cent given away and nothing else, the packages compute, read and print alike, rules of service and database agree |
| `desk` | 2 requests, 2 stores, 2 methods, 2 codes, 2 keys, 4 numbers | an active store and method remain, an active store keeps its way to be paid, refinement of SaleRegister |
| `desk_open_sales` | 2 requests, 2 stores | **violated**: a sale is opened in a store that is not active |
| `catalogue` | 2 requests, 2 organizations, 2 products, 2 categories | answers, edits and tenancy under stale lookups |
| `listings` | 10 listings with their filters, 2 rows, pages of 1 and 2, 3 stores of 2 organizations, integers up to 3 | tenants, totals, and walks that miss nothing |
| `accounts` | 2 requests, 2 users, 2 mailboxes, 2 slugs, 3 tokens, 2 password changes, crashes | tokens work once, in time, for the password they were asked for; nothing is registered by halves |
| `access` | 3 members, 4 roles, 1 store, 1 session, 1 token, 2 role handlers | no accepted token has more than its member, nobody passes on more than they hold |
| `session_use` | 2 handlers, 1 session, 5 instants | nothing is served after the end or the deadlines |

Why these bounds are enough to be interesting: every race named in the hazards
is between two handlers. Two products suffice for a lock cycle, two sales for
two baskets that overlap, three tokens for a parent, its child (with the reuse
of the parent) and the token of the other session, two sessions for a sweep that
is overtaken between visits, a third request for cycles of three. Two
memberships are two owners each of whom counts the other, two invitations are
two of one address. Larger instances of the point of sale and of Memberships (a
third request, a third membership row for a removed member who joins again)
gave the same results and take too long to be repeated; there the proofs of
section 4 hold for every size.

In `desk` the second store is one that is created while the first is closed or
a method is switched; four numbers leave room for numbers lost by conflicts.
The prices and quantities of `money` give products on both sides of half a
cent, and discounts below, at and above the gross value, a whole half cent among them; the tenders cover cash
with and without change, wrong sums, and installments around the 16-bit edge.
Three tokens of `accounts` are one that was used, one that was replaced and one
alive. In `access` one token of a clerk is enough, because tokens do not
influence each other; the manager holds one scope of the store and not the
other. `session_use` opens its session at instant 0 (`LastLogin`), may refresh
it once before the absolute deadline, and goes on past both deadlines.
`MaxInt = 3` stands for `math.MaxInt32`, the largest offset of a page; two rows
do not reach the page that is refused for it, which the theorem covers.

Five instances have a state constraint. `OneSubject` lets a run look at one
subject of a module at a time, in one instance: stores, payment methods or
sales (`desk`); products or categories (`catalogue`); the tokens of one user or
the registration of two (`accounts`); grants, or the session of a clerk while
one thing about the clerk, the store or the organization changes (`access`).
The subjects meet where they touch the same rows (a new store copies the
methods, status changes race with sales); pairs that share none are not
interleaved. `Bounds` of `listings` makes the client one of the first store, as
stores and organizations are alike, and takes pages of one only where walks are
checked: the audit trail, and memberships and invitations without filters.

Bounds named in the guards: `MaxPayments`, `MaxVersion`, `MaxNumber`,
`MaxChanges`, `MaxTokens`, `MaxTime`, `LastLogin`. When the ids of a
set run out, the insert fails (`OutOfIds`) as a failing statement would.
Symmetry is used in safety runs only, over sets whose members the
specifications never tell apart.

The deadlock check is on where requests go on for ever (the point of sale,
sessions, members, the desk). It is off where a model comes to its end: the
clock stops at `MaxTime` (`accounts`, `access`, `listings`, `session_use`), a
sale is closed or a sample taken (`money`), ids run out (`catalogue`).

Fairness (`FairSpec`, of PointOfSale only) is strong fairness of each handler's
next statement. The code justifies it: goroutines are
scheduled, handlers have no loop that gives up, PostgreSQL queues waiters of a
row lock and wakes them in turn. Arrivals and crashes are not fair: no client has to come back, and
a crash only ends a request early. The other modules state safety only: a
transaction of theirs is a bounded list of statements, so that what could keep
it from ending is a deadlock, and `AlikeNeverDeadlock` and
`DeadlocksCountAgainstGrant` say which there can be.

For each property a mutant of the model (an operator whose comment begins with
"Mutant") makes a mistake the code could contain – a missing `FOR UPDATE`, an
unchecked status, keys that are not sorted – and TLC finds the property
violated.

## 4. Proofs

| Module | Theorems |
|---|---|
| `PointOfSaleProofs` | `LedgerCorrect`, `LedgerFinal` (the serial store keeps its promises), `Invariance`, `ReadsValid`, `TypeCorrect`, `Serializable`, `NoLostUpdate`, `NoDoubleSale`, `SettledTogether`, `RetriesApplyOnce`, `ClosedForGood`, `AscendingLocks`, `NoDeadlock` |
| `AuthSessionsProofs` | `SessionsInvariance`, `SessionsTypeCorrect`, `OneTokenToRotate`, `LogoutEndsRefresh`, `OldPasswordsOpenNothing`, `LocksProtectReads`, `LogoutAllEndsAll`, `AlikeRequestsProceed`, `EndsAreFinal` |
| `MembershipsProofs` | `MembersInvariance`, `MembersTypeCorrect`, `OwnerRemains`, `OneMembershipPerUser`, `ReadsStayTrue`, `OwnerChangesSerialized`, `AcceptanceJoins`, `OwnerInvitesByOwners`, `EndsAreKept`, `DeadlocksFound` |
| `StoreDeskProofs` | `StoreDeskInvariance`, `OrganizationKeepsItsLast`, `StoresStayOperational`, `SalesAreRegistered` |
| `AccountsProofs` | `AccountsInvariance`, `OneTokenCounts`, `TokensAreUsedRightly`, `RegistrationIsWhole`, `LinksAnsweredAlike` |
| `AccessProofs` | `AccessInvariance`, `TokensAreEarned`, `GrantsAreHeld` |
| `SessionUseProofs` | `SessionUseInvariance`, `EndedIsRefused`, `DeadlinesHold` |
| `ShopProofs`, money | `RowsCorrect`, `DatabaseRefusesOnlyHalfCents`, `CheckoutFindsNoDifference`, `CompletedSalesPaid`, `LinesAgree`, `AmountsSound`, `TextsSound`, `MethodRows`, `MethodsSound` |
| `ShopProofs`, products and categories | `GoodsCorrect`, `LosersAnswered`, `EditsKept`, `RowsOwn` |
| `ShopProofs`, listings | `EveryPlace`, `ListingsSound`, `TenantRowsOnly`, `TotalsComplete`, `WalksComplete` |

They hold for any sets of requests, sales, items, products, categories, users,
sessions, tokens, memberships, invitations, stores, methods, roles and rows of
listings, for any natural prices, discounts and payments, with and without
crashes where the module has them, and without the state constraints of the
runs. The theorems about SaleTotals speak of its own `Spec`; the run `money`
also takes samples, and the lemma `MoneyRefinesSale` says that this changes
nothing of the sale.
Assumed, by name and in the modules that declare the constants:

- ids, times and bounds: product ids and quantities are natural numbers,
  quantities are positive, bounds, times to live and clocks are natural, a
  token lives for some time, `None` is none of the ids, `Crashes` is Boolean;
- finite sets: the products (a lock cycle would need a last row), the
  memberships (they are counted), the requests at the desk (each at work has
  a number left under `MaxNumber`) and the items of a sale (they are summed);
- amounts: cents, thousandths and discounts are natural numbers, quantities
  positive (`AmountsNatural`), what is tendered is a list of payments
  (`TendersAreInputs`), samples are natural amounts and texts of digits with at
  most seven decimals (`SamplesAssumption`). The last and the hypotheses of
  `LinesAgree` on exponents are there because the powers of ten that come up
  have to stay within 10^11: beyond, the proofs have no table of them;
- catalogue and listings: category names are not empty (`NamesAreTexts`), every
  store has one organization, ids are numbers, so that they have an order
  (`ListingsAssumption`). `WalksComplete` has the hypothesis `FewRows`:
  there are not more memberships or invitations than an offset can say, because
  their services, unlike the one of the audit trail, do not check the offset;
- first states: a store and a payment method exist (`FoundedStores`,
  `StartedMethods`); the first roles and bindings are rows of their tables
  (`FirstTables`); requests to `roles.Service` are of the five kinds it has and
  name known members and roles (`RequestsAreKnown`).

The argument is the same each time. None of the properties is inductive: that a
checkout may write `status = COMPLETED` depends on what it read several steps
ago. The strengthening says, for each step a transaction can be at, what it
relies on: its locks, and the facts under them. TLC checked each strengthening
of a transaction, and those of Catalogue and Listings, on the instance of the
module's run before it was proved.

| Module | What the inductive invariant adds |
|---|---|
| PointOfSale | `ReadsStayValid`: `SaleHeld` and `RowsHeld` for every request; for deadlocks `LocksAscend` and `LocksOwned` |
| AuthSessions | `LocksProtect`: `UserHeld`, `TokenHeld`, `SessionsHeld`, `TokensHeld` |
| Memberships | `ReadsProtected`: `OwnersHeld`, `MemberHeld`, `InvitationHeld` |
| StoreDesk | `RequestsFit` (which lock is held at which statement), one writer of the organization or readers, one holder of a counter; `RequestsRely`: another active store, another method, a payable set is there from the check to the COMMIT; `SalesNumbered`: numbers given are behind the counter |
| Accounts | addresses are normalized; a live reset was asked for with the password of now (`ResetsFresh`); an event of the audit trail means a consumed token, used in time by a user who is verified since (`EventsRight`) |
| Access | versions are never of the future; tokens and half-resolved contexts are earned **if** their versions are current (`TokensEarned`, `Resolving`); at most one handler holds a role that can change (`RolesLocked`), and what it is going to write is within what its actor could pass on (`Writing`) |
| SessionUse | deadlines in rows, pending touches and states that were read are bounded by opening and last refresh; a request that came too late works on a session that is over, then on a state that refuses it (`Relies`) |
| SaleTotals (`Inv`) | the rows are typed, each line is priced, the header is the sums of the lines, and while a checkout is paying its validated payments come to the total and obey their rules |
| MCMoney (`SampleOK`) | the sample is one of the samples; the rest is about the operators |
| Catalogue (`GoodsInv`) | typed rows; a request at work is about a row that is not there yet or is its own organization's, however old its lookup is (`Sound`); no two requests make one row (`Apart`); a product's category is its organization's |
| Listings (`ListingOK`, `Walked`) | what was read is there and of the tenant; a row that was there at the beginning and was not read yet is not on a page before the next one |

In the first three a lemma `Frame` shows that a step of another request keeps
what a request relies on if it respects the locks (`Undisturbed`); `Combine`
leaves for each action its own request and the tables. In Memberships `Undisturbed`
has to say more: the owner set is protected by the organization row, whose
lock the writers of owners never take but wait for through a foreign key, and
absence of a row is protected by an uncommitted index key. StoreDesk has the
same lemma with the two modes of the lock on the organization. Access and
SessionUse have no lock around their reads; there the lemma is about what every
step does: `Versioned` (a change of a role shows in the version of the
organization, one of a binding in that of the member) and `Onward` (no
step reopens a session, brings a password back or forgets a refresh).

What can deadlock follows from a second, simpler invariant (`AllPlaced` in both
modules): where a transaction is when it has a row, and which row of its own
that is. So a member of a cycle is at a step that waits and at one that has
something somebody waits for, which for requests of one kind are different
steps, or steps about a row that both would have locked.

The handlers of Catalogue hold no locks: each step is put down to one of three
kinds (a step that changes no row, one that writes a product, one that writes a
category), and the invariant and the three action properties are proved for each
kind. In Listings the argument of `WalksComplete` is that the number of rows
before a row only grows while a client reads; so a row that is not among the
first `page * size` is later not among them either, and the count, which
is taken after the select, still sees it.

The arithmetic would be proved by induction, which the prover does not offer
over data. Every such fact is proved by taking a smallest counterexample
instead:

- sums over finite sets: a smallest set on which two sums differ, from the
  library's theorem that strict inclusion of finite sets is well-founded
  (`SumDifference`: the sum of differences is the difference of the sums);
- sequences and folds: the smallest length or position at which they go wrong;
- order: the place of a row is the number of rows before it; under a strict
  order these numbers are different and below the number of rows, hence all of
  them occur (`EveryPlace`);
- rounding: the nearest multiple, a half going up, is unique and does not depend
  on the scale in which numerator and denominator are written, so all four
  multiplications give the same cents (`LinesAgree`);
- digits: a fraction read from the front has the value of its digits; cut after
  its first digits it leaves a rest, which is 0 exactly if only zeros follow; the
  remainder of a division is unique. So a text is exact or refused
  (`TextsSound`), and a printed amount is read back (`AmountsSound`).

For the store, the properties are not proved about the concurrent system at
all. `StepRefines` shows that each COMMIT is a step of StoreLedger and
everything else a stutter (the refinement mapping is the identity on the
tables, since uncommitted writes are kept out of them), hence `Serializable`,
and the theorems about StoreLedger carry over. `SalesAreRegistered` is the
second refinement: inserting a sale is the step of SaleRegister, and the counter
lock and `SalesNumbered` make its number new. `NoDeadlock` is proved by taking
the last of the rows that the requests of a cycle wait for: its holder waits
for a later one. That a finite set of products has a last one is taken from the
library's theorem that strict inclusion of finite sets is well-founded.

Only model-checked:

- `RequestsFinish` (of PointOfSale) and `FiscalSettles`, because the prover
  cannot reason about fairness or ENABLED; `OpenSalesInActiveStores` is false,
  as `FiscalSettles` is.

Everything else that the passing runs check is a theorem: invariants, action
properties and refinements.

Several theorems have no run of their own: `SettledIffCompleted`,
`ClosedIsFinal`, `ReadsStayValid`, `LocksAscend`, `NothingRevives`,
`LocksProtect`, `OnePerUser`, `OwnersInviteOwners` and `ReadsProtected` are
proved for every size and not repeated on a small instance.

## 5. What the work showed

- **A fiscal document can stay PENDING for ever** (`pos_fiscal_crash`). The
  emission runs in the handler after the COMMIT; if that is cut short, a retry
  of the checkout is refused with `ErrSaleAlreadyCompleted`, and
  `fiscal.Service.Authorize` has neither route nor caller.
- **A sale can be opened in an inactive or archived store**
  (`desk_open_sales`). `setStoreStatus` looks for open sales under locks that
  the insert of a sale does not ask for; the insert waits for the COMMIT, does
  not look at the status, and succeeds. In an archived store such a sale can
  be neither paid nor cancelled.
- The comment at `memberships/store.go:122` says that owner-changing
  operations are serialized on the organization row. `CreateBinding` and
  `Accept` never lock it. The statement is nevertheless true
  (`OwnerChangesSerialized`), but only because their audit events have a
  foreign key on the organization and are written in the same transaction: a
  mutant without that insert breaks it.
- For `LastOwner` the lock on the organization and the locks on the owners'
  rows protect twice: without the former TLC still finds no violation.
- **The database refuses a line the service accepts** (`money`). A discount may
  be as large as the rounded line (`sales/service_commands.go`, "cannot be
  greater than the item subtotal"), which leaves a total of 0.00; the constraint
  `sale_items_total_consistency` subtracts before it rounds. For 0.01 * 0.500
  with discount 0.01 it wants `ROUND(-0.005, 2)`, which is -0.01, because
  PostgreSQL rounds a half away from zero. The constraint is not among those
  `translateSaleMutationError` knows: the client gets an internal error. That
  these are all such lines is `RefusedOnlyAtHalfCents`; without its exception
  TLC finds this one.
- Lock orders conflict: refresh against logout (token, session), owner count
  against grant or acceptance (organization, membership), two logouts of all
  sessions, two presentations of spent tokens of one session (each has one of
  the tokens, one the session). PostgreSQL aborts one of them, no partial effect
  remains, and the client sees an internal error. It cannot happen to a login,
  to two tabs that refresh, or to two owner counts.
- A completed sale is final only thanks to the check in the service: the
  statement `CancelSaleForStore` would cancel it as well.
- A user whose latest membership row is a removed one although a live one
  exists cannot accept an invitation: the unique index refuses, and the handler
  answers with an internal error. `OneMembershipPerUser` is safe there.

Read from the code on the way, without a run of their own:

- A store can be made active again without a payment method: methods are
  protected for active stores only.
- `consumed_at` is also set on action tokens that were replaced, although the
  comment of the column speaks of use.
- A late touch takes the extension of a refresh back: it writes the deadline
  its request had read. Otherwise a touch writes the same deadline again, so
  requests never slide it; only a refresh does.
- A sale discounted to 0 cannot be checked out (no payment may be 0), only
  cancelled. Checkout validates a method by its activity in the organization;
  the binding of the store decides only at the insert, which then inserts
  nothing: internal error, rolled back. A method's fee is shown exactly by
  `stores` and rounded to two decimals by `payments`. Installments below
  -32768 wrap around in `int16`: -65533 is accepted where 3 is, and stored as 3.
- Numbers of sales have gaps: a repeated creation may take a number and lose it.
- A category name without letter or digit has an empty slug, and a product with
  a category of another organization violates a foreign key: both answers are
  internal errors. `categories.Update` compares ids as text.
- Listings that count first (sales, products, catalog, inventory) can leave out
  a row inserted between their two statements, and listings ordered by name can
  skip rows. The listing of movements always answers with page 1 of size 20.
  Only audit refuses a page whose 32-bit offset would wrap. `sales.Get` reads
  header and items by two statements.
- `NOW()` is the start of a transaction: a request for a token that began
  before, and got the user lock after, another one violates
  `auth_action_tokens_consumed_at_check` and fails.
- A member whose own binding runs out can pass it on without an end, and a
  grant that was compared before its actor lost the role still commits.
- At the very instant of a deadline Go (`now.After`) and SQL (`> NOW()`) differ.
  The cached versions of users, organizations and memberships are written and
  deleted but never read; `ExpireSessions` has no caller. The sessions of a
  suspended user work again when the user is active again.
- `main` returns when `Shutdown` begins, not when it ends: a stop is a crash
  for the requests that are running.

## 6. Not modelled

HTTP, JSON, configuration, process start and stop; cryptography (password
hashes, signatures, token digests, fingerprints); SMTP; which route asks for
which scope; fiscal numbers and access keys, and `fiscal.Service.Authorize`,
which nothing calls; the account that accepting an invitation may create; the
rate limits, whose counters no other component reads and which only refuse
requests early;
`organizations` rename; contents of audit events. Queries that read one row by
its id are left out.

The React applications, and the refresh runtime of `packages/auth`: it has no
caller yet, and the configuration it installs
(`packages/auth/src/runtime/configure-http.ts`) is not the one the Axios
interceptor reads (`packages/http/src/auth-transport-configuration.ts`), so how
the parts work together is not decided. When it is, three places deserve a
model: `bootstrap` refreshes outside the tab lock, so that two tabs opened
together use one refresh token twice; the two generation counters (`localGen`
in the coordinator, `generationRef` in the runtime) advance at different rates
when several callers share a refresh, after which `doRefresh` returns without
one; and an answer that arrives after a `logout` message sets the token again.

## 7. Plan

Done: StoreLedger, PointOfSale, AuthSessions, Memberships, StoreDesk over
SaleRegister, Accounts, Access, SessionUse, PaymentMethodRules, Decimals,
SaleTotals, Catalogue and Listings with their runs and proofs.

To model: the refresh runtime of the frontend, once it is wired; the serial
specification of Memberships, with the transactions shown to implement it.
