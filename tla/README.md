# Verification of the NestJS enterprise starter

TLA+ models of the application's own logic, the TLC configurations that check
them on small instances, and theorems that TLAPS proves for every instance.
Paths below are relative to the repository root; `auth/` abbreviates
`src/modules/auth/`.

The application is one NestJS process (or several behind a balancer) over one
PostgreSQL database reached through Prisma. There are no explicit transactions
except one (`TwoFactorRepository.replaceCodes`), no row locks and no version
columns; PostgreSQL runs each statement at READ COMMITTED. Each handler is a
chain of awaited statements; Node runs it without interruption between two
awaits, and all handlers in flight interleave at the awaits. That is where the
hard behaviour of this code lives, and the models have one action per awaited
statement for that reason.

## Inventory

| Component | State | Operations | Interacts with |
|---|---|---|---|
| Refresh-token sessions (`auth/refresh-token.service.ts`, `.repository.ts`) | table `refresh_tokens`: user, hash, expiry, `revoked_at`, `replaced_by_id` | issue, rotate, revoke, revokeAll | called by authentication, password reset and change |
| Authentication (`auth/auth.service.ts`, `auth.controller.ts`, `strategies/jwt.strategy.ts`) | none of its own; handler locals | register, login, second factor, refresh, logout, logout-all, change password | users, sessions, 2FA, audit and domain events |
| Account lockout (in `auth.service.ts`, `users.service.ts`) | `failed_login_attempts`, `locked_until` | count, lock, clear | login, password reset |
| Password reset (`auth/password-reset.*`) | `password_reset_tokens`, the password hash | request, reset | mail, users, sessions |
| Two-factor (`auth/two-factor.*`) | `two_factor_enabled`, secret, recovery codes | setup, enable, disable, verify, consume a recovery code | login, users |
| TOTP (`auth/totp.util.ts`) | none | base32, HOTP, verification window | two-factor |
| Users (`src/modules/users`) | table `users`, soft deletion | create, update, remove, list | everything |
| Roles (`src/modules/rbac`, `common/guards`) | `user_roles`, `role_permissions` | assign, remove, resolve, authorise | JWT strategy, guards |
| Files (`src/modules/files`) | table `files`, objects on disk | upload, download, remove | storage provider |
| Notifications (`src/modules/notifications`) | `notifications` | welcome reaction, mark read | event bus, mail |
| Audit (`src/modules/audit`) | `audit_logs`, append only | emit, record, list | event bus, request context |
| Listing (`common/dto`, `common/utils/sort.util.ts`) | none | page metadata, sort parsing | every list endpoint |
| Exception filter, envelope, rate limit, health, metrics, logging, Redis, configuration, bootstrap, seed | process state only | — | — |

What makes each correct, and what is hard about it:

* **Sessions.** One presented token yields one successor; a retired token is
  recognised; a purge ends what it was meant to end; nobody receives another's
  session. Hard: check and update are separate statements, a purge may overlap
  a rotation, a stop or a lost answer may fall between any two statements.
* **Authentication.** An account that is inactive is not served; every request
  is answered. Hard: the account is read once and used later.
* **Lockout.** The n-th consecutive failure locks; a success resets; a lock
  ends. Hard: counter, lock and clear are separate statements decided on a
  snapshot taken before a slow password check.
* **Password reset.** A reset token changes the password once, within its
  lifetime, and ends all sessions. Hard: read, password, used mark,
  invalidation and purge are five statements.
* **Two-factor.** 2FA is active only for a confirmed secret and with its own
  recovery codes; each recovery code is spent once. Hard: enrolment spans
  requests, consumption is read-then-write.
* **Users.** One account per e-mail; removed accounts stay removed. Hard: check
  then insert; updates by id alone.
* **Roles.** A request is allowed what its principal held when resolved.
* **Files.** A visible row has its object; removal is final. Hard: two stores,
  no transaction.
* **Notifications, audit.** Reactions neither break nor delay the request; a
  record is never altered. Hard: errors are swallowed, the order is free.
* **TOTP, listing.** Pure functions: correct against a reference definition,
  including 32-bit arithmetic and the boundary values.

`PROJECT.json` lists all components with their status, and the hazards of this
code at the lines where they bite.

## Plan

Modules in order; the most important behaviour came first.

1. **Done:** `RefreshTokens`, `LoginSession`, `RefreshTokensProofs`.
2. **Done:** `AccountLockout`, `AccountLockoutProofs`: login attempts on one
   account under concurrency, and how many wrong passwords they can try.
3. **Done:** `PasswordReset`, `PasswordResetProofs`: reset tokens, password and
   sessions, with the logins and refreshes that race them.
4. **Done:** `TwoFactor`, `TwoFactorProofs`: enrolment, challenge and recovery
   codes; `Totp`: its algorithms.
5. **Done:** `Directory` (users, roles, guards, seed) and `Listing` (pages and
   sorting) with `DirectoryProofs`; `Files` (objects, rows, audit trail) with
   `FilesProofs`; `Notifications` (welcome reaction and inbox) with
   `NotificationsProofs`.
6. **Done:** the refinement of `LoginSession` by `RefreshTokens` taken one
   request at a time, in `RefreshTokensProofs`.
7. **Done:** what the documentation promises of the other components, as
   theorems under the hypothesis that certain statements do not overlap
   (`ApartThreshold`, `ApartSingleUse`, `ApartOneTime`), and two more abstract
   specifications, `Enrolment` and `Credential`, which `TwoFactor` and
   `PasswordReset` implement under such hypotheses.
8. **Done:** base32, and the pages of a list joined, for every length, in
   `TwoFactorProofs` and `DirectoryProofs`.

## Modules

### RefreshTokens

The table and the four endpoints that read and write it, with the activation
flag of the account. Correspondence with the code:

| Model | Code |
|---|---|
| `owner`, `revoked`, `replacedBy`, `expired` | columns of `refresh_tokens`; times are abstracted to "set" and "passed" |
| `last` | how many rows exist; ids number the rows in order of creation |
| `active` | `is_active` and not soft-deleted |
| `req[r]` | the locals of a handler: operation, next statement, presented token, whether its secret is right, row created, answer |
| `delivered` | tokens a client has received: what requests can present |
| `root`, `shut` | history, read by no guard: the login a row descends from, and the requests whose account was inactive since they arrived |
| `CheckCredentials`, `IssueSession` | `validateCredentials`, then `issue` from that snapshot |
| `RotateInvalid`, `RotateReused`, `RotateValid` | the branches of `rotate` after its one lookup |
| `IssueSuccessor`, `Link` | the insert, then the UPDATE by id that sets `revoked_at` and `replaced_by_id` whatever they held |
| `LoadUserActive`, `LoadUserInactive` | the re-read of the user in `refresh` |
| `Purge` | `revokeAllForUser`, one UPDATE |
| `LoadActor` | the JWT strategy's re-read before logout-all |
| `LogoutNothing`, `LogoutFound`, `LogoutLookupFails`, `RevokeOne` | the branches of `revoke`; the secret is not compared, and any rejected lookup is swallowed |
| `Reply`, `Fail` | the answer arrives; or a statement rejects, the process stops, or the connection is lost |
| `Expire`, `SetActive` | time; `UsersService.update` and `remove` |

Abstractions. The secret of a token is a flag of the request. Statements on one
row are atomic, as in PostgreSQL. Signing a token and emitting audit and domain
events change no state modelled here and are folded into the neighbouring
statement. Registration issues its session as a login does. Lockout and the
second factor only decide whether a login reaches its insert, which
`CheckCredentials` leaves open. `Fail` covers rejected lookups of `rotate`
(answered 401) and every 500. A row that is already revoked is not expired
further, since every reader tests `revoked_at` first.

### LoginSession

What the sessions promise without requests, rows or crashes: open, rotate to a
token never current before, end and stay ended. `RefreshTokens` maps to it by
taking as current token of a login its one unrevoked row that is the first of
the login or that a predecessor links to; a rotation takes effect at `Link`, so
a successor inserted by a handler that never got further does not count.

### AccountLockout

The two lockout columns of one active account and the login attempts on it.
Accounts share nothing here, so one is enough; what an inactive account answers
is in `RefreshTokens`.

| Model | Code |
|---|---|
| `failed` | `failed_login_attempts` |
| `lock` | `locked_until`: null, in the future, or passed |
| `att[r]` | the locals of `validateCredentials`: next statement, whether the password is the right one (`good`), whether the row as read held a counter or a lock (`dirty`), answer |
| `guesses`, `lost`, `oldFailures`, `oldLock` | history, read by no guard but the bound on `lost`: wrong passwords since the last unlock, attempts that ended between a wrong password and its lock, and who read a counter or a lock nobody has cleared since |
| `FindLocked`, `FindOpen` | the SELECT and the test of `locked_until` against the clock |
| `VerifyWrong`, `VerifyRight` | `argon2.verify`, a rejection of which counts as a wrong password |
| `Count`, `Lock` | `handleFailedLogin`: the atomic increment, then the UPDATE that locks |
| `Clear` | `clearLoginFailures`, only when the row was read dirty |
| `SetPassword` | the UPDATE of `setPassword`, at any time, for a reset or a change |
| `Reply`, `Fail` | the attempt ends; or a statement rejects or the process stops |
| `LockEnds` | time |

Abstractions. The password is a flag of the attempt. Emitting the audit event
of a lock changes nothing here and belongs to `Lock`. What follows a success
(second factor, session) is not part of this module. Two things the model shows
and the code leaves so: an expired lock keeps the counter at the threshold, so
one more failure locks again; and the UPDATE of `Lock` may land after a success
or a new password has cleared the row, which leaves the account locked with a
counter of zero.

### PasswordReset

One account: its password, its reset tokens and its sessions, with the
forgot, reset, change, login and refresh requests on it: every statement that
inserts a row of either table or stores a password. It takes up the session
table of `RefreshTokens` again, reduced to "live", and adds which password each
session descends from.

| Model | Code |
|---|---|
| `password` | `password_hash`, as the number of the password stored (its era) |
| `tokens`, `mailed` | `password_reset_tokens`: unused, expired or used; and which of them the owner ever received |
| `sessions`, `handed` | `refresh_tokens`: revoked or not, and the password verified by the login it descends from; and which tokens a client holds, to refresh with |
| `req[r]` | the locals of a handler; `tokensSeen` and `sessionsSeen` are history: how many rows there were when it stored its password |
| `overtaken`, `excused` | history, read by no guard: requests about to insert a session while the sweep went by or was lost; sessions inserted so, their successors, and those a lost sweep left |
| `ForgotFind`, `CreateToken`, `Mail` | `request`; an inactive account and a lost mail are answered alike |
| `ResetDenied`, `ResetAccepted` | the SELECT by hash and the tests of `usedAt` and `expiresAt` |
| `SetPasswordByToken`, `MarkUsed`, `InvalidateAllForUser`, `RevokeAll` | the four statements of `reset`, in this order, none conditional on the one before |
| `VerifyCurrent`, `ChangePassword` | `changePassword`, and the credential check of a login |
| `RefreshReused`, `RefreshDenied`, `RefreshAccepted` | `rotate`, decided on the row as its one SELECT returned it; a reuse sweeps all sessions |
| `InsertSession` | the session a login opens on the strength of the account as it read it, or the successor that a refresh inserts for the row as it read it |
| `Link` | the UPDATE by id that revokes the row presented; an account found inactive after it has its sessions swept |
| `Expire`, `Fail` | time; a statement rejects or the process stops |

Abstractions. The secret of a reset token is its id: only who received the mail
presents it, and `BeginGarbage` presents anything else. A wrong current
password, a gone account and a locked one are one refusal; so are an expired
refresh token and a wrong secret. The SELECT of the account that follows `Link`
is part of its choice. A logout is left out: it revokes one row, which `Link`
and the sweeps do as well, and inserts none; what it promises is in
`RefreshTokens`.

### Credential

What an account's password promises, with no requests in view. A reset is one
step that replaces the password by a token and takes every other token and
every session with it; a change takes the sessions; sessions are opened, by
login or in exchange for another, with the password of the day, and may be
closed. `PasswordReset` maps to it so that both take
effect at the UPDATE of the password:

| `Credential` | in `PasswordReset` |
|---|---|
| `password` | `password` |
| `usable` | the tokens that are unused, and those a reset has read as unused and not yet spent; none while a reset stands between its password and the UPDATE of all tokens |
| `open` | the unrevoked sessions, each with its era; none while a reset or a change stands between its password and its purge |
| `issued`, `opened` | the ids handed out |

A token or a session created in such an interval is swept at its end and never
counts, which is why `Issue` and `OpenSession` may leave `usable` and `open` as they
are.

### TwoFactor, Enrolment and Totp

`TwoFactor` is one active account with its two columns and its recovery codes.

| Model | Code |
|---|---|
| `enabled`, `secret` | `two_factor_enabled`, `two_factor_secret`; a secret is the number of the setup that made it |
| `unused`, `used` | `two_factor_recovery_codes`; one code stands for each batch |
| `challenged` | a challenge token exists; it is neither bound to one use nor ended by one |
| `SetSecret` | `setup`, which asks nothing of the account |
| `EnableDenied`, `EnableVerified`, `SwitchOn` | `enable`: SELECT and check, UPDATE of the flag |
| `DeleteMany`, `CreateMany` | the transaction of `replaceCodes`: what its DELETE saw, then the INSERT and the COMMIT that makes both visible |
| `NotVerified`, `VerifyTotp`, `NoTotp`, `FindUnused`, `MarkUsed`, `MarkGone` | `verifyCode` and `consumeRecoveryCode`, for a disable and for a login |
| `SwitchOff`, `DeleteCodes` | `disable` |
| `LoginDenied`, `LoginChallenge`, `LoginDirect`, `BeginSecond`, `IssueSession` | the two steps of a login |

The transaction is not serialised against another one: at READ COMMITTED its
DELETE goes by the rows committed when it began (`doomed`), so two enables that
overlap leave two batches. Two that delete the same rows wait for each other in
PostgreSQL; whoever comes second finds them gone, which taking them out of the
set again comes to.

A request carries a code of a secret or a batch that has been made (`Known`), or
a wrong one: nobody has the code of a secret that is still to be drawn. Enables
and disables take six digits only (`TwoFactorCodeDto`), which no recovery code
is, so recovery codes are spent by logins alone.

`Enrolment` is what the enrolment promises, with no requests in view: a secret
is prepared, confirmed, activated with a batch of codes in one step, and
deactivated with its secret and codes in one step; a code is spent once.
`TwoFactor` maps to it with `active` as "the flag is set and there are rows of
codes", so that an enable takes effect at `CreateMany` (for the first time)
and a disable at `SwitchOff`; codes left after that are no longer among `codes`.
`prepared` and `issued` are the numbers of setups and batches so far. A secret
may be replaced while the factor is active, in the abstract as in the code:
`setup` does not ask. That this leaves 2FA on with a secret nobody confirmed is
the finding of `two_factor_unconfirmed`.

`Totp` holds the pure functions of `totp.util.ts`. An integer is its 32 bits,
so that `value << 8` loses the same high bits as in JavaScript; bytes and
base32 characters are groups of bits. `Hmac` is a parameter: HMAC-SHA1 is the
crypto library's, and what follows is taken of any 20 bytes it may return.
`Truncate` is the dynamic truncation, with the sign that the topmost byte gives
an integer of 32 bits, and `Remainder` JavaScript's `%`, which keeps it. A code
is a number; that leading zeros are padded and compared is formatting. Codes of
different steps may coincide, in the model as in the code.

### Directory and Listing

`Directory` is the table of users with the roles they hold, and every endpoint
that administers them, behind the guards.

| Model | Code |
|---|---|
| `users`, `held` | `users` (e-mail, active, deleted) and `user_roles` |
| `Grants` | what the seed grants to `admin` and `user`, as the operations they open |
| `LoadRefused`, `LoadActor`, `Authorize` | the JWT strategy's SELECT of the account, its SELECT of the roles, and `AuthorizationGuard` on the result |
| `FindGone`, `FindTarget`, `EmailTaken`, `EmailFree` | the lookups of `create`, `findOne`, `update`, `remove` and of the account in `RbacService.resolve` |
| `FindRole` | the lookup of the role, after that of the account; an unknown name is a 404 |
| `Insert`, `Update`, `SoftDelete`, `AssignRole`, `RemoveRole` | the writes, all by id alone; an update writes the fields it was given, e-mail or flag or both, by one UPDATE |
| `IndexAllows`, `IndexRefuses` | the unique index on the e-mail, which does not look at `deleted_at`; its refusal is a 500 |
| `Reseed`, `ReseedCreates` | the seed run again: the account is made active, its `deleted_at` stays |

A request that has passed the guards does not look at its actor again, so the
model forgets it there. Names, passwords and search filters are data.

`Listing` has the arithmetic every list shares (`Skip`, `TotalPages`,
`HasNext`, `HasPrev`, `Paginated`) and `parseSort`. The list of rows is given;
that a row inserted between the SELECT of the page and that of the count makes
the two disagree is outside of it.

### Files

| Model | Code |
|---|---|
| `objects` | files that have an object on disk, whole or not |
| `row` | `files`: none, live, deleted |
| `pending`, `recorded` | audit events emitted and rows of `audit_logs` |
| `Refuse`, `Save`, `SaveFails`, `CreateRow`, `Emit` | `upload` |
| `GetOrThrow`, `Read` | `findOne` and `download` |
| `Unlink`, `UnlinkFails`, `SoftDelete`, `Emit` | `remove`; a failed unlink is logged and the removal goes on |
| `Record`, `Lose` | `AuditService.record`, beside the request |
| `broken`, `leaked`, `silent`, `calm` | history: where a step was lost, and which downloads no removal disturbed |

### Notifications

| Model | Code |
|---|---|
| `accounts`, `notes` | `users`, `notifications`; the welcome is the only notification the code creates, so a note is named by its owner |
| `reaction[u]` | where `handleUserRegistered` stands for this account's event |
| `FindByEmail`, `InsertUser`, `Announce`, `IssueSession` | `register`: the check of the address, the row (or a 500, when the unique index refuses the second of two), the emit (in which the listener runs up to the mail), the session |
| `MailSent`, `MailFails`, `CreateNote`, `NoteFails` | the reaction, with its one `try` |
| `FindByIdForUser`, `MarkRead`, `MarkAllRead` | marking; the UPDATE of one note is by id and does not repeat the test |
| `FindMany`, `CountRows` | the list, whose two statements answer in either order, and the unread count |

### Proof and MC modules

A module `XProofs` holds the theorems about `X`; `DirectoryProofs` also those
about `Listing` and `TwoFactorProofs` those about `Totp`, for which they extend
the MC modules that state the properties of these functions. `Counting` holds
lemmas about how many requests are at a place, which four of them share, and
induction up to a last number (`Least`, `UpTo`); see *Proofs*. The modules whose names begin
with `MC` name users and requests and
define their symmetry. `MCTwoFactor` and `MCDirectory` also choose, in the
initial state and for that state alone, an input of `Totp` (a key) or of
`Listing` (the length of a list and of a page), so that TLC evaluates the
functions once per input. What `ParseSort` does is left to a theorem.

## Runs

| Run | Instance | What it shows |
|---|---|---|
| `tokens_concurrent` | 1 user, 2 requests, 3 rows | what every answer promises about the table holds whatever the two requests interleave to |
| `tokens_serial` | 2 users, 1 request, 3 rows | without overlap, and with stops and lost answers anywhere, the table implements `LoginSession`; users are isolated |
| `tokens_live` | 1 user, 2 requests, 2 rows, fair | every request is answered or fails |
| `tokens_fork` | 1 user, 2 requests, 3 rows | **violated:** one login has two usable sessions after two overlapping refreshes |
| `tokens_survivor` | 1 user, 2 requests, 3 rows | **violated:** a session outlives a logout-all or a reuse purge |
| `lockout` | 3 attempts in flight, threshold 2, counter up to 6, 1 lost attempt | how far overlapping attempts get past the threshold, and what a success clears |
| `passwords` | 2 requests, 3 passwords, 2 reset tokens, 2 sessions, 1 lost reset | what a completed reset or change has ended, how often a token can be spent, and which sessions outlive their password |
| `two_factor` | 2 requests, 2 setups, 3 batches; keys up to 6 bytes, 4 time steps | the second factor is required, codes are spent within a bound, the enrolment is consistent, and overlapping enables leave no more batches of codes than there are requests; base32 and the codes of TOTP |
| `two_factor_unconfirmed` | 1 request | **violated:** 2FA is on with a secret nobody confirmed |
| `directory` | 2 requests, 2 accounts, 2 e-mails, the role `user` and one that does not exist; lists up to 9 rows, pages up to 4 | uniqueness, removal, the guards; pages |
| `files` | 3 requests, 1 file | object, row and trail agree but for steps lost or to come |
| `notifications` | 2 users, 2 requests, fair | notes follow mails and owners; registrations do not wait for mail |

The properties:

* `Lineage`: `replaced_by_id` always leads from a revoked row to a younger one
  of the same user and login. It survives two rotations of one row, of which
  the second overwrites the link of the first.
* `PurgeIsComplete`: at the answer of a reuse hit, a deactivated account or a
  logout-all, every row that existed *at the decision* is revoked.
  `PurgeEndsLogins` is the documented, stronger promise (no session of an
  earlier login is left) and fails.
* `RotationRetires`: a successful refresh retired its token, linked it, and
  hands out another row of the same login. This holds under overlap too: what
  fails there is that both succeed (`OneSessionPerLogin`).
* `OneHolder`: no row reaches two clients.
* `InactiveNeverServed`: an account inactive from arrival to answer gets no
  session, although rows may have been inserted for it meanwhile.
* `LogoutRevokes`: a logout whose lookup answered left the session revoked. A
  logout whose lookup rejects is also answered 204 and guarantees nothing.
* `RowsOnlyAge`: revocation, expiry and ownership are permanent and a link is
  never cleared; the UPDATE of a logout omits `replacedById` and so keeps it.
* `Isolation`: only a request about a user revokes that user's rows.
* `ImplementsLoginSession`: the serial refinement; it includes that a login
  never has two rows a client could use, which no state of `LoginSession` is.
* `Answered`: no branch of a handler is without a successor.

* `GuessBudget`: between two unlocks at most `MaxAttempts - 1 + |Requests|`
  wrong passwords are verified, plus one for each lost attempt. The threshold
  alone is not the bound, because every attempt reads the lock before its slow
  verification; the invariant says that concurrency costs one guess per slot
  and never more. Lowering the bound by one makes TLC find a violation, so it
  is tight.
* `ThresholdLocks`: a counter at the threshold means the account has been
  locked, is about to be, or an attempt was lost between its two UPDATEs.
* `SuccessForgets`: when a success is answered, no failure counted and no lock
  set before the attempt read the row is left, although the row is cleared only
  if it was read dirty. What lands *after* that read may stay.

* `ResetCompletes`: a reset answered with success has used up every reset
  token, and a reset or change every session, that existed when it stored its
  password; rows that came in between are swept with them.
* `SpendBound`: one token stores at most one password per request slot, plus
  one for each reset lost before it marked the token. The README calls the
  token single-use, which it is while resets neither overlap nor fail.
* `OldSessionsEnd`: a live session that descends from a replaced password, by
  login or through any number of refreshes, is about to be revoked by a reset
  or change that is still running, or is excused: its sweep was lost, or went by
  between the SELECT and the INSERT of the login or refresh that made it, or of
  one that made a session it descends from. The excuse is the race of the code
  (`refresh-token.service.ts:49` and `:75`, `auth.service.ts:142`); the property
  says that nothing else keeps an old password's session alive, through any
  chain of refreshes.

* `SecondFactorRequired`: from arrival to answer of a request during which 2FA
  stays on, no session without a second factor, whatever is set up or spent.
* `CodeSpendBound`: a recovery code passes at most one verification per slot.
* `BatchBound`: there are no more batches of recovery codes than request slots.
  Two are possible, after two overlapping enables; the transaction of a third
  sees both and deletes them. A mutant that keeps the used codes breaks it.
* `EnrolmentConsistent`: without overlapping or lost changes, 2FA is on with a
  secret and one batch of codes, or off without codes. With overlapping ones it may be left
  on with no secret: an enable that verified its code before a disable cleared
  the secret. Nobody can then complete a login.
* `Base32Correct`: the encoding is that of RFC 4648 and is undone by the
  decoding, whatever the accumulator has shifted out.
* `CodesAccepted`: a code made of the stored secret has six digits and is
  accepted in its own step and the two next to it, whatever the digest; without
  the mask of the sign bit, half of the codes never match. That a code passes
  any number of times meanwhile is so in model and code, and no property.

* `OneAccountPerEmail`: by the index alone; the check before the insert does
  not suffice.
* `TakenEmailConflicts`: an address that was taken throughout is answered 409,
  never 500: the index is felt only by overlapping requests and through
  deleted accounts.
* `GoneIsNotFound`: no request about an account that was deleted throughout
  its handler succeeds, though overlapping ones do write to deleted rows.
* `GuardsHold`: nobody passes who was inactive, or lacked the permission, as
  long as the guards ran.
* `PagesPartition`: a client that follows `hasNext` sees every row once.

* `StoresAgree`, `DownloadsServed`, `TrailFaithful`: object, row and trail each
  differ from the others only where a step is still to come or was lost; a
  download no removal disturbs is served.

* `WelcomeTrace`: note, mail and account imply one another in this order, and
  an account without a note has a reaction that failed, is running or was
  lost.
* `OwnNotesOnly`: only its owner's requests mark a note, and nothing unmarks
  it; lists show the caller's notes.
* `RegistrationAnswered`: a registration is answered or lost even if its mail
  never returns.

Three findings come from the three violated runs; `PROJECT.json` quotes the
lines they disagree with.

Things the models show and the code leaves so, without a document that says
otherwise: an update that overlaps a removal may leave a deleted account
marked active (`deleted_at` decides everywhere); the address of a deleted
account can never be registered again, and trying is a 500; a password change
leaves reset tokens requested before it usable; two overlapping removals of
one file are both answered with success and both audited. One thing has a
document and no run: `two-factor.controller.ts:65` says that 2FA is disabled with
"a valid TOTP or recovery code", and `two-factor-code.dto.ts:10` refuses what is
not six digits, so a recovery code gets its owner in but does not turn 2FA off.

### Bounds

`Requests` bounds the requests in flight: two are enough for a rotation to
overlap a rotation, a purge, a logout or a login, which are all the pairs of
statements that touch one row. `MaxTokens` bounds rows: with three, a login can
rotate twice, or two rotations of one row can both complete. An arrival keeps
room for the row it may insert (`RoomForARow`), so the bound never strands a
handler; deadlock is checked in every run. The serial run has two users because
isolation and the per-login refinement need rows of several logins side by
side; the liveness run has two rows because one rotation meets every branch.
Symmetry is used for safety only.

In the other modules two requests likewise let every pair of handlers overlap
at every await; `files` has three, so that a download can watch two removals.
`passwords` needs two reset tokens (one of them requested while the other is
spent), two sessions (one before and one after a purge, of which the second may
be the successor of the first) and three passwords, so that one can be stored
over another after two that overlapped. `two_factor` needs two secrets and
two batches for an old one to be mistaken for the new one, and a third batch for
an enable that meets what two overlapping ones left; every arrival that stores one reserves room for it, so no bound stops a
handler. Keys of six bytes
fill the 32-bit accumulator and make it overflow, and cover every remainder
modulo five that leaves a partial last character. `directory` has the
administrator and one more account and address: enough for a check, a removal
and a role change to meet. Lists of up to nine rows over pages of up to four
cover exact multiples, remainders and the empty list. The one file of `files`
is enough because files share nothing; the two users of `notifications` are
one caller and one whose note is not his.

In `lockout`, three attempts let one fail, one lock and one succeed around each
other; the threshold of two is the least at which counting and locking are
different events. `MaxCount` leaves the counter room to run past the threshold
through two lock periods, again reserved at arrival, and `MaxLost` bounds the
attempts that may be lost between a wrong password and its lock.

### Fairness

`FairSpec` asks weak fairness of the statements of each handler: Node resumes a
handler whose awaited statement has settled, and Prisma settles every statement
or rejects it. Nothing is assumed of clients, time, administrators or failures:
`Begin`, `Expire`, `SetActive` and `Fail` are not fair. `FairSpec` of
`Notifications` is the same for its handlers and assumes nothing of the
listener, whose mail may be under way for ever. The other modules state safety
only.

## Proofs

`tlapm RefreshTokensProofs.tla` proves, for every set of users and requests and
every bound on rows, assuming only `NoUserAssumption` (the name for "no user" is
not a user) and `MaxTokensAssumption` (the bound is a natural number):

| Theorem | Property |
|---|---|
| `TypeCorrect` | `TypeOK` |
| `LineageCorrect` | `Lineage` |
| `PurgeCorrect` | `PurgeIsComplete` |
| `RotationCorrect` | `RotationRetires` |
| `LogoutCorrect` | `LogoutRevokes` |
| `AgingCorrect` | `RowsOnlyAge` |
| `HolderCorrect` | `OneHolder` |
| `IsolationCorrect` | `Isolation` |
| `InactiveCorrect` | `InactiveNeverServed` |

The argument. None of the invariants is inductive alone: what a handler may
claim at its answer depends on what it did three statements earlier, while
others ran. The inductive invariant is

    IInv == TypeOK /\ Control /\ Facts /\ Lineage /\ DeliveredRowsExist

`Control` says which operation each program counter belongs to. `Facts` says
what a handler has established when it stands at each statement: a rotation that
is about to link has a row of its own, younger than the presented one and of
the same user and login; after the link the presented row is revoked and
linked; at an answer the purge is complete up to its horizon. The facts are
chosen so that the steps of *other* handlers preserve them, and one lemma says
why: `StepGrows`, rows only age. `FactsStable` lifts it to the facts,
`FactsStep` shows that a handler's own step establishes the facts of its next
statement, and `Inductive` puts them together. `OneHolder` and
`InactiveNeverServed` are then proved inductive relative to `IInv`, the latter
through `ShutInv` (a request of an account still inactive has not passed its
re-check).

`tlapm AccountLockoutProofs.tla` proves, for every threshold of at least one
and every finite set of attempts (`AttemptsAssumption`, `BoundsAssumption`,
`RequestsAssumption`):

| Theorem | Property |
|---|---|
| `TypeCorrect` | `TypeOK` |
| `BudgetCorrect` | `GuessBudget` |
| `ThresholdCorrect` | `ThresholdLocks` |
| `ForgetsCorrect` | `SuccessForgets` |

`GuessBudget` speaks of guesses alone and is not inductive: it takes an account
of where every wrong password went. The inductive invariant is `IInv == TypeOK
/\ Room /\ Counted /\ Unlocked /\ Locked`. `Counted`: every guess is in the
counter, in an attempt about to count, or lost. `Unlocked`: without a lock,
guesses beyond the threshold belong to attempts about to lock. `Locked`: behind
a lock only the attempts already verifying can add one. `Room` is what makes
the bound on the counter, hence its type, inductive. All four are inequalities
over numbers of attempts at a place; `SizeMove` and `CountsMove` say how those
cardinalities change when one attempt moves, and `BudgetStep` is then
arithmetic, action by action. `SuccessForgets` needs `Debts`: an attempt that
read something nobody has cleared since is verifying with `dirty` set, failing,
about to clear, or was not answered with success. `ThresholdLocks` is inductive
given the types.

| Theorem | Says |
|---|---|
| `ApartThreshold` | under `[]Apart`, `guesses <= MaxAttempts + lost` |

What the configured threshold promises holds under the hypothesis `Apart`: no
two attempts are at once between the start of their password verification and
the lock that a wrong one may lead to. The lookup that reads the lock may
overlap anything. What makes it inductive is `Closed`: nobody verifies a
password behind a lock. Without `Apart` the bound is that of `GuessBudget`.

The refinement of `LoginSession`. `Serial` says that no two requests are in
flight at once; the hypothesis of the three theorems that follow is that it
holds throughout, with stops, lost answers, expiries and any number of requests
one after another.

| Theorem | Property |
|---|---|
| `SerialCorrect` | `ImplementsLoginSession` |
| `SerialOneSession` | `OneSessionPerLogin` |
| `SerialPurge` | `PurgeEndsLogins` |

The hypothesis cannot be dropped: `tokens_fork` and `tokens_survivor` refute
the last two without it, with two requests. The table needs `SerialInv ==
Rows /\ OneLive /\ delivered \subseteq SpentTokens /\ Alone` on top of `IInv`.
`Rows`: every row descends from a login that is a row too. `OneLive`: a login
has one unrevoked row among those a client can hold or present. `Alone`: what a
handler that runs by itself knows at each statement: the row it found live is
still live, its successor is not linked to, no row is younger than its decision
to purge. The mapping goes step by step (`SessionStep`): `IssueSession` opens a
login, `IssueSuccessor` is a stutter because an unlinked row does not count,
`Link` rotates, `Purge` and `RevokeOne` end the logins they revoke rows of, and
everything else leaves the table as it is, `Expire` and `Fail` included.

`tlapm PasswordResetProofs.tla` proves, for every finite set of requests and
every bound on rows, passwords and lost resets (`RequestsAssumption`,
`BoundsAssumption`):

| Theorem | Property |
|---|---|
| `TypeCorrect` | `TypeOK` |
| `ResetCorrect` | `ResetCompletes` |
| `SpendsCorrect` | `SpendBound` |
| `OldSessionsCorrect` | `OldSessionsEnd` |

The inductive invariant is `TypeOK /\ Tables /\ Scripts /\ Rooms /\ Spent /\
Swept /\ LateInserts /\ OldSessionsEnd`. `SpendBound` counts passwords stored and cannot be
inductive, since it says nothing of who may still store one. `Spent` does: as
long as a token is live, its spends belong to resets about to mark it or lost;
once it is not, only those that read it before can add one, so that spends and
holders together stay within the request slots. `Swept` carries what
`ResetCompletes` claims at the answer back to the statement that achieved it,
and holds on because tokens and sessions only age (`TokensAge`,
`SessionsEnd`). `Rooms` is what makes the types inductive: every row or
password still to be written has its number reserved. `LateInserts` is what
`OldSessionsEnd` takes of the requests: whoever stands before its INSERT with a
password that has been replaced was overtaken by the sweep, will be, or presents
a session that a sweep has missed.

| Theorem | Says |
|---|---|
| `ApartSingleUse` | under `[]Apart`, `spends[t] <= 1 + lost` |
| `CredentialImplemented` | under `[]Undisturbed` and `[][Completes]_vars`, `Credential` |

README.md:146 calls the token single-use. `Apart` is what that takes: no two
resets of *one* token are at once between its SELECT and the UPDATE that marks
it. Everything else may overlap, and a reset lost in between still costs one
password (`lost`). `FirstUse` says that a reset which has just read its token is
the first that was not lost.

The refinement has three hypotheses, and the code enforces none of them:
`ResetsApart` (no two resets, of whatever tokens, between the SELECT and the
UPDATE of all tokens), `excused = {}` (no sweep of the sessions goes by between
the SELECT and the INSERT of a login or a refresh of a replaced password) and
`Completes` (a password once stored is followed by the statements that belong to
it). Password changes, mails, expiries, logins and refreshes that do not race a
sweep, and failures before a password is stored are unrestricted. Besides `IInv`
it needs `Eras`, that nobody goes by a password that is yet to come. The steps: `SetPasswordByToken` is
`Reset`, `ChangePassword` is `Change`; `MarkUsed`, `InvalidateAllForUser` and
`RevokeAll` are stutters, because what they sweep had stopped counting;
`CreateToken` is `Issue`, `InsertSession` is `OpenSession`, `Link` and the sweep
of a reuse are `CloseSessions`; `Fail` of a reset whose token has meanwhile
expired is `Expire`.

`tlapm TwoFactorProofs.tla` proves, for every finite set of requests and every
number of setups and batches (`RequestsAssumption`, `BoundsAssumption`):

| Theorem | Property |
|---|---|
| `TypeCorrect` | `TypeOK` |
| `CodeSpendsCorrect` | `CodeSpendBound` |
| `BatchesCorrect` | `BatchBound` |
| `SecondFactorCorrect` | `SecondFactorRequired` |
| `EnrolmentCorrect` | `EnrolmentConsistent` |
| `SecretsCorrect` | `Base32Correct` |
| `CodesCorrect` | `CodesAccepted` |
| `Base32KeyCorrect` | what `Base32Correct` says, of a key of any length |
| `DriftCorrect` | what `CodesAccepted` says, of a key of any length, any digests and any time steps |
| `ApartOneTime` | under `[]Apart`, every code passes one verification at most |
| `EnrolmentImplemented` | under `[]Undisturbed`, `Enrolment` |

Inductive is `TypeOK /\ Scripts /\ Makers /\ Rooms /\ Spends /\ Guarded /\
Alone /\ EnrolmentConsistent`. `Spends`: a code that is unused, or not made yet,
has passed no verification, and afterwards only requests that found it unused
can pass with it. `Makers` is what makes `BatchBound` inductive: the batches
that are left were each made by another request slot, and a slot that is about
to insert its next one has the one before among its `doomed` rows. `Guarded`
follows a login from its arrival: it can stand before its session only with a
factor. `Alone` says what a single change of the enrolment has reached at each
statement.

`DriftCorrect` is about the functions of `Totp` and needs no invariant: the key
comes back from the stored secret (`Base32KeyCorrect`), the two sides then
compute the same code, and the code is one that the test of six digits lets
pass, because the masked bytes make a natural number. It assumes of HMAC-SHA1
that it returns 20 bytes, as `HmacAssumption` does of the function that stands
for it.

`Base32KeyCorrect`. The bits of a key are a function `B` on the integers, zero
outside the key, and everything the program computes is a `Group` of
consecutive bits. After n bytes the accumulator is `Register(B, 8 * n)`, the
last 32 bits that went through it, and the output the characters that fit in
8n bits: the overflow of `value << 8` never reaches a bit that is still to be
emitted (`EncodeStep`, `DecodeStep`, with `Shifting` and `Taking` for the shift
and the mask). The loops are recursive functions. That such a function exists is
shown by giving it explicitly (`EncodeLoop`, `DecodeLoop`: whatever satisfies
the recursion from 0 to the length is the loop, by `UpTo`), so no induction
over data is needed. `Decoding` lets anything stand between the characters, as
`continue` does.

`ApartOneTime`: README.md:147 calls recovery codes one-time; they are, as long
as no two requests with one code are at once between its SELECT and its UPDATE.

`EnrolmentImplemented`: `Undisturbed` says that no two changes of the enrolment
(setup, enable, disable) have overlapped and none was lost between flag and
codes; logins and their codes are under way all the time. It needs
`Settled`, by which nothing comes between a check and what it was made for: a
disable that has verified its code finds the factor on, an enable that has, its
secret confirmed. `EnrolmentConsistent` is the state property under the same
hypothesis; the refinement adds what each step may do.

`tlapm DirectoryProofs.tla` proves, for every finite set of requests, every set
of addresses and every number of accounts (`RequestsAssumption`,
`EmailsAssumption`: the administrator has an address, `BoundsAssumption`,
`NoneAssumption`: the name for "no address" is none):

| Theorem | Property |
|---|---|
| `TypeCorrect` | `TypeOK` |
| `EmailsCorrect` | `OneAccountPerEmail` |
| `ConflictsCorrect` | `TakenEmailConflicts` |
| `RemovalsCorrect` | `GoneIsNotFound` |
| `GuardsCorrect` | `GuardsHold` |
| `PartitionCorrect` | `PagesPartition` |
| `PagesCorrect` | every row is on exactly one page, at its place, for any list and limit |
| `SortCorrect` | of any sort expression, only listed fields reach `orderBy`, in the order asked for, or it is refused (`SortWhitelisted` of `Listing`) |

Inductive is `TypeOK /\ Table /\ Unique /\ Scripts /\ Rooms /\ Screens /\
Refusals`. `Refusals` says where a request whose address was taken, or whose
account was gone, since its arrival can be: before the statement that finds it
out, while the obstacle lasts, or answered with a refusal. `Screens` says the
same of the guards, from which `GuardsHold`, an action property, follows step by
step. `Unique` is `OneAccountPerEmail` over all rows; it rests on the index,
not on the check. `SortCorrect` and `PagesCorrect` are about functions and need
no invariant: `PageRows` tells what a page contains, `PageCount` that the
division rounds up to the pages that begin before the end of the list. For
`PartitionCorrect`, `PagesJoined` says that the first p pages, joined, are the
first p * l rows, and after the last page all of them; the library's `FlattenSeq` is a recursive function, which is
found by giving it, as in base32.

`tlapm FilesProofs.tla` proves, for every finite set of requests and every
number of uploads (`RequestsAssumption`, `BoundsAssumption`):

| Theorem | Property |
|---|---|
| `TypeCorrect` | `TypeOK` |
| `StoresCorrect` | `StoresAgree` |
| `DownloadsCorrect` | `DownloadsServed` |
| `TrailCorrect` | `TrailFaithful` |

Inductive is `TypeOK /\ Scripts /\ UploadsAlone /\ Staged /\ Trail /\
RemovalsFit /\ StoresAgree /\ StillCalm /\ DownloadsServed`. `Staged` says what
the place of a request means for row and object, and `UploadsAlone` that an
upload shares its file with no other upload. `Trail` is `TrailFaithful` with
the request that is about to tell named. `RemovalsFit` counts: removals of one
file that overlap are each audited, and there are no more of them than slots,
which is what types the trail. `StillCalm` keeps the history variable honest.

`tlapm NotificationsProofs.tla` proves, for every finite set of users and every
set of requests (`UsersAssumption`, `NobodyAssumption`: the name for "nobody"
is not a user):

| Theorem | Property |
|---|---|
| `TypeCorrect` | `TypeOK` |
| `WelcomeCorrect` | `WelcomeTrace` |
| `OwnNotesCorrect` | `OwnNotesOnly` |

Inductive is `TypeOK /\ Scripts /\ Agreed`, where `Agreed` adds to
`WelcomeTrace` that an account is announced once, by the request that inserted
it (`AnnouncedOnce`), and that the reaction writes the note last (`NoteLast`).

In all of these, `Scripts` ties the place of a request to its operation. Every
part of the inductive invariants was checked by TLC on a small instance before
it was proved.

The theorems under a hypothesis (`Serial...`, `Apart...`,
`EnrolmentImplemented`, `CredentialImplemented`) say what the documentation
promises and what that takes of the clients, since no lock or transaction of
the code provides it. Each hypothesis is satisfiable by runs in which the
requests it does not speak of overlap, and none can be dropped: on the instances
of `lockout`, `passwords` and `two_factor` TLC confirms each statement under its
hypothesis and finds it violated without it, and for the two refinements without
any one part of it.

Only model-checked:

* `Answered` and `RegistrationAnswered`, since liveness is out of the prover's
  reach.
* The counterexamples: that two overlapping refreshes fork a login, that
  sessions survive a purge, and that 2FA can be on with an unconfirmed secret
  are facts about particular behaviours, which TLC exhibits.
