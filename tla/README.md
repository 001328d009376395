# MONCAP API — formal model

TLA+ specifications, TLC configurations and TLAPS proofs for the MONCAP API, the
back end of a party's membership platform: FastAPI, SQLAlchemy (async) on
PostgreSQL at READ COMMITTED, the payment provider Kopar Pay, and a cron container
(supercronic, `src/crontab`) that runs the programs of `src/app/cli`.

The members' money is the part where a wrong interleaving costs most, so the online
payment and the monthly dues came first, then the login sessions, then the life of an
adhesion (deposit, validation, radiation), the months a member owes, and the articles.

## Inventory

| Component | State | Operations | Interacts with | Hard behaviour | What makes it correct |
|---|---|---|---|---|---|
| Paiement Kopar — `services/paiement_orchestrator.py`, `services/kopar.py`, `cli/reconcile_kopar_pending_transactions.py` | `transactions_kopar` (token, command_ref, statut) | initiate, webhook (IPN), apply a status, catch up | Kopar over HTTP, cotisations, adhesion, emails | webhooks lost, repeated, late; webhook against catch-up job; crash between the order and the commit; several months in one transaction | success and rows together; one email; final statuses protected; collected money is recorded |
| Cotisations mensuelles — `services/paiements.py`, `repositories/paiements.py`, `cli/generate_monthly_dues.py` | `cotisations_mensuelles` (due, echue, payee, annulee), unique per member and month | create a month, generate the month, mark overdue, mark paid, manual payment | Kopar, radiation, tarifs | unlocked read then write of `echue`; batch against webhooks; row-lock order | a payment is undone only in the ways known; only the monthly job can be in a circle of waits; a month exists once |
| Tarifs et premier mois — same files | `parametres_paiement`: intervals of amounts, rule of the first month | seed, edit, tariff at a date, first month owed | cotisations | boundary dates, a rule read at the date of the day, pages that fill several months | no month before the first; no hole; each creator's own amount |
| Relances — `cli/send_payment_reminders.py` | reminders sent | list unpaid, send, record | mail | the commit comes after all the emails; the result of the sending is lost | a send is tried for everybody who owes |
| Radiation — `services/radiation_service.py`, `cli/apply_radiations.py` | `adhesions.statut`, account | list candidates, radiate, rehabilitate | cotisations, accounts, mail | candidates listed, then treated one by one; a failure in the middle | the list is exact; everyone on it is treated or reported |
| Parcours d'adhésion — `routes/validations.py`, `routes/admin.py`, `services/auth.py` | adhesion statut, account and its link | validate or reject at each level, complement, radiate, rehabilitate, first login | accounts | check then unconditional update; two validators; first login against the directoire | two levels; an account exists only for who was validated; validated with his account or not at all |
| Dépôt et OTP — `services/adhesions.py`, `services/email_otp.py` | code, attempts, age; idempotency key | send, verify, deposit, replay | adhesion | concurrent guesses, a resend under way, a retry with the same key, two forms with one CNI | attempts bounded; a code leaves with its adhesion; no double member |
| Sessions — `services/auth.py`, `repositories/sessions.py` | refresh sessions, rotation chain | log in, rotate, revoke, log out | users | two uses of one token, rotation against revoke-all | exchanges bounded; a disabled account opens no more |
| Articles — `services/article.py`, `repositories/article.py`, `cli/seed_*articles*.py` | articles, comments, likes, counters | moderation workflow, like, comment, seed | users | insert then recount; moderation of an article being edited | only the staff publishes; no view lost; counters repaired |
| Admin searches, exports, geography, QR codes, templates, storage, settings, image and diagnostic scripts, migrations | little or none | queries, formatting, files, wiring | | | not modelled |

Everything this code is exposed to and a test hardly reaches is in `PROJECT.json`
under `hazards`, each at its line.

## Plan

Done: `PaiementKopar` with `RegistrePaiements`, `Depot` with `RegistreAdhesions`,
`Cotisations`, `RefreshSessions`, `ParcoursAdhesion`, `Impayes`, `MoisDus`, `Articles`, each
with proofs of the properties its runs check.

Left, in this order:

1. an abstract session (live, replaced, dead) that `RefreshSessions` implements, and an
   abstract decision (one step per level) that `ParcoursAdhesion` implements;
2. the files: their replacement by an administrator, the attachments of articles.

## Modules

| Module | What it is |
|---|---|
| `PaiementKopar` | provider, sessions, rows, every handler; properties |
| `RegistrePaiements` | abstract register: settling an order is one step |
| `PaiementKopar_proofs` | safety theorems; `PaiementKopar` implements `RegistrePaiements` |
| `Cotisations`, `Cotisations_proofs` | the monthly batch against sessions; theorems |
| `RefreshSessions`, `RefreshSessions_proofs` | refresh tokens of one account; theorems |
| `Depot` | codes by email and deposits |
| `RegistreAdhesions` | abstract register of adhesions: depositing one is one step |
| `Depot_proofs` | safety theorems; `Depot` implements `RegistreAdhesions` |
| `ParcoursAdhesion`, `ParcoursAdhesion_proofs` | decisions on an adhesion, accounts; theorems |
| `Impayes`, `Impayes_proofs` | radiations in batches, reminders; theorems |
| `MoisDus`, `MoisDus_proofs` | tariffs, the rule of the first month, the months they create; theorems |
| `Articles`, `Articles_proofs` | moderation, views, likes, comments, seeding; theorems |
| `MC…` | finite instances of each for TLC |

How they meet. They share tables, so each takes what the others do to its rows as
actions of its own, reduced to what they write. `Cotisations` keeps of the payments the
rows they write, and of `MoisDus` the months they create. `Impayes` keeps the payment of
a month (`Payer`) and what decisions and logins write (`ChangerStatut`, `OuvrirCompte`).
`ParcoursAdhesion` starts where `Depot` ends (`Deposer`), and reduces to one step what an
administrator corrects or deletes. `RefreshSessions` takes the account being disabled from
the radiation. `Articles` shares no table but the users.

### PaiementKopar and the code

One member: only the monthly job touches the rows of two, and what it does to the others'
is in `Cotisations`. Rows (`Lignes`) are the adhesion
(`adhesions`) and its months (`cotisations_mensuelles`). A reference is what the code
writes as `ADH-{id}` (adhesion), `COT-{id}` (one month) or `COTP-{n}-{id}` (n months);
`Couvre` gives its rows.

A **session** is one SQLAlchemy session: a route, or one transaction of the catch-up job.
`etape` is its program counter, one step per point where another session can come in:
the HTTP call, the lock of the transaction, each SELECT, each flush, the commit. At READ
COMMITTED what a session flushed is seen by the others at its commit: `ecrites` holds the rows flushed and locked until then, and the commit of the session
(`ValiderStatut`, `ValiderManuel`, `ValiderMois`, `ValiderInitiation`) publishes them at
once. A rollback (`Abandonner`, `Victime`, a conflict on the unique key) drops them.

| Actions | Code |
|---|---|
| `KoparEvolue` | the provider (external): an order changes status, an IPN is emitted |
| `RecevoirWebhook` | `processer_webhook_kopar` up to `appliquer_statut_kopar`: lookup by commandRef, latest first, else the adhesion's transaction; `avis` only grows, so a notice is delivered late, again, or never |
| `RattrapageLister`, `RattrapageInterroger` | the catch-up job: candidates new/pending, `get_transaction_detail`, one session per candidate |
| `Verrouiller` | `SELECT … FOR UPDATE` with `populate_existing` and the early returns of `appliquer_statut_kopar` |
| `LireLigne`, `EcrireLigne` | the loop over the rows: `mark_paid_periode`, `_appliquer_paiement_adhesion_success`, `get_or_create_for_adherent_mois`, `mark_manuel`; waiting on row locks and on the unique key |
| `ValiderStatut` | commit of the webhook route or of the catch-up job; a confirmation is counted when rows were written, since the handler has queued it (it is sent after the commit, or lost with the process) |
| `ManuelDebut`, `ValiderManuel` | manual payment of one or several months by an administrator |
| `ConfirmerPaiement` | `confirm_payment` (`routes/admin.py:221`): one UPDATE sets or clears the flag of the adhesion and its typed reference, whatever they were |
| `GenererDebut`, `ValiderMois` | `creer_cotisation` then the commit: QR page, the month's route, the administrators' route, the months of a new member |
| `LotDebut`, `ValiderMois` | `generate_monthly_dues`, ONE SQL transaction: the INSERT of the month asked for, kept locked, then `marquer_echues_du_mois_precedent`: an unlocked read of the previous month (`Precedent`), an UPDATE by id which overwrites a payment committed in between |
| `InitierDebut`, `Consulter`, `CreerOrdre`, `RefusKopar`, `ValiderInitiation` | the initiation routes: create the missing months, 409 when paid, reuse the latest transaction of the reference, else order, then commit |
| `Abandonner` | crash, timeout, HTTP failure: SQL rollback, but the order stays at the provider |
| `Victime` | PostgreSQL (external) aborts one of the transactions that wait in a circle |

`courriels` (confirmations of an order since its rows are all paid) and `annulees` (rows
whose payment was undone, and not made again since) are history variables: no action reads
them. `avant` is the order of `created_at`. It is `now()` at the BEGIN of the session, not the
moment of the commit, so the "latest" transaction of a reference is the one whose session
began last.

Abstracted: amounts (and the flush of `montant` on reuse), signature verification (a
rejected webhook changes nothing), the custom fields of a notice, the five-minute age of
a candidate (time is not modelled, so the job may look at any moment), logging and
responses; and the amounts `_calculer_paiement_adhesion_confirme` adds up, a success of the
adhesion being taken as enough. The two
routes that call the multi-month initiation with keyword arguments it does not take end in
a `TypeError`, before any change, and `mark_manuel_periode` has no caller: neither is here.

### RegistrePaiements

An order covers rows from its creation (`Commander`), is recorded (`Ouvrir`), and is then
settled with all its rows in one step, with at most one email (`Encaisser`), failed (never
after a success: `Echouer`), or refunded (`Rembourser`). `Saisir` is a payment recorded by
hand, `Annuler` the undoing of one: its row is then known as undone, an order settled later
may leave it so, and the orders that cover it may be confirmed again. The mapping takes
`objet` from the reference of the order, the status through `StatutAbstrait`, the paid rows
from `ligne`; `annulees` and `courriels` are the same variables.

### Cotisations and the code

Rows (`Lignes`) are the previous and the current month of each validated member. `ligne`
is the committed status, `flushees[a]` what transaction `a` sent and did not commit: its
own queries see it (`Vue`), the others do not, and nobody else may write that row until
its end (`LibrePour`: the row lock of an UPDATE, the reservation of the unique key by an
INSERT).

| Actions | Code |
|---|---|
| `LotLancer`, `LotVoir`, `LotInserer`, `LotConflit` | `generer_tous_les_du_mois`: the members are listed once; for each a SELECT, then `creer_cotisation`'s INSERT, which waits for a transaction inserting the same month and raises IntegrityError if it commits |
| `LotLister`, `LotLire` | `marquer_echues_du_mois_precedent`: the ids of the pending rows, at most `Limite` (100 000 in the code: `Extraits`, `tronquee`), then one SELECT and one test each |
| `LotFlush`, `LotEcrire` | the unit of work: `UPDATE … SET statut='echue' WHERE id=…` for a changed row, at the next query (autoflush) or the final flush |
| `LotValider`, `LotAbandonner` | the commit of the job or of the administrators' route (no overdue part); crash or deadlock victim |
| `Commencer`, `Lire`, `Ecrire`, `Valider`, `Abandonner` | one session: creating months (QR page, member's page, initiation) or paying them (`mark_paid_periode`, manual payment), one flush per month |

Abstracted: amounts and tariffs; the order in which the batch visits members (none is
given by the query, so any); the moment of an autoflush (any moment after the change); the
double SELECT of a month by the batch (route and `creer_cotisation`), of which the second
decides. A paying session that inserts a missing month sends INSERT and UPDATE back to
back under the same lock: one step. `annulee` is set by no code. `Init`: everybody was
already a member the month before, so the previous month exists, pending or paid; the
current one is absent or paid in advance. The batch runs on a given day, so "previous" and
"current" do not move.

### RefreshSessions and the code

The rows of `refresh_token_sessions` of ONE account, and the requests that use them. A
request's SQL session reads (`Presenter`: SELECT without a lock), reads the account
(`LireCompte`), takes the row lock (`Tourner`: `UPDATE … WHERE rotated_at IS NULL`, whose
row count nobody reads) and inserts the new session at the commit (`ValiderRotation`).
`DebutRevoquerTout` / `FinRevoquerTout` split `revoke_all_for_user` where PostgreSQL does:
the rows it will update are those committed when it starts, and it may wait for one of
them. `Deconnecter`, `Revoquer`, `Connecter`, `ValiderConnexion` are logout and login;
`Radier`, `Rehabiliter` the account being disabled and enabled; `Expirer` the passing of
time; `Abandonner` a crash. Tokens are model values drawn fresh. `parent` (the session a
token was rotated from) and `nees` (sessions opened since the account was disabled) are
history variables that no action reads. Abstracted: hashing, cookies, access tokens
(stateless), other accounts (no query of one touches another's rows).

### Depot and the code

`otp` is `email_otps` (one row per email), `adhesion` the rows and the payload they were
made of, `req` what each request loaded. `DemanderCode`, `ChargerCode`, `EnvoyerCode`,
`EnregistrerCode` are `send_email_otp`: the email leaves before the row is written.
`Verifier`, `ControlerCode`, `CompterEchec` are `verify_email_otp`, which loads the
attempts, compares, and writes back one more; a deposit runs the same check. `Deposer`,
`LireCle`, `EffacerCode`, `ChercherConflit`, `InsererEtValider`, `Repondre` are
`AdhesionService.create`: replay of a key, the code deleted (a row lock kept to the
commit: `tient`), the three SELECTs (email, CNI, voter card), the INSERT under the unique
indexes and the commit.
`Supprimer`, `Corriger` are the administrators; `Vieillir` is time, in the three ages the
code tells apart (cooldown, valid, expired); `Abandonner` any failure.
Abstracted: files, geography, hashes (of a code, of a payload: equal when the values are).

### RegistreAdhesions

A code leaves for an address (`Envoyer`), the address may use one it received (`Admettre`:
not always the last one, two resends may be recorded in either order), and a deposit
(`Deposer`) is one step: identifiers free, a code received, and the code gone with it.
`Supprimer` and `Corriger` are the administrators. The mapping forgets the requests, the
locks, the attempts and the age of codes; a row of `otp` becomes its code. `Deposer` may
leave the codes as they are: two requests may be accepted with one code before either deletes
it; the second finds the row gone, which is only a warning (`EffacerCode`), and does not touch a
code recorded since. A rollback is a stutter: what was flushed was never in the register.

### ParcoursAdhesion and the code

`Lire` is the SELECT and the check of a handler (`Admissible`), `LireCompte` the account
it loads, `Ecrire` the UPDATE with the statuses its `WHERE` tests again (`Touches`) — the
accueil and the directoire test, rejections and complements do not —, `Assurer`, `Creer`,
`Lier` are `ensure_user_for_adhesion`, `Valider` the commit. `Connecter` is the first
login, which creates the account of a validated adhesion; `Peupler` the same by the script
`seed_militants_articles`; `Reconstruire` the script that makes adhesions of accounts, with
any `--status` (`rebuild_adhesions_from_users.py:278`): an adhesion may be born
*validee_accueil* with no decision of the accueil, and the directoire may then validate it.
`DeuxNiveaux` names that exception (`derniere` = "script"). `histoire` (the last decision
committed, whether the adhesion was ever validated) is read by no action. The direct PATCH
of an administrator rejects or asks for a complement, and nothing else
(`routes/admin.py:113`): `tests/test_rbac.py:248`, which expects *validee* to be accepted,
describes an earlier route.

### Impayes and the code

`LotLister`, `LotLireMois`, `Radier`, `EchecRadier`, `LotFinir` are the job
`apply_radiations` and the route of the mass radiation: members, then their months, then
one commit per member. `Serie` is the streak of unpaid months counted backwards, `Candidat`
the rule; the search may end in the exception of the roles (`etape` = "erreur"). `--limit`
stops the job's search after n candidates (`Limites`). The search returns plain records and
the session keeps weak references, so `apply_radiation` reads the adhesion and its account
again: a member radiated or rejected meanwhile is refused (`Refuse`, 409); his payments are
not read again. A statement may fail at a member's turn, before his commit (`EchecRadier`,
cause "sql") or in the read that follows it for the email (`Radier` with `panne`). From then
on the session is unusable until a rollback (`morte`). The job rolls back after each failure
it catches, so the failed read costs the next member his turn; the route never rolls back
(`routes/admin.py:627`), so one SQL error costs all the later members theirs, and a member
already radiated may be reported as an error. A COMMIT whose acknowledgement is lost is not
modelled.

`RappelLister`, `RappelEnvoyer`, `RappelFinir` are the reminders: a list under its LIMIT
(`LimiteRappels`), then one email per member, whose failure is swallowed
(`services/mail.py:86`). `send_email_best_effort` returns nothing, so the flags
`relance_envoyee_n` are never set and filter nobody: every run writes to everyone.

### MoisDus and the code

A date is a natural number, a month has `J` days. `SemerTarif`, `SemerRegle`,
`ValiderSemis` are the seeding at start-up, `ModifierTarif`, `ModifierRegle` the PATCH of
an administrator, `Minuit` the next day. `Ouvrir`, `LireCourante`, `LireRegle`, `LireMois`,
`Inserer`, `Valider` are the two pages that show what a member owes and create what is
missing. The other creators of months share `LireMois` and `Inserer`, each with its amount
(`PrixDe`):

| Request | Code | Amount of a month it creates |
|---|---|---|
| page, `Demander` "suggestion" (which never commits), `Parcourir` "lot" | `creer_cotisation` | tariff of the first day of the month |
| `Demander` "initier" or `Viser`, `LirePrix`, `LireReference`, `Chiffrer`, `Commander` | initiation of one or several months, committed in two parts: the first month, then the order with the next ones | first month: tariff of its first day, rewritten to the tariff of the day if it differs by more than a franc; next ones: tariff of the day; months at 0 that are counted are set to it too |
| `Parcourir` "manuel" | `admin_paiement_manuel_periode` | 0 |
| `Encaisser` | `mark_paid_periode` for an order of several months | amount of the first, if one were missing: none is |

No code deletes a `cotisations_mensuelles` row, and the commit of an order of several months
made all of them, so the last creator creates nothing: `MontantDuCreateur` says so.
`mark_manuel_periode` has no caller; the routes that take a `cotisation_id` and more than
one month (`routes/paiements.py:459`, `:827`) pass arguments the function does not have and
end in a `TypeError` before any change. Of several rows in force at a date the code takes
the latest `date_effet`, and between equal ones any (`EnVigueur`). `vus` keeps what the
parameters said while a request worked, for the properties.

### Articles and the code

A request reads, flushes, recounts by two COUNT queries and commits, in that order; each
is a step. `LireModification`/`EcrireModification`, `LireModeration`/`Moderer`, `Creer`,
`Supprimer` are the workflow; `LireArticle`/`Voir` the public read, which increments the
views; `LireLike`/`EcrireLike`, `LireCommenter`…`EcrireDecommenter` the reactions;
`CompterLikes`, `CompterCommentaires`, `Enregistrer` the end of all of them. `Semer`,
`LireSemis`, `EcrireSemis`, `InsererSemis` are the scripts `seed_articles_only` and
`seed_militants_articles`; a seeded article starts at a view count the script draws
(`VuesSemees`). Abstracted: texts and attachments; the articles a script writes
in one transaction are followed on one of them, with at most one comment.

## Runs

| Run | Question | Instance |
|---|---|---|
| `concurrence` | webhooks, catch-up, the monthly job and initiations interleaved, one crash: is a success whole, the email single, a receipt backed by money, a final status safe, and does it refine the register? | 2 orders, 2 sessions, adhesion and a 2-month period |
| `lignes` | references that share a month, payments by hand, pages and the monthly job racing for rows: receipts justified, circles of waits only with the job, payments undone only in the known ways | 1 order, 2 sessions, adhesion, one month, a period containing it |
| `vivacite` | webhooks lost, the monthly job and a crash: does collected money get to its rows? | 1 order, 2 sessions, 1 crash |
| `commandref` | does a receipt name an order that was collected, with webhooks and two orders? See Findings | 2 orders |
| `cotisations` | does a committed batch owe everybody the month, leave no past month pending, and never undo a payment of the current month? | 2 members, the job, the route, 2 sessions; LIMIT 1 |
| `sessions` | how many times can one token be exchanged, how many sessions can a disabled account still open? | 2 requests, 4 tokens |
| `depot` | codes resent, guessed, expired; deposits retried or racing; deletions and corrections: no double, no code lost, and does it refine the register? | 2 emails, 2 CNI, 1 voter card, 1 key, 2 codes, 2 adhesions, 2 requests |
| `adhesion` | decisions, first login, scripts and administrators racing for one adhesion and its account | 1 adhesion, 2 accounts, 2 emails, 2 requests |
| `impayes` | the job, the mass route and the reminders over members that pay, leave and come back, with SQL errors, failed emails and `--limit` | 2 members, 3 months and one in advance |
| `radiation` | the rule of automatic radiation, with accounts: see Findings | same |
| `articles` | edits, moderation, reactions, reads and seeding crossing on one article | 2 requests at a time, 3 in all, 2 users |
| `mois_dus` | pages, initiations of one or two months, periods by hand, payments and generation create months while tariffs, rule and date change | 2 requests, 2 months of 2 days |

**Bounds.** Two sessions are enough for every pairwise race (webhook/webhook, webhook/job,
webhook/manual, initiation/initiation); the proofs cover any number. Two orders give one
reference two transactions; `lignes` has one order, and its references overlap. Month `m2`
starts absent so that it is created by initiations, by a page, by the job, or several; `m1`
is the previous month (`Precedent`), the one the job marks overdue. `MaxPannes` = 1 allows a
crash at any step, and a retry afterwards. `EvolutionsKopar` bounds the provider's status
changes; it differs per run to keep what the run asks about (a success after a failure, after
an unknown status or at once in `vivacite`; a refund in `concurrence`). In `Cotisations` two members let a batch hold one month while it
waits for another, against sessions that hold both months of a member; sessions start again
without end, so nothing else is bounded. Two batches that wait for each other are aborted by
PostgreSQL (`LotAbandonner`). In `RefreshSessions` four tokens allow a chain of three
rotations, or two logins rotated once; a token is never reused. `Depot`: two requests
are a resend against a verification, two deposits, or a retry against its first; requests
start again without end, a code is drawn once, a row inserted once. Its four forms
(`QuatreFormes`) are chosen so that two of them share the voter card only, others the email
only, the CNI only, or nothing. `ParcoursAdhesion`: one
adhesion, since no request reads two; the second account and email are the rival's.
`Impayes`: `MaxLances` = 1 batch or reminder, since one batch against single requests
already shows every order of a list and a write, `MaxPayes` = 3; `Delai` = 2 and starting
months with each kind of gap; `Limites` 0 and 1. The LIMIT of the reminders is not reached by two
members: the theorem covers it. `Articles`: `MaxLancees` = 3 requests, two at a time:
two writers that cross and one that comes before, or repairs after. `MoisDus`: `MaxModifs` = 1; two
months are the shortest horizon with a period of two and with a first month that is, by the
rule, the current one or the next; a member validated on another day is the theorem
`PremierMoisExact`; one process seeds, which cannot show two rows for one date
(`TarifCorrect` is proved for any number of processes). Deadlock checking is off
where everything may be finished: every order paid, every row used, every bound reached.

**Fairness** (`Fairness`, used by `vivacite` only). Handlers under way are
scheduled (`WF` of `Avancer`). PostgreSQL queues lock requests, so a waiter gets its lock:
`SF` of `Verrouiller` and `EcrireLigne`; it detects circles
of waits and aborts a member: `WF` of `Victime`. The cron entry runs every five minutes and visits
every candidate: `SF` of `RattrapageLister` for each order. Nothing is assumed of the provider,
the network, members or administrators: a notice may never be delivered.
`EncaissementAbouti` says "or refunded since": the provider may refund before the job
asks; and "or a failure was recorded first": a late notice of failure closes the transaction
here, the job lists only *new* and *pending*, and if the notice of the later success
(`tests/test_reconcile_kopar.py:134`, `paiement_orchestrator.py:631`) is lost, that money is
never recorded. Rows undone by the monthly job count as settled (`Soldee`). It needs a
recorded transaction: an order whose SQL transaction was rolled back is
unknown to the job. Elsewhere nothing must happen: a request that stops is rolled back.

## Findings

Each is the counterexample of the run of that name, and quotes what it contradicts in
`PROJECT.json`.

- `commandref` — two orders created concurrently for one reference share the commandRef; the
  webhook of the paid one settles the latest, which nobody paid.
- `radiation` — the search for candidates reads an attribute that a role does not have: one
  candidate with an account and a role, and nobody is radiated.

The models also contain behaviours that the documentation or a reader does not expect,
without a run of their own.

Payments and dues:
- a success notice redelivered after a refund turns *refunded* back into *success*;
  `FinalProtege` is therefore weaker than the docstring of `appliquer_statut_kopar`;
- `force=true` on something already paid hands out the paid order again, and a second
  initiation hands out the latest order of its reference even when it failed
  (`paiement_orchestrator.py:183`, action `Consulter`);
- the loser of a race for a missing month fails on the unique key (`Abandonner`, `Conflit`)
  where `Update.md` describes an idempotent insert; in the monthly batch it is everybody's
  month that is rolled back (`LotConflit`), on a page it is a 500;
- an order lost by a crash and then cancelled closes the next transaction of the same
  reference, and the catch-up job looks only at new and pending ones (`CRON.md:236`): after
  a recorded failure only a webhook can record the money;
- a payment of the previous month committed while the monthly job runs is overwritten
  with *echue*: the row is read without a lock and updated later by id
  (`services/paiements.py:247-253`). Its receipt stays, its transaction stays *success*, and the
  next redelivered success marks and confirms it again. `CRON.md:128` promises that no payment
  is undone « par un webhook en retard », which holds. `SuccesRegle`, `ReferenceJustifiee`,
  `UnSeulCourriel`, `AnnulationsConnues` and the register all name that case;
- the monthly job takes the current month, then the previous one, every other path the
  reverse: a circle of waits with a period that spans both is possible, PostgreSQL aborts one
  of the two (`InterblocageDuLot` says there is no circle without the job);
- an administrator may clear the flag of an adhesion paid online (`confirm_payment`): the
  transaction stays *success*, and a redelivered notice sets the flag again.

Months owed:
- the rule of the first month is read at the date of the day: changing it bills the past;
- « le mois de l'adhésion est systématiquement OFFERT » (`Update.md:604`) applies to the two
  pages only, and `generer_pour_adherent_suite_validation` runs from the pages only;
- past months are filled only when the current one is missing;
- the first month of an initiation is rewritten to the tariff of the day, the next ones are
  created at it, and a period paid by hand creates its months at 0;
- the route that creates a tariff calls an attribute `parametres` the service does not have
  (`routes/paiements.py:1227`): it always fails, and `close_current_and_insert` is never reached;
- two processes that seed at once leave two rows with one date, and the tariff is then
  whichever SQL returns; an initiation may rewrite the amount of a month paid meanwhile.

Deposit and sessions:
- two requests that present one token before either commits both get a session
  (`tests/test_auth.py:47`); revoke-all misses the session of a rotation under way
  (`Update.md:284`); a refresh that read its token before a logout committed still
  exchanges it;
- a correction of the geography checks fields against the row it read (`services/adhesions.py:368`),
  and the files of a deposit are saved before its INSERT: neither is modelled.

Decisions and radiation:
- a rejection overwrites a validation committed since it read the status; a stale
  rehabilitation overwrites a rejection or a complement, and makes *validee* someone who
  never was;
- a radiation that crosses the directoire or a first login leaves a radiated member with an
  active account; radiated, then complement, then validated again, leaves a validated member
  with a disabled one;
- the account is made with the email loaded before the lock, which a correction may have changed;
- a member who pays between the list and the commit is radiated: `apply_radiation` reads his
  status again (`radiation_service.py:268-287`), not his payments;
- the mass route never rolls back (`routes/admin.py:627-639`): after one SQL error every later
  member of the batch is reported as an error, and when the error came after a commit its
  member was radiated all the same;
- the script that rebuilds adhesions accepts any `--status`: with *validee_accueil* the
  directoire validates what the accueil never saw;
- `CRON.md:173` says nobody is reminded twice: `send_email_best_effort` returns nothing, so
  no reminder is ever recorded, and everybody is written to on every run.

Articles:
- `DELETE` of a like toggles it; two likes that cross may store a count that misses one
  until the next recount;
- a published text edited by its author stays published; an approval may publish a text
  edited since it was read;
- the moderator's request overwrites `published_at` with what it read;
- a script stores the counters it loaded plus what it adds.

## Proofs

Checked by TLAPS for every value of the constants, from the assumptions named `Hyp…` of
the module that declares them. They say that a null is not a value, that sets of actors are
disjoint, that a bound is a number, that a table is finite; those that say more are
named below.

`PaiementKopar_proofs`, from `HypOrdres`, `HypCouvre` (each reference covers a sequence of
rows), `HypNonVide` and the like:

- `TypeCorrect`. `TypeOK` is not inductive: the rows a session visits are
  `Couvre[refDe[o]]`, defined only once the order exists. `Types` adds `Creee`
  (a transaction has a reference, a reference has an order) and `Controle` (what a
  session holds at each `etape`).
- `SuccesRegleCorrect`, `ReferenceCorrecte`, `CourrielUnique`, `FinalCorrect`,
  `AnnulationsCorrect` follow from one inductive invariant, `IInv`:
  - `Application`: under the row lock the early returns stay refuted, and each row of the
    order is still in `reste`, flushed, paid, or undone (`Acquis`), hence all are settled at
    the commit;
  - `Exclusion`: no two sessions hold one row, one transaction, or one new order;
  - `Ecritures`: rows an initiation or a generation inserts stay absent for the others until
    its commit, so its commit overwrites nothing;
  - `Lot`: the monthly job holds at most its own INSERT, absent for the others, when it comes
    to the previous month, the only row whose payment it can overwrite;
  - `Nouvelle`: the order an initiation created has no transaction yet, so its commit
    never resets one;
  - `Envoi`: once an email is queued every row of the order is paid until one is undone, so
    the next holder of the lock has nothing to write and queues none.

  The proof has one lemma per part for the session that takes the step, and one that
  carries the parts of every other session across it.
- `Raffinement`: every step maps to a step of the register or to a stutter; the mapping
  needs `IInv` for `Encaisser` (the rows flushed plus those paid or undone are exactly those
  covered, and at most one email) and `Echouer` (no success replaced); the commit of the
  monthly job is `Annuler` of the previous month when it overwrites a payment, else a stutter.
- `InterblocageCorrect`, from `HypOrdre`: one numbering of the rows makes every
  reference increasing. It holds in the code because a period is listed month after month
  and the adhesion is never with months. `Rangee` then says that what a session other than the
  job holds comes before what it waits for; a circle of such sessions would have no greatest
  rank. There are finitely many rows, any number of sessions.
- `RecuGageCorrect`: a receipt is backed by money collected for the same reference (or by the
  member, for the receipt of the adhesion, on which a notice of an unknown reference falls
  back), if the provider never takes back a success except by a refund (`HypEncaisse`, about
  the external provider). `Encaissements` says it also of the notices and of the sessions that
  apply a success. Any number of orders and webhooks: what two orders of one reference do break
  is that the receipt names the one that was collected (run `commandref`).

`Cotisations_proofs`, from `HypAuteurs`, `HypParcours` and `HypRien`:

- `TypeCorrect` (with the exclusion: no row held by two transactions), `LotCorrect`,
  `CourantCorrect`, `SoldeCorrect` follow from `IInv`: what a transaction holds (`Tient`: a
  month flushed as *en_attente* is absent for the others, only a past month is *echue*),
  where a batch is (`Genere`: each member is still to visit or has the month; `Solde`: each
  pending past month is still to read, still to flush, or being written). `Solde` survives
  other transactions' commits because nobody turns a past month back into *en_attente*; it is for a batch whose list was not cut by
  LIMIT (`tronquee`).
- One lemma (`Assemblage`) carries the invariant of every other transaction across a step;
  each action then only looks at its own.

`RefreshSessions_proofs`, for any number of requests and tokens: `TypeCorrect`;
`UsagesCorrect` and `RadiationCorrecte` by a counting invariant: the successors of a token
plus the requests still holding it in flight never exceed the number of requests, and the
sessions a disabled account opened plus the requests admitted before never exceed it either.

`Depot_proofs`, from `HypMax` and `HypAucun`, for any number of requests, emails, codes and
adhesions: `TypeCorrect`, `DoublonCorrect`, `CleCorrecte`, `CodeCorrect`, `EmailCorrect`.
`IInv` adds to the types what a request holds at each step (`Tient`: once its code was
accepted, the address had received it; about to count a failure, it loaded attempts below
the limit; when it answers, the adhesion has its form) and what a row of codes says
(`Ligne`: its code was sent to its address, and who deleted it is depositing for that
address). `CodeCorrect` needs `Ligne`: the commit of an adhesion deletes exactly the row of
its own email. One lemma carries a request that does not move across any step (`Autres`).
`Raffinement`: only five actions show in the register, the others are stutters
(`PasInvisible`). Recording a code is `Admettre` because a request that reached that step sent
the code to its address (`Tient`); the commit of a deposit is `Deposer` because the rows it
deletes are at most its own email's (`Ligne`) and the unique indexes are the register's check.

`ParcoursAdhesion_proofs`, from `HypAucun`, for any number of adhesions, accounts and
requests: `TypeCorrect`, `NiveauxCorrect`, `CompteCorrect`, `ValidationCorrecte`. `IInv` says
what a status tells of the past (`Passe`), that accounts are unique (`Unique`), where a request
is (`Controle`: after its UPDATE a directoire holds a row still *validee_accueil*; before it, its
account is unknown), what it flushed to an account (`Flushe`) and that two requests hold
different rows, emails and links (`Exclusion`). `DeuxNiveaux` rests on the `WHERE` that the
UPDATE evaluates under the row lock, not on the status read before it.

`Impayes_proofs`, from `HypMois`, `HypLots`, `HypHistoriques`, for any number of members and months:
`TypeCorrect`, `LotEntierCorrect`, `RappelCompletCorrect`, `CandidatsExactsCorrect`. `Partage`
splits the targets of a batch into done, reported and to come; `Pertes` counts, in the job,
one member lost per read that failed after a radiation, and one more to come while the session
is unusable; `Destinataires` splits the members of a reminder into tried, to come and deleted. `CandidatsExactsCorrect` says that the count
of the code, a recursive function that stops at the first month paid and skips what it must,
makes candidates of exactly those who owe `Delai` months in a row. Without induction over data the proof goes by
the greatest month paid and the least month where the function and the set of owed months could differ
(`PlusGrand`, `PlusPetit`, from the library's well-founded order on the naturals).

`Articles_proofs`, from `HypStaff`, `HypBorne`, `HypFinis`, `HypAucun`: `TypeCorrect` (one like per
user), `VuesCorrectes`, `DateCorrecte`, `PublicationCorrecte`, `CompteursCorrects`. `IInv` is
`Tables` (what the rows say) and `EnCours` (`Controle`: who asks to publish is of the staff and
carries a date or finds one; `LikesFlushes`; `Comptes`: what a request counted is still right
if nobody wrote the same article; `Paire`: what two requests may not do together).

`MoisDus_proofs`, from `HypCalendrier`, `HypPeriodes`, `HypRegles`, `HypTarifs`, `HypBornes`:
`TypeCorrect` (with the unique key), `PremierCorrect`, `SansTrouCorrect`, `TarifCorrect`.
`IInv` is `Types`, `Cle` (the unique key holds for what is flushed too), `Note` (a request has
noted what the parameters say now), `Faites` (every month of a recorded order has a row, which
is why its payment creates none) and `Requetes` (`Controle`; `Initiation`: each month of the
order is there or held; `Paiement`; `Page`: from some first month noted up to its last, each
month exists, is flushed or is still to create; `AuTarif`). `PremierMoisExact`: the
first month the code computes is, for every date of validation and rule, the first month a member
owes by the calendar (`PremierDu`).

Only model-checked: `EncaissementAbouti`, a liveness property under fairness, out of the
prover's reach; and the violations of `commandref` and `radiation`, which are counterexamples.
Every property of the other runs is a theorem. `ReferenceEncaissee`, which `commandref` violates, is
replaced in the passing runs by `RecuGage`, which holds.

## Not modelled

- Geography, searches, exports, dashboards: queries; they write nothing, and each of the
  dashboard's counts is a query of its own.
- Files: the replacement of a member's files, attachments of articles, the scripts that
  download images. They write to a disk or an object store outside the transaction.
- Templates of emails, QR codes, settings, middleware, error handlers: formatting and
  wiring of the framework.
- The diagnostic scripts, which read, and the migrations, the history of the schema.

## Running

```
tlc -config MCPaiementKopar.cfg MCPaiementKopar      # and _lignes, _vivacite, _commandref
tlc -config MCCotisations.cfg MCCotisations
tlc -config MCRefreshSessions.cfg MCRefreshSessions
tlc -config MCDepot.cfg MCDepot
tlc -config MCParcoursAdhesion.cfg MCParcoursAdhesion
tlc -config MCImpayes.cfg MCImpayes                  # and MCImpayes_radiation.cfg
tlc -config MCArticles.cfg MCArticles
tlc -config MCMoisDus.cfg MCMoisDus
tlapm PaiementKopar_proofs.tla
tlapm Cotisations_proofs.tla                         # and RefreshSessions_, Depot_,
                                                     # ParcoursAdhesion_, Impayes_,
                                                     # Articles_, MoisDus_proofs.tla
```

The longest runs are `concurrence`, `mois_dus`, `lignes` (about three million distinct states
each), `depot`, `cotisations`, `impayes` (half that) and `vivacite`, whose temporal check is
slow: one to four minutes each with two workers. The longest proofs are
`PaiementKopar_proofs` and `Articles_proofs`, some minutes each.
