------------------------------ MODULE ContentCache ------------------------------
(***************************************************************************)
(* The two tiers of the quiz cache for one content hash: worker slots look *)
(* up in Valkey, then in Postgres, copy a row they find back into Valkey,  *)
(* or generate a quiz and store it in both; an administrator invalidates;  *)
(* entries expire.  No step spans the two tiers.  Times are days.          *)
(***************************************************************************)
EXTENDS Integers, FiniteSets

CONSTANTS
    Readers,      \* worker slots with a page of this content
    CacheTTL,     \* 7
    CacheBudget   \* bounds [quizzes, invalidations, ticks, fails, restarts : Nat]

ASSUME CacheAssumption == CacheTTL \in Nat \ {0}

VARIABLES
    row,          \* content_cache in Postgres: [quiz, expires]
    entry,        \* quiz:hash:... in Valkey: [quiz, expires, gone]
    reader,       \* what each slot is about
    admin,        \* the request of the administrator
    date,
    newest,       \* the newest quiz of this content
    barred,       \* history: quizzes that an invalidation removed
    served,       \* history: the last hit of each slot, with its day
    cacheBudget

cacheVars == <<row, entry, reader, admin, date, newest, barred, served, cacheBudget>>

NoEntry == [quiz |-> 0, expires |-> 0, gone |-> 0]
AtRest == [pc |-> "rest", hold |-> NoEntry]
Go(w, pc, hold) == reader' = [reader EXCEPT ![w] = [pc |-> pc, hold |-> hold]]
Serve(w, e, at) == served' = [served EXCEPT ![w] = [quiz |-> e.quiz, expires |-> e.expires, at |-> at]]
Draw(k) == cacheBudget[k] > 0 /\ cacheBudget' = [cacheBudget EXCEPT ![k] = @ - 1]

\* setRedis: the value and the day on which Valkey drops it.
setRedis(e, ttl) == entry' = [quiz |-> e.quiz, expires |-> e.expires, gone |-> date + ttl]

\* The entry is there until its time is up, and deleted when its own date has passed.
lookupRedis(w) ==
    /\ reader[w].pc = "rest"
    /\ \/ /\ entry.quiz # 0 /\ date < entry.gone /\ date <= entry.expires
          /\ Serve(w, entry, date) /\ UNCHANGED <<entry, reader>>
       \/ /\ entry.quiz # 0 /\ date < entry.gone /\ date > entry.expires
          /\ entry' = NoEntry /\ Go(w, "postgres", NoEntry) /\ UNCHANGED served
       \/ /\ entry.quiz = 0 \/ date >= entry.gone
          /\ Go(w, "postgres", NoEntry) /\ UNCHANGED <<entry, served>>
    /\ UNCHANGED <<row, admin, date, newest, barred, cacheBudget>>

\* A row that is still valid is held for the copy, with the day it was read; without
\* one the slot generates.
lookupPostgres(w) ==
    /\ reader[w].pc = "postgres"
    /\ IF row.quiz # 0 /\ row.expires > date THEN Go(w, "copy", [row EXCEPT !.gone = date])
       ELSE Go(w, "generate", NoEntry)
    /\ UNCHANGED <<row, entry, admin, date, newest, barred, served, cacheBudget>>

\* Write the row back for the rest of its time; an error of Valkey is ignored.
CopyToRedis(w) ==
    LET e == reader[w].hold IN
    /\ reader[w].pc = "copy"
    /\ \/ e.expires > date /\ setRedis(e, e.expires - date) /\ UNCHANGED cacheBudget
       \/ e.expires <= date /\ UNCHANGED <<entry, cacheBudget>>
       \/ Draw("fails") /\ UNCHANGED entry
    /\ Serve(w, e, e.gone) /\ Go(w, "rest", NoEntry)
    /\ UNCHANGED <<row, admin, date, newest, barred>>

\* persistQuiz has saved a published quiz; Store begins.
StoreRow(w) ==
    LET e == [quiz |-> newest + 1, expires |-> date + CacheTTL, gone |-> 0] IN
    /\ reader[w].pc = "generate" /\ Draw("quizzes")
    /\ newest' = newest + 1 /\ row' = e /\ Go(w, "store", e)
    /\ UNCHANGED <<entry, admin, date, barred, served>>

\* The second half of Store; an error of Valkey is logged.
StoreEntry(w) ==
    /\ reader[w].pc = "store" /\ Go(w, "rest", NoEntry)
    /\ \/ setRedis(reader[w].hold, CacheTTL) /\ UNCHANGED cacheBudget
       \/ Draw("fails") /\ UNCHANGED entry
    /\ UNCHANGED <<row, admin, date, newest, barred, served>>

\* An error of Valkey or Postgres, a stop of the worker: the job fails.
ReaderFails(w) ==
    /\ reader[w].pc # "rest" /\ Draw("fails") /\ Go(w, "rest", NoEntry)
    /\ UNCHANGED <<row, entry, admin, date, newest, barred, served>>

\* A slot holds what it read or stored in Postgres and has not yet written to Valkey.
Behind == {w \in Readers : reader[w].pc \in {"copy", "store"}}

\* DELETE /admin/cache/{contentHash}: Postgres first.
InvalidateRow ==
    /\ admin.pc = "rest" /\ Draw("invalidations")
    /\ row' = NoEntry
    /\ admin' = [pc |-> "entry", gone |-> IF Behind = {} THEN {row.quiz, entry.quiz} \ {0} ELSE {}]
    /\ UNCHANGED <<entry, reader, date, newest, barred, served>>

\* The error of Valkey is not looked at.
InvalidateEntryBlind ==
    /\ admin.pc = "entry" /\ admin' = [pc |-> "rest", gone |-> {}] /\ barred' = barred \cup admin.gone
    /\ \/ entry' = NoEntry /\ UNCHANGED cacheBudget
       \/ Draw("fails") /\ UNCHANGED entry
    /\ UNCHANGED <<row, reader, date, newest, served>>

\* Then Valkey; the administrator is told when this fails.
InvalidateEntry ==
    /\ admin.pc = "entry" /\ admin' = [pc |-> "rest", gone |-> {}]
    /\ \/ /\ entry' = NoEntry /\ barred' = barred \cup admin.gone /\ UNCHANGED cacheBudget
       \/ Draw("fails") /\ UNCHANGED <<entry, barred>>
    /\ UNCHANGED <<row, reader, date, newest, served>>

\* The weekly purge of runCleanup.
PurgeExpired ==
    /\ row.quiz # 0 /\ row.expires < date /\ row' = NoEntry
    /\ UNCHANGED <<entry, reader, admin, date, newest, barred, served, cacheBudget>>

\* A start with the vision pipeline deletes the rows and leaves Valkey as it is.
PurgeAll ==
    /\ Draw("restarts") /\ row' = NoEntry
    /\ reader' = [w \in Readers |-> AtRest] /\ admin' = [pc |-> "rest", gone |-> {}]
    /\ UNCHANGED <<entry, date, newest, barred, served>>

CacheDay ==
    /\ Draw("ticks") /\ date' = date + 1
    /\ UNCHANGED <<row, entry, reader, admin, newest, barred, served>>

CacheInit ==
    /\ row = NoEntry /\ entry = NoEntry /\ date = 0 /\ newest = 0 /\ barred = {}
    /\ reader = [w \in Readers |-> AtRest] /\ admin = [pc |-> "rest", gone |-> {}]
    /\ served = [w \in Readers |-> [quiz |-> 0, expires |-> 0, at |-> 0]]
    /\ cacheBudget = CacheBudget

CacheNext ==
    \/ \E w \in Readers :
         \/ lookupRedis(w) \/ lookupPostgres(w) \/ CopyToRedis(w)
         \/ StoreRow(w) \/ StoreEntry(w) \/ ReaderFails(w)
    \/ InvalidateRow \/ InvalidateEntry \/ PurgeExpired \/ PurgeAll \/ CacheDay

CacheSpec == CacheInit /\ [][CacheNext]_cacheVars

(* ------------------------------ properties ------------------------------ *)

CacheTypeOK ==
    /\ \A e \in {row, entry} : e.quiz \in 0..newest /\ {e.expires, e.gone} \subseteq 0 .. date + CacheTTL
    /\ \A w \in Readers :
         reader[w].pc \in {"rest", "postgres", "copy", "generate", "store"} /\ reader[w].hold.quiz \in 0..newest
    /\ admin.pc \in {"rest", "entry"} /\ barred \subseteq 1..newest /\ date \in Nat

\* An invalidation that was reported done holds: its quizzes are in neither tier, and
\* no lookup serves them, until the content is generated anew.  Only a slot that was
\* between the tiers when the row was deleted can bring its quiz back.  And no entry
\* outlives its date by being copied from tier to tier.
CacheHolds ==
    /\ {row.quiz, entry.quiz} \cap barred = {}
    /\ \A w \in Readers : reader[w].hold.quiz \notin barred
    /\ \A w \in Readers : served[w].at <= served[w].expires
===============================================================================
