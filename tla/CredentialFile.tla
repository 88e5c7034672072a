---------------------------- MODULE CredentialFile ----------------------------
(***************************************************************************)
(* auth.json: one file for the credentials of every subscription provider, *)
(* rewritten as a whole by any process that refreshes one or logs in.  A   *)
(* transaction holds a lock file from before it reads until after it       *)
(* renames, also while it awaits the provider.  External: the providers,   *)
(* which take each refresh token once, and proper-lockfile, whose lock may *)
(* be taken from a holder that stopped renewing it.                        *)
(***************************************************************************)
EXTENDS Naturals, FiniteSets

CONSTANTS
  Workers,    \* server and login processes
  Providers,  \* openai-codex, github-copilot
  MaxTokens   \* bound: refresh tokens ever issued

ASSUME CredentialAssumption == MaxTokens \in Nat

VARIABLES
  authFile,      \* file[p]: the refresh token kept for p, 0 for none
  expiring,       \* the tokens whose access expires within REFRESH_WINDOW_MS
  lock,      \* the holders that take the lock file for theirs
  job,       \* job[w]: [step, p, copy, new]
  issued,    \* refresh tokens issued so far
  usable,    \* those the providers still take
  latest,    \* latest[p]: the token the last finished transaction kept for p
  refused,   \* a provider refused a token that was spent already
  mishap     \* a holder died with a token it had not written, or lost the lock

credentialVars == <<authFile, expiring, lock, job, issued, usable, latest, refused, mishap>>

Idle == [step |-> "idle", p |-> "none", copy |-> <<>>, new |-> 0]

Done == [Idle EXCEPT !.step = "done"]

CredentialInit ==
  /\ authFile = [p \in Providers |-> 0] /\ expiring = {} /\ lock = {}
  /\ job = [w \in Workers |-> Idle]
  /\ issued = 0 /\ usable = {} /\ latest = [p \in Providers |-> 0]
  /\ refused = FALSE /\ mishap = FALSE

Issue == issued < MaxTokens /\ issued' = issued + 1

\* Someone logs in: the provider issues a token, which merge is to add.
LogIn(w, p) ==
  /\ job[w].step = "idle" /\ Issue /\ usable' = usable \cup {issued'}
  /\ job' = [job EXCEPT ![w] = [Idle EXCEPT !.step = "waiting", !.p = p, !.new = issued']]
  /\ UNCHANGED <<authFile, expiring, lock, latest, refused, mishap>>

\* An agent needs the credential of its provider.
NeedCredential(w, p) ==
  /\ job[w].step = "idle" /\ authFile[p] # 0
  /\ job' = [job EXCEPT ![w] = [Idle EXCEPT !.step = "waiting", !.p = p]]
  /\ UNCHANGED <<authFile, expiring, lock, issued, usable, latest, refused, mishap>>

\* Fault: the lock is asked for when the file is written.
Unlocked(w) == lock' = lock

\* lock waits for the lock file; one that is not renewed counts as abandoned.
Locked(w) ==
  /\ lock \in SUBSET {v \in Workers : job[v].step \in {"stalled", "dead"}} /\ lock' = {w}

\* The file is read under the lock; a login adds its token, and a credential that is
\* due is refreshed.  The clock was read before the wait: one that became due
\* meanwhile is handed out as it is.
ReadFile(w) ==
  /\ job[w].step = "waiting" /\ Locked(w)
  /\ mishap' = (mishap \/ \E v \in lock : job[v].step = "stalled")
  /\ LET own == authFile[job[w].p] IN
     \E step \in IF job[w].new # 0 THEN {"writing"}
                 ELSE IF own \in expiring THEN {"refreshing", "done"} ELSE {"done"} :
       job' = [job EXCEPT
                 ![w] = IF step = "done" THEN Done
                        ELSE [@ EXCEPT !.step = step,
                                       !.copy = [authFile EXCEPT ![job[w].p] =
                                                   IF job[w].new # 0 THEN job[w].new ELSE @]]]
  /\ UNCHANGED <<authFile, expiring, issued, usable, latest, refused>>

\* The provider takes the token of the copy and issues the next, or fails.
Refresh(w) ==
  LET own == job[w].copy[job[w].p] IN
  /\ job[w].step = "refreshing"
  /\ IF own \in usable
       THEN /\ Issue /\ usable' = (usable \ {own}) \cup {issued'}
            /\ job' = [job EXCEPT ![w].step = "writing", ![w].new = issued',
                                  ![w].copy[job[w].p] = issued']
            /\ UNCHANGED refused
       ELSE /\ refused' = TRUE /\ job' = [job EXCEPT ![w] = Done]
            /\ UNCHANGED <<issued, usable>>
  /\ UNCHANGED <<authFile, expiring, lock, latest, mishap>>

ProviderFails(w) ==
  /\ job[w].step = "refreshing" /\ job' = [job EXCEPT ![w] = Done]
  /\ UNCHANGED <<authFile, expiring, lock, issued, usable, latest, refused, mishap>>

\* The copy replaces the file in one rename.
WriteFile(w) ==
  /\ job[w].step = "writing" /\ authFile' = job[w].copy
  /\ job' = [job EXCEPT ![w] = Done]
  /\ latest' = [latest EXCEPT ![job[w].p] = job[w].new]
  /\ UNCHANGED <<expiring, lock, issued, usable, refused, mishap>>

\* The lock is released however the transaction ended.
Release(w) ==
  /\ job[w].step = "done" /\ job' = [job EXCEPT ![w] = Idle] /\ lock' = lock \ {w}
  /\ UNCHANGED <<authFile, expiring, issued, usable, latest, refused, mishap>>

AccessExpires ==
  /\ \E p \in Providers : authFile[p] # 0 /\ authFile[p] \notin expiring /\ expiring' = expiring \cup {authFile[p]}
  /\ UNCHANGED <<authFile, lock, job, issued, usable, latest, refused, mishap>>

\* A process ends; its lock file stays until it is taken for abandoned.
Die(w) ==
  /\ job[w].step \notin {"idle", "dead"}
  /\ mishap' = (mishap \/ job[w].step = "writing")
  /\ job' = [job EXCEPT ![w] = [Idle EXCEPT !.step = "dead"]]
  /\ UNCHANGED <<authFile, expiring, lock, issued, usable, latest, refused>>

\* A process that awaits its provider stops renewing the lock, and goes on later.
Stall(w) ==
  /\ \/ job[w].step = "refreshing" /\ job' = [job EXCEPT ![w].step = "stalled"]
     \/ job[w].step = "stalled" /\ job' = [job EXCEPT ![w].step = "refreshing"]
  /\ UNCHANGED <<authFile, expiring, lock, issued, usable, latest, refused, mishap>>

CredentialNext ==
  \/ AccessExpires
  \/ \E w \in Workers :
       \/ ReadFile(w) \/ Refresh(w) \/ ProviderFails(w) \/ WriteFile(w) \/ Release(w)
       \/ Die(w) \/ Stall(w)
       \/ \E p \in Providers : LogIn(w, p) \/ NeedCredential(w, p)

CredentialSpec == CredentialInit /\ [][CredentialNext]_credentialVars

(***************************************************************************)
(* Properties                                                              *)
(***************************************************************************)
\* Tokens, holders and steps are of their kinds, and the file keeps no token twice.
CredentialTypeOK ==
  /\ usable \cup expiring \subseteq 1..issued /\ lock \in SUBSET Workers /\ Cardinality(lock) <= 1
  /\ \A p \in Providers : authFile[p] \in 0..issued
  /\ \A w \in Workers : job[w].step \in {"idle", "waiting", "refreshing", "writing", "done",
                                         "stalled", "dead"}

\* README.md: one cross-process lock around the complete read-modify-write
\* transaction.  Short of a mishap no login and no refresh is undone by a
\* transaction for the other provider, and every token in the file is good, save
\* while its successor waits to be written.
FileIsCurrent ==
  ~mishap => \A p \in Providers :
    /\ authFile[p] = latest[p]
    /\ authFile[p] \in usable \cup {0} \/ \E w \in Workers : job[w].step = "writing" /\ job[w].p = p

\* test/auth-file.test.ts: concurrent refreshes for one provider perform one refresh.
\* A token is sent once: a provider that takes each once never refuses.
TokenSpentOnce == refused => mishap

\* Short of a mishap the file has the latest token of every provider, spent once.
CredentialsAreKept ==
  /\ CredentialTypeOK
  /\ FileIsCurrent
  /\ TokenSpentOnce
=============================================================================
