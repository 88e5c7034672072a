--------------------------- MODULE OperatorSessions ---------------------------
(***************************************************************************)
(* A person signs in through GitHub.  The store keeps a row for each OAuth *)
(* state it handed out and for each session; the browser keeps one cookie  *)
(* of either kind.  A callback consumes its state in one stretch, then     *)
(* awaits GitHub twice, and dates the session from before those awaits.    *)
(* GitHub's membership and the browser are external.  Signatures, digests  *)
(* and the encrypted verifier are taken to do what they are for.           *)
(***************************************************************************)
EXTENDS Naturals, FiniteSets

CONSTANTS
  StateTTL,      \* OAUTH_STATE_TTL_MS, ten minutes
  SessionTTL,    \* SESSION_TTL_MS, eight hours
  MaxLogins,     \* bound: logins begun
  MaxCallbacks,  \* bound: callbacks delivered
  MaxTime        \* bound: the clock

ASSUME SessionAssumption ==
  SessionTTL > 0 /\ {StateTTL, SessionTTL, MaxLogins, MaxCallbacks, MaxTime} \subseteq Nat

VARIABLES
  time,
  begun,          \* logins begun so far, which number them
  states,         \* operator_oauth_states: [login, expires]
  sessions,       \* operator_sessions: [of, login, expires, revoked]
  stateCookie,    \* the login the browser's state cookie is for, 0 for none
  sessionCookie,  \* the session of its session cookie, 0 for none
  callback,       \* the callbacks delivered: [login, at, step], by number
  member,         \* whether the person is an active member
  activeAt,       \* when the person was last an active member
  opened,         \* opened[l]: sessions ever created for login l
  served          \* the last request admitted: its time and activeAt then

sessionVars == <<time, begun, states, sessions, stateCookie, sessionCookie, callback, member,
                 activeAt, opened, served>>

Logins    == 1..MaxLogins
Callbacks == 1..MaxCallbacks
Received  == {c \in Callbacks : callback[c].step # "none"}

SessionInit ==
  /\ time = 0 /\ begun = 0 /\ states = {} /\ sessions = {}
  /\ stateCookie = 0 /\ sessionCookie = 0
  /\ callback = [c \in Callbacks |-> [login |-> 0, at |-> 0, step |-> "none"]]
  /\ member = TRUE /\ activeAt = 0
  /\ opened = [l \in Logins |-> 0] /\ served = [at |-> 0, activeAt |-> 0]

\* #cleanup.  A consumed state is deleted where it is consumed, so none is left here.
Unexpired == {s \in states : s.expires >= time}
Unrevoked   == {s \in sessions : s.expires >= time /\ ~s.revoked}

Begin ==
  /\ begun < MaxLogins /\ begun' = begun + 1
  /\ states' = Unexpired \cup {[login |-> begun', expires |-> time + StateTTL]}
  /\ sessions' = Unrevoked /\ stateCookie' = begun'
  /\ UNCHANGED <<time, sessionCookie, callback, member, activeAt, opened, served>>

\* Fault: a state stays good until it expires.
KeepState(l) == UNCHANGED states

Consume(l) == states' = {s \in states : s.login # l}

\* complete, up to its first await: the callback of a login, perhaps delivered
\* again.  An error answer takes the state cookie with it, whatever it is for.
Receive(l) ==
  LET c == Cardinality(Received) + 1
      valid == stateCookie = l /\ \E s \in states : s.login = l /\ s.expires > time
  IN  /\ c \in Callbacks /\ l <= begun
      /\ callback' = [callback EXCEPT ![c] = [login |-> l, at |-> time,
                                              step |-> IF valid THEN "asked" ELSE "ended"]]
      /\ IF valid THEN Consume(l) /\ UNCHANGED stateCookie
                  ELSE UNCHANGED states /\ stateCookie' = 0
      /\ UNCHANGED <<time, begun, sessions, sessionCookie, member, activeAt, opened, served>>

\* The token exchange and the two lookups: GitHub tells the membership of that
\* moment, refuses or fails; a failure ends the callback.
GitHubAnswers(c) ==
  /\ callback[c].step = "asked"
  /\ \/ /\ callback' = [callback EXCEPT ![c].step = IF member THEN "active" ELSE "inactive"]
        /\ UNCHANGED stateCookie
     \/ callback' = [callback EXCEPT ![c].step = "ended"] /\ stateCookie' = 0
  /\ UNCHANGED <<time, begun, states, sessions, sessionCookie, member, activeAt, opened, served>>

\* The clock was read before GitHub was asked.
Lives(c) == callback[c].at + SessionTTL

\* The rest of complete and of the callback route.
Finish(c) ==
  /\ callback[c].step \in {"active", "inactive"}
  /\ callback' = [callback EXCEPT ![c].step = "ended"] /\ stateCookie' = 0
  /\ IF callback[c].step = "active"
       THEN /\ sessions' = sessions \cup {[of |-> c, login |-> callback[c].login,
                                           expires |-> Lives(c), revoked |-> FALSE]}
            /\ opened' = [opened EXCEPT ![callback[c].login] = @ + 1]
            /\ sessionCookie' = c
       ELSE UNCHANGED <<sessions, opened, sessionCookie>>
  /\ UNCHANGED <<time, begun, states, member, activeAt, served>>

\* resolve, for the cookie of any session handed out: a browser may keep an old one.
ResolveSession(c) ==
  /\ \E s \in sessions : s.of = c /\ ~s.revoked /\ s.expires > time
  /\ served' = [at |-> time, activeAt |-> activeAt]
  /\ UNCHANGED <<time, begun, states, sessions, stateCookie, sessionCookie, callback, member,
                 activeAt, opened>>

\* revoke, by the logout route.
Logout ==
  /\ sessionCookie # 0 /\ sessionCookie' = 0
  /\ sessions' = {IF s.of = sessionCookie THEN [s EXCEPT !.revoked = TRUE] ELSE s : s \in sessions}
  /\ UNCHANGED <<time, begun, states, stateCookie, callback, member, activeAt, opened, served>>

Tick ==
  /\ time < MaxTime /\ time' = time + 1
  /\ activeAt' = IF member THEN time' ELSE activeAt
  /\ UNCHANGED <<begun, states, sessions, stateCookie, sessionCookie, callback, member, opened,
                 served>>

\* The organization removes the person.
Leave ==
  /\ member /\ member' = FALSE
  /\ UNCHANGED <<time, begun, states, sessions, stateCookie, sessionCookie, callback, activeAt,
                 opened, served>>

SessionNext ==
  \/ Begin \/ Logout \/ Tick \/ Leave
  \/ \E l \in Logins : Receive(l)
  \/ \E c \in Callbacks : GitHubAnswers(c) \/ Finish(c) \/ ResolveSession(c)

SessionSpec == SessionInit /\ [][SessionNext]_sessionVars

(***************************************************************************)
(* Properties                                                              *)
(***************************************************************************)
\* Rows, cookies and callbacks are of their kinds, and no session outlives its callback
\* by more than the eight hours.
SessionTypeOK ==
  /\ begun \in 0..MaxLogins /\ {stateCookie} \cup {s.login : s \in states} \subseteq 0..begun
  /\ sessionCookie \in Received \cup {0}
  /\ \A s \in sessions : s.of \in Received /\ s.expires <= callback[s.of].at + SessionTTL
  /\ \A c \in Received : callback[c].step \in {"asked", "active", "inactive", "ended"}

\* One login opens at most one session, however often its callback is delivered,
\* also while an earlier delivery still awaits GitHub, and across the cleanup of
\* later logins.
OneSessionPerLogin == \A l \in Logins : opened[l] <= 1

\* Whoever is admitted was an active member less than
\* eight hours before, however long GitHub took to answer and whatever else they
\* signed in to since.
ServedAfterMembership == served.at < served.activeAt + SessionTTL

\* A login gives one session, to somebody who was a member within its eight hours.
SessionsAreEarned ==
  /\ SessionTypeOK
  /\ OneSessionPerLogin
  /\ ServedAfterMembership
=============================================================================
