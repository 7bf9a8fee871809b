----------------------------- MODULE LoginAttempts -----------------------------
(***************************************************************************)
(* Signing in to the administration of one account (admin_auth.py): every   *)
(* attempt books a failure before the password is looked at, counts the     *)
(* failures since a baseline, and takes its booking back when it is locked  *)
(* out or right.  Changing one's own password is such an attempt too, and   *)
(* ends the other sessions.                                                 *)
(*                                                                          *)
(* The statements of an attempt are separate, concurrent attempts interleave*)
(* between any two; those of a transaction are one step.  A request that is *)
(* cancelled, or whose process ends, leaves its booking behind.             *)
(***************************************************************************)
EXTENDS Integers, FiniteSets

CONSTANTS
    Requests,
    MaxFailures,  \* admin_login_max_failures
    Window,       \* admin_login_window_s
    MaxTime       \* bound of the runs

ASSUME LoginAssumption == MaxFailures \in Nat /\ Window \in Nat /\ MaxTime \in Nat

VARIABLES
    now,
    failed,     \* admin_audit: the failures booked, by request and time
    lastOk,     \* admin_audit: when the last login succeeded
    changedAt,  \* admin_users.password_changed_at
    password,   \* how often the password has been changed
    request,    \* what each request knows and does next
    sessions,   \* admin_sessions that are valid
    passed      \* history: requests whose password was, or is to be, verified

loginVars == <<now, failed, lastOk, changedAt, password, request, sessions, passed>>

NotAsked == [pc |-> "idle", kind |-> "login", session |-> "none", since |-> 0, hash |-> 0,
             right |-> FALSE]

LoginInit ==
    /\ now = 1 /\ failed = {} /\ lastOk = 0 /\ changedAt = 0 /\ password = 0
    /\ request = [a \in Requests |-> NotAsked]
    /\ sessions = {} /\ passed = {}

At(a, pc)   == request[a].pc = pc
GoTo(a, pc) == request' = [request EXCEPT ![a].pc = pc]

\* A change of one's own password is let in by a session (require_admin), which
\* nothing looks at again.
Admit(a, s) ==
    /\ At(a, "idle")
    /\ \E x \in sessions : x.of = s
    /\ request' = [request EXCEPT ![a] =
                     [NotAsked EXCEPT !.pc = "read", !.kind = "change", !.session = s]]
    /\ UNCHANGED <<now, failed, lastOk, changedAt, password, sessions, passed>>

\* The account is read, for a login at once: its hash and when the password was
\* changed last.
Read(a, right) ==
    /\ At(a, "idle") \/ At(a, "read")
    /\ request' = [request EXCEPT ![a].pc = "reserve", ![a].since = changedAt,
                                  ![a].hash = password, ![a].right = right]
    /\ UNCHANGED <<now, failed, lastOk, changedAt, password, sessions, passed>>

Reserve(a) ==
    /\ At(a, "reserve") /\ GoTo(a, "count")
    /\ failed' = failed \cup {[of |-> a, at |-> now]}
    /\ UNCHANGED <<now, lastOk, changedAt, password, sessions, passed>>

\* (A mistake: what is being verified is not counted yet.)
CountedSettled(a) ==
    {r \in failed : /\ r.at > now - Window /\ r.at > request[a].since /\ r.at > lastOk
                    /\ ~At(r.of, "verify")}

Counted(a) ==
    {r \in failed : r.at > now - Window /\ r.at > request[a].since /\ r.at > lastOk}

\* The count includes one's own booking, and the bookings of all others who are
\* on their way.
Count(a) ==
    /\ At(a, "count")
    /\ IF Cardinality(Counted(a)) > MaxFailures
       THEN GoTo(a, "unreserve") /\ UNCHANGED passed
       ELSE GoTo(a, "verify") /\ passed' = passed \cup {a}
    /\ UNCHANGED <<now, failed, lastOk, changedAt, password, sessions>>

Cancelled(a) == {r \in failed : r.of # a}

\* A locked attempt leaves nothing behind.
Unreserve(a) ==
    /\ At(a, "unreserve") /\ GoTo(a, "done")
    /\ failed' = Cancelled(a)
    /\ UNCHANGED <<now, lastOk, changedAt, password, sessions, passed>>

\* A wrong password leaves the booking as the failure.
Verify(a) ==
    /\ At(a, "verify")
    /\ GoTo(a, IF ~request[a].right THEN "done"
               ELSE IF request[a].kind = "login" THEN "open" ELSE "clean")
    /\ UNCHANGED <<now, failed, lastOk, changedAt, password, sessions, passed>>

\* One transaction: the booking goes, the session and the success come.
Open(a) ==
    /\ At(a, "open") /\ GoTo(a, "done")
    /\ failed' = Cancelled(a) /\ lastOk' = now
    /\ sessions' = sessions \cup {[of |-> a, hash |-> request[a].hash, born |-> password,
                                    by |-> 0]}
    /\ UNCHANGED <<now, changedAt, password, passed>>

Clean(a) ==
    /\ At(a, "clean") /\ GoTo(a, "change")
    /\ failed' = Cancelled(a)
    /\ UNCHANGED <<now, lastOk, changedAt, password, sessions, passed>>

\* (A mistake: only sessions of earlier passwords are ended.)
KeptYounger(s) == {x \in sessions : x.of = s \/ x.hash = password}

Kept(s) == {x \in sessions : x.of = s}

\* A new password ends all sessions but the one it was set in.
Change(a) ==
    /\ At(a, "change") /\ GoTo(a, "done")
    /\ password' = password + 1 /\ changedAt' = now
    /\ sessions' = {IF x.of = request[a].session THEN [x EXCEPT !.by = password + 1] ELSE x :
                      x \in Kept(request[a].session)}
    /\ UNCHANGED <<now, failed, lastOk, passed>>

\* The password is reset from the command line.
Reset ==
    /\ password < MaxTime
    /\ password' = password + 1 /\ changedAt' = now /\ sessions' = {}
    /\ UNCHANGED <<now, failed, lastOk, request, passed>>

\* Signed out, expired, idle for too long, or the account made inactive.
EndSession(x) ==
    /\ sessions' = sessions \ {x}
    /\ UNCHANGED <<now, failed, lastOk, changedAt, password, request, passed>>

Stop(a) ==
    /\ ~At(a, "idle") /\ ~At(a, "done") /\ GoTo(a, "done")
    /\ UNCHANGED <<now, failed, lastOk, changedAt, password, sessions, passed>>

Tick ==
    /\ now < MaxTime /\ now' = now + 1
    /\ UNCHANGED <<failed, lastOk, changedAt, password, request, sessions, passed>>

Attempt(a) ==
    \/ \E s \in Requests : Admit(a, s)
    \/ \E right \in BOOLEAN : Read(a, right)
    \/ Reserve(a) \/ Count(a) \/ Unreserve(a) \/ Verify(a)
    \/ Open(a) \/ Clean(a) \/ Change(a) \/ Stop(a)

LoginNext == \/ \E a \in Requests : Attempt(a)
             \/ Reset \/ Tick
             \/ \E x \in sessions : EndSession(x)

LoginSpec == LoginInit /\ [][LoginNext]_loginVars

-----------------------------------------------------------------------------
LoginTypeOK ==
    /\ now \in Nat /\ lastOk \in 0 .. now /\ changedAt \in 0 .. now /\ password \in Nat
    /\ failed \subseteq [of : Requests, at : Nat]
    /\ request \in [Requests ->
         [pc : {"idle", "read", "reserve", "count", "unreserve", "verify", "open", "clean", "change",
                "done"},
          kind : {"login", "change"}, session : Requests \cup {"none"},
          since : Nat, hash : Nat, right : BOOLEAN]]
    /\ sessions \subseteq [of : Requests, hash : Nat, born : Nat, by : Nat]
    /\ passed \subseteq Requests

Recent(r) == r.at > now - Window /\ r.at > changedAt /\ r.at > lastOk

Guesses == {r \in failed : r.of \in passed /\ Recent(r)}

\* However many attempts arrive at once: since the window began, the password was
\* changed or somebody signed in, no more passwords were wrong or are still being
\* verified than the limit allows (_attempt: the failure is booked first).
AttemptsBounded == Cardinality(Guesses) <= MaxFailures

\* A session that was opened with an earlier password is the one in which the last
\* change was made, or its login was already on its way at that change.
OldSessionsEnd ==
    \A x \in sessions : x.hash = password \/ x.by = password \/ x.born = password
=============================================================================
